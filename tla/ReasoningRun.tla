---------------------------- MODULE ReasoningRun ----------------------------
(***************************************************************************)
(* The reasoning of the episodes of one run: the selector turns what it    *)
(* knows of past rewards into directives (reward_guided.py), the scheduler *)
(* selects a sequence and runs it family by family (meta_scheduler.py),    *)
(* and the runner tells the selector, then the ledger, what it was worth   *)
(* (scenario_runner.py).  A runner may end anywhere; the next one on the   *)
(* run has only the ledger, and may be of another scenario.                *)
(***************************************************************************)
EXTENDS ReasoningPolicy

CONSTANTS
  Setups,       \* how the run may be configured
  Scenarios,    \* of the runners of the run: the regime of their evidence
  Candidates,   \* families the selector governs
  Rewards,      \* rewards of an episode
  Epsilon,      \* what a family must add to the mean reward to pay
  MinObs,       \* episodes with a family, and without, to judge it
  MaxActive,    \* families turned on at once
  SeedSizes     \* rewards there may be among the events a new selector lists

\* steps is the budget asked for (0: the signals grant it), contexts what the
\* episodes may show, episodes a bound on their number.
Setup ==
  [mode : {"fixed", "adaptive"}, profile : DOMAIN Profiles,
   hint : Labels \union {"none"}, steps : Nat, experimental : BOOLEAN,
   contexts : SUBSET Context, episodes : Nat]

ASSUME ReasoningAssumption ==
  /\ \A setup \in Setups :
       /\ setup.mode \in {"fixed", "adaptive"} /\ setup.profile \in DOMAIN Profiles
       /\ setup.hint \in Labels \union {"none"}
       /\ {setup.steps, setup.episodes} \subseteq Nat
       /\ \A c \in setup.contexts : c \in Context
  /\ Candidates \subseteq Optional \ {"eml_sr"}
  /\ Rewards \subseteq Int
  /\ {Epsilon, MinObs, MaxActive} \subseteq Nat
  /\ SeedSizes \subseteq Nat

VARIABLES
  setup,       \* the configuration of the run
  begun,       \* episodes begun
  pc,          \* what the runner does next
  scenario,    \* of the runner
  seeded,      \* the selector has read the ledger
  evidence,    \* the bag of observations the selector has
  reading,     \* history: the stretch of the ledger it was given, and what
               \* the ledger held then
  directives,  \* on or off, per family, for the episode
  plan,        \* the validated sequence, its validation and its budget
  executed,    \* families run so far, in order
  validated,   \* ded has validated its conclusion
  reward,      \* what the closed episode was worth
  ledger       \* the observations reported as events, in order

episode == <<directives, plan, executed, validated, reward>>
selector == <<seeded, evidence, reading>>
vars == <<setup, begun, pc, scenario, selector, episode, ledger>>

Observation == [reward : Rewards, overlays : SUBSET Optional, regime : Scenarios]

NoPlan == [sequence |-> <<>>, passed |-> TRUE, safe |-> FALSE, steps |-> 0,
           budget |-> 0, pressed |-> FALSE]

NoReading == [first |-> 1, last |-> 0, held |-> 0]

Init ==
  /\ setup \in Setups
  /\ begun = 0 /\ pc = "idle" /\ scenario \in Scenarios
  /\ seeded = FALSE /\ evidence = EmptyBag /\ reading = NoReading
  /\ directives = [f \in {} |-> "off"]
  /\ plan = NoPlan /\ executed = <<>> /\ validated = FALSE /\ reward = 0
  /\ ledger = <<>>

-----------------------------------------------------------------------------
(* The selector *)

\* What the ledger may give: the rewards among a number of events of every
\* type, the newest with SQLite and the oldest with PostgreSQL; or nothing,
\* when the listing fails, which counts as having read.
Readings ==
  LET k == Len(ledger)
  IN UNION {{[first |-> 1, last |-> n, held |-> k],
             [first |-> k - n + 1, last |-> k, held |-> k]} :
            n \in {Smaller(size, k) : size \in SeedSizes \union {0}}}

Listed(r) == SubSeq(ledger, r.first, r.last)

\* Mutant: the ledger is read again before every episode.
KnownAgain(r) == evidence (+) ToBag(Listed(r))

\* What the selector knows, once it has been given a stretch of the ledger.
Known(r) == IF seeded THEN evidence ELSE ToBag(Listed(r))

\* The evidence of the regime, or all of it when the regime has too little.
Scoped(known, regime) ==
  LET own == [o \in {p \in DOMAIN known : p.regime = regime} |-> known[o]]
  IN IF BagCardinality(own) >= Larger(2 * MinObs, MinObs + 1) THEN own ELSE known

Total(rows, S) == MapThenSumSet(LAMBDA o : rows[o] * o.reward, S)
Count(rows, S) == MapThenSumSet(LAMBDA o : rows[o], S)

\* What the rows say of a family: the difference of its mean rewards, with and
\* without it, is gain / weight.
Evidence(rows, f) ==
  LET with == {o \in DOMAIN rows : f \in o.overlays}
      without == DOMAIN rows \ with
      n == Count(rows, with)
      m == Count(rows, without)
  IN [judged |-> n >= MinObs /\ m >= MinObs,
      gain   |-> Total(rows, with) * m - Total(rows, without) * n,
      weight |-> n * m]

\* Mutant: a family not judged yet is left alone.
DirectivesIfJudged(known, regime) ==
  LET rows == Scoped(known, regime)
      judged == {f \in Candidates : Evidence(rows, f).judged}
  IN [f \in judged |-> IF Evidence(rows, f).gain > Epsilon * Evidence(rows, f).weight
                       THEN "on" ELSE "off"]

\* Which families go on and which off in the next episode: the best of those
\* that pay, and one of those not judged yet, in turn, if there is room.
Directives(known, regime) ==
  LET rows == Scoped(known, regime)
      info == [f \in Candidates |-> Evidence(rows, f)]
      undecided == {f \in Candidates : ~ info[f].judged}
      pay == {f \in Candidates \ undecided : info[f].gain > Epsilon * info[f].weight}
      better(f, g) ==
        LET a == info[f].gain * info[g].weight
            b == info[g].gain * info[f].weight
        IN a > b \/ (a = b /\ Index(Alphabet, f) > Index(Alphabet, g))
      ranked == SetToSortSeq(pay, better)
      best == ToSet(SubSeq(ranked, 1, Smaller(MaxActive, Len(ranked))))
      waiting == SelectSeq(Alphabet, LAMBDA f : f \in undecided)
      turn == waiting[(BagCardinality(rows) % Len(waiting)) + 1]
      on == IF undecided # {} /\ Cardinality(best) < MaxActive
            THEN best \union {turn} ELSE best
  IN [f \in Candidates |-> IF f \in on THEN "on" ELSE "off"]

-----------------------------------------------------------------------------
(* The scheduler *)

\* The plan for an episode that shows a context.
Plans(c) ==
  LET s == Signals(c)
      budget == Budget(s, setup.steps)
  IN \E selected \in {Select(s, budget, setup.mode, setup.profile, setup.hint,
                             setup.experimental, directives')} :
       plan' = [sequence |-> selected.sequence, passed |-> selected.passed,
                safe |-> selected.safe, steps |-> selected.steps,
                budget |-> budget, pressed |-> s.edge >= 8500]

\* The episode asks the selector, which reads the ledger if it has not yet, and
\* selects its sequence.
Begin ==
  /\ pc = "idle" /\ begun < setup.episodes
  /\ reading' \in IF seeded THEN {reading} ELSE Readings
  /\ seeded' = TRUE /\ evidence' = Known(reading')
  /\ directives' = Directives(evidence', scenario)
  /\ \E c \in setup.contexts : Plans(c)
  /\ executed' = <<>> /\ validated' = FALSE /\ reward' = 0
  /\ begun' = begun + 1 /\ pc' = "reason"
  /\ UNCHANGED <<setup, scenario, ledger>>

\* should_early_stop after a step: the budget is used, or the pressure is high
\* and the conclusion validated.  No family reports a critical failure.
EarlyStop(step, concluded) ==
  \/ step >= plan.budget
  \/ plan.pressed /\ concluded

\* Mutant: nothing is waited for.
EndsAtOnce(done, concluded) ==
  \/ done = plan.sequence
  \/ setup.mode = "adaptive" /\ EarlyStop(Len(done), concluded)

\* An early stop ends an adaptive episode, unless prob has yet to calibrate.
Ends(done, concluded) ==
  \/ done = plan.sequence
  \/ /\ setup.mode = "adaptive"
     /\ EarlyStop(Len(done), concluded)
     /\ \/ "prob" \notin ToSet(SubSeq(plan.sequence, Len(done) + 1, Len(plan.sequence)))
        \/ "prob" \in ToSet(done)

\* One family of the sequence; only ded and prob leave what the loop asks for.
RunFamily ==
  /\ pc = "reason"
  /\ LET family == plan.sequence[Len(executed) + 1]
     IN /\ executed' = Append(executed, family)
        /\ validated' \in IF family = "ded" THEN BOOLEAN ELSE {validated}
  /\ pc' = IF Ends(executed', validated') THEN "close" ELSE "reason"
  /\ UNCHANGED <<setup, begun, scenario, selector, directives, plan, reward, ledger>>

Overlays == ToSet(executed) \ ToSet(Core)

Worth(r) == [reward |-> r, overlays |-> Overlays, regime |-> scenario]

\* The reward of the closed episode, told to the selector of the runner.
Observe ==
  /\ pc = "close"
  /\ reward' \in Rewards
  /\ evidence' = evidence (+) SetToBag({Worth(reward')})
  /\ pc' = "report"
  /\ UNCHANGED <<setup, begun, scenario, seeded, reading, directives, plan, executed,
                 validated, ledger>>

\* The same observation as an event of the run.
Report ==
  /\ pc = "report"
  /\ ledger' = Append(ledger, Worth(reward))
  /\ pc' = "idle"
  /\ UNCHANGED <<setup, begun, scenario, selector, episode>>

\* The runner ends, wherever it is, and another one takes the run up.
Replace ==
  /\ scenario' \in Scenarios
  /\ pc' = "idle"
  /\ seeded' = FALSE /\ evidence' = EmptyBag /\ reading' = NoReading
  /\ directives' = [f \in {} |-> "off"]
  /\ plan' = NoPlan /\ executed' = <<>> /\ validated' = FALSE /\ reward' = 0
  /\ UNCHANGED <<setup, begun, ledger>>

Next == Begin \/ RunFamily \/ Observe \/ Report \/ Replace

Spec == Init /\ [][Next]_vars

-----------------------------------------------------------------------------
(* Properties *)

\* Every variable has its type.
TypeOK ==
  /\ setup \in Setups
  /\ begun \in 0..setup.episodes
  /\ pc \in {"idle", "reason", "close", "report"}
  /\ scenario \in Scenarios
  /\ seeded \in BOOLEAN
  /\ IsABag(evidence) /\ \A o \in DOMAIN evidence : o \in Observation
  /\ {reading.first, reading.last, reading.held} \subseteq Nat
  /\ reading.first \in 1..(reading.last + 1) /\ reading.last <= reading.held
  /\ reading.held <= Len(ledger)
  /\ DOMAIN directives \in {{}, Candidates}
  /\ \A f \in DOMAIN directives : directives[f] \in {"on", "off"}
  /\ ToSet(plan.sequence) \union ToSet(executed) \subseteq ToSet(Core) \union Optional
  /\ plan.steps \in 0..HardMaxSteps /\ plan.budget \in 0..HardMaxSteps
  /\ {plan.passed, plan.safe, plan.pressed, validated} \subseteq BOOLEAN
  /\ reward \in Rewards \union {0}
  /\ ledger \in Seq(Observation)

\* The closure profile of adaptive episodes: the whole core in its order, known
\* families between, prob at the end.
AdaptiveMin(seq) ==
  /\ ToSet(Core) \subseteq ToSet(seq) /\ KeepsOrder(seq)
  /\ ToSet(seq) \subseteq ToSet(Core) \union Optional
  /\ Last(seq) = "prob"

\* Whatever the signals, the budget, the directives and the early stop, what an
\* adaptive episode has run when it closes is what its closure asks for, and a
\* fixed one without overlays has run the core exactly (evaluator.py:191).
ClosureHolds ==
  pc \in {"close", "report"} =>
    /\ setup.mode = "adaptive" => AdaptiveMin(executed)
    /\ setup.mode = "fixed" /\ Overlays = {} => executed = Core

\* One correction is enough: what the validator lets through passes its own
\* checks, without the safe profile (policy.py:760 does not check again what
\* that gives); and the episode runs the sequence that was validated, from its
\* first family on, none twice.
CorrectionSuffices ==
  pc # "idle" =>
    /\ plan.passed /\ ~ plan.safe
    /\ IsPrefix(executed, plan.sequence)
    /\ pc # "reason" => executed = plan.sequence
    /\ Cardinality(ToSet(plan.sequence)) = Len(plan.sequence)

Governs == plan # NoPlan /\ setup.profile # "adaptive_family_ecology_v2"

\* What the evidence turns on runs, if the profile has it and the steps are
\* enough for all it leaves on; what it turns off does not run, however the
\* proposal is filled up, cut and corrected.  Not so in the second version of
\* the ecology, which takes no directives.
DirectivesRule ==
  Governs =>
    LET left == Governed(Allowed(setup.profile, setup.experimental), directives)
    IN /\ ToSet(plan.sequence) \intersect Off(directives) = {}
       /\ Len(Core) + Cardinality(left) <= plan.steps
            => On(directives) \intersect left \subseteq ToSet(plan.sequence)

\* The selector counts every episode once, whichever runners reported it: what
\* it knows is what the ledger gave when it was read, whatever that was, and
\* every episode since, the one about to be reported among them.
EvidenceIsTheLedger ==
  seeded =>
    LET pending == IF pc = "report" THEN SetToBag({Worth(reward)}) ELSE EmptyBag
        since == SubSeq(ledger, reading.held + 1, Len(ledger))
    IN evidence = (ToBag(Listed(reading)) (+) ToBag(since)) (+) pending
=============================================================================
