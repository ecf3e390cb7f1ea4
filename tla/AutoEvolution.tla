---------------------------- MODULE AutoEvolution ----------------------------
(***************************************************************************)
(* The life of an organism: episodes age it, and after each one its        *)
(* autoevolution controller rolls it back, watches, keeps or reverts a     *)
(* modification of the runner's knobs, or proposes one.  A life is a chain *)
(* of runners under one run id; a runner's controller dies with it, the    *)
(* organism and its lineage go on.                                         *)
(*                                                                         *)
(* One action is one episode: the transition of the organism, its          *)
(* certificate, and the branch of observe_episode that was taken.          *)
(***************************************************************************)
EXTENDS OrganismVitality

CONSTANTS
  Experiences,     \* what an episode may show of the world
  IoCs,            \* values of the closure indicator of a certificate
  Verdicts,        \* verdicts of certificates
  Starts,          \* organism and number of certificates at the start
  Block,           \* episodes of a runner
  Blocks,          \* bound: runners of the life
  Patience, PostWindow, Cooldown,
  Earned           \* evidence below which the posterior accepts nothing

VARIABLES
  state,        \* the live organism
  mode,         \* the life's memory mode is cross-scenario
  knobs,        \* the runner's behaviour parameters
  consecutive,  \* degraded episodes in a row
  cooldown,     \* episodes left without a proposal
  checkpoint,   \* last healthy organism and its knobs, if any
  monitor,      \* the modification on trial, if any
  evidence,     \* episodes counted by the controller, or Unseeded
  lineage,      \* accepted modifications and rollbacks on record
  certificates, \* certificates stored: the clock of the life
  ioc,          \* indicator of the last certificate
  verdict,      \* verdict of the last certificate
  lived,        \* episodes of the current runner
  block,        \* runners before it
  trial_ioc     \* history: the indicator when the trial began

controller == <<consecutive, cooldown, checkpoint, monitor, evidence>>
vars == <<state, mode, knobs, controller, lineage, certificates, ioc, verdict,
          lived, block, trial_ioc>>

Knobs == [limit : 1..3, cross : BOOLEAN]
Unseeded == -1
NoCheckpoint == [knobs |-> [limit |-> 0]]
NoMonitor == [left |-> 0]

ASSUME ConstantsAssumption ==
  /\ Experiences \subseteq Experience
  /\ IoCs \subseteq Int
  /\ Starts \subseteq [state : Organism, certificates : Nat]
  /\ \A b \in Starts : b.state.timestamp <= b.certificates
  /\ {Block, Blocks, Patience, PostWindow, Cooldown, Earned} \subseteq Nat
  /\ PostWindow >= 1 /\ Cooldown >= 1 /\ Earned >= 1

Defaults == [limit |-> 3, cross |-> mode]

NewController ==
  /\ knobs' = Defaults /\ consecutive' = 0 /\ cooldown' = 0
  /\ checkpoint' = NoCheckpoint /\ monitor' = NoMonitor
  /\ evidence' = Unseeded

Init ==
  /\ \E b \in Starts : state = b.state /\ certificates = b.certificates
  /\ mode \in BOOLEAN
  /\ knobs = Defaults /\ consecutive = 0 /\ cooldown = 0
  /\ checkpoint = NoCheckpoint /\ monitor = NoMonitor /\ evidence = Unseeded
  /\ lineage = [generation |-> 0, rollbacks |-> 0]
  /\ ioc \in IoCs /\ verdict \in Verdicts
  /\ lived = 0 /\ block = 0 /\ trial_ioc = 0
-----------------------------------------------------------------------------
\* The organism after an episode.  The certificate is made after the
\* transition, which therefore never finds one in the episode's result.
Fresh(e, retrieved) == Advance(state, e, retrieved, FALSE, certificates + 1)

Degraded(s) == ViabilityMargin(s) < Hundredths(45) \/ s.drift > 5000
Healthy(s) == ~Degraded(s) /\ Verdict(s) = "valid"

\* The first count comes from storage, which may fail; it lists 64 at most.
Counted ==
  IF evidence # Unseeded THEN {evidence + 1}
  ELSE {0, IF certificates < 64 THEN certificates + 1 ELSE 64}

\* The episode is certified and counted before the controller decides.
Closes ==
  /\ lived < Block /\ lived' = lived + 1
  /\ certificates' = certificates + 1
  /\ ioc' \in IoCs /\ verdict' \in Verdicts
  /\ evidence' \in Counted
  /\ UNCHANGED <<block, mode>>

\* Mutant: rolls the organism back and leaves the knobs.
RollbackOfStateOnly(s) ==
  /\ RollbackRequired(s)
  /\ knobs' = knobs
  /\ state' = IF checkpoint = NoCheckpoint THEN s ELSE checkpoint.state
  /\ lineage' = [lineage EXCEPT !.rollbacks = @ + 1]
  /\ monitor' = NoMonitor /\ consecutive' = 0 /\ cooldown' = Cooldown
  /\ UNCHANGED <<checkpoint, trial_ioc>>

Rollback(s) ==
  /\ RollbackRequired(s)
  /\ knobs' = IF checkpoint = NoCheckpoint THEN knobs ELSE checkpoint.knobs
  /\ state' = IF checkpoint = NoCheckpoint THEN s ELSE checkpoint.state
  /\ lineage' = [lineage EXCEPT !.rollbacks = @ + 1]
  /\ monitor' = NoMonitor /\ consecutive' = 0 /\ cooldown' = Cooldown
  /\ UNCHANGED <<checkpoint, trial_ioc>>
-----------------------------------------------------------------------------
(* A modification on trial.                                                *)

Monitored(s) == ~RollbackRequired(s) /\ monitor # NoMonitor

\* Mutant: the delta of the deciding episode is not collected.
GainSoFar == monitor.gain

\* The sum of the deltas of the window: only its sign is compared.
Gain == monitor.gain + (ioc' - ioc)

\* Mutant: a window of one episode more.
WatchOnceMore(s) ==
  /\ Monitored(s) /\ monitor.left > 0
  /\ state' = s
  /\ monitor' = [monitor EXCEPT !.left = @ - 1, !.gain = Gain]
  /\ UNCHANGED <<knobs, consecutive, cooldown, checkpoint, lineage, trial_ioc>>

Watch(s) ==
  /\ Monitored(s) /\ monitor.left > 1
  /\ state' = s
  /\ monitor' = [monitor EXCEPT !.left = @ - 1, !.gain = Gain]
  /\ UNCHANGED <<knobs, consecutive, cooldown, checkpoint, lineage, trial_ioc>>

\* Mutants: the revert is not recorded; it starts no cooldown.
RevertUnrecorded(s) ==
  /\ Monitored(s) /\ monitor.left = 1 /\ Gain < 0
  /\ knobs' = monitor.knobs /\ state' = monitor.state
  /\ monitor' = NoMonitor /\ cooldown' = Cooldown
  /\ UNCHANGED <<consecutive, checkpoint, lineage, trial_ioc>>
RevertAtOnce(s) ==
  /\ Monitored(s) /\ monitor.left = 1 /\ Gain < 0
  /\ knobs' = monitor.knobs /\ state' = monitor.state
  /\ lineage' = [lineage EXCEPT !.rollbacks = @ + 1]
  /\ monitor' = NoMonitor /\ cooldown' = 0
  /\ UNCHANGED <<consecutive, checkpoint, trial_ioc>>

Revert(s) ==
  /\ Monitored(s) /\ monitor.left = 1 /\ Gain < 0
  /\ knobs' = monitor.knobs /\ state' = monitor.state
  /\ lineage' = [lineage EXCEPT !.rollbacks = @ + 1]
  /\ monitor' = NoMonitor /\ cooldown' = Cooldown
  /\ UNCHANGED <<consecutive, checkpoint, trial_ioc>>

Commit(s) ==
  /\ Monitored(s) /\ monitor.left = 1 /\ Gain >= 0
  /\ state' = s /\ monitor' = NoMonitor
  /\ UNCHANGED <<knobs, consecutive, cooldown, checkpoint, lineage, trial_ioc>>
-----------------------------------------------------------------------------
(* No trial: health is a checkpoint, degradation tries the patience.       *)

Rest(s) ==
  /\ ~RollbackRequired(s) /\ monitor = NoMonitor /\ Healthy(s)
  /\ state' = s
  /\ checkpoint' = [state |-> s, knobs |-> knobs]
  /\ consecutive' = 0
  /\ cooldown' = IF cooldown > 0 THEN cooldown - 1 ELSE 0
  /\ UNCHANGED <<knobs, monitor, lineage, trial_ioc>>

Ailing(s) ==
  /\ ~RollbackRequired(s) /\ monitor = NoMonitor /\ ~Healthy(s)
  /\ state' = s /\ UNCHANGED checkpoint

Endure(s) ==
  /\ Ailing(s)
  /\ consecutive' = consecutive + 1
  /\ \/ cooldown > 0 /\ cooldown' = cooldown - 1
     \/ cooldown = 0 /\ consecutive' < Patience /\ cooldown' = 0
  /\ UNCHANGED <<knobs, monitor, lineage, trial_ioc>>

Impatient(s) ==
  /\ Ailing(s) /\ cooldown = 0 /\ consecutive + 1 >= Patience

\* The safe region; barrier: the telemetry of the machine finds B_safe violated.
Safe(s, barrier) == HardViolations(s) = 0 /\ ~barrier

\* _diagnose: the knobs after the change it chooses, or the same knobs.
Diagnosis(retrieved) ==
  IF retrieved >= 2 /\ knobs.limit > 1
  THEN [knobs EXCEPT !.limit = @ - 1]
  ELSE [knobs EXCEPT !.cross = FALSE]

MaySafely(s) == \E barrier \in BOOLEAN : Safe(s, barrier)

Abstained ==
  /\ consecutive' = consecutive + 1 /\ cooldown' = Cooldown
  /\ UNCHANGED <<knobs, monitor, lineage, trial_ioc>>

Blocked(s) ==
  Impatient(s) /\ (\E barrier \in BOOLEAN : ~Safe(s, barrier)) /\ Abstained

NoCandidate(s, retrieved) ==
  /\ Impatient(s) /\ MaySafely(s)
  /\ Diagnosis(retrieved) = knobs /\ Abstained

\* The sandbox quarantines the proposal.  How the posterior weighs evidence
\* that is large enough is left open, so this is always possible.
Quarantined(s, retrieved) ==
  /\ Impatient(s) /\ MaySafely(s)
  /\ Diagnosis(retrieved) # knobs /\ Abstained

Accepted(s) == ~QuarantineRecommended(s) /\ evidence' >= Earned

\* Mutant: the backup is read after the knobs were written.
ApplyThenBackUp(s, retrieved) ==
  /\ Impatient(s) /\ MaySafely(s)
  /\ Diagnosis(retrieved) # knobs /\ Accepted(s)
  /\ knobs' = Diagnosis(retrieved)
  /\ monitor' = [left |-> PostWindow, knobs |-> knobs', state |-> s, gain |-> 0]
  /\ lineage' = [lineage EXCEPT !.generation = @ + 1]
  /\ consecutive' = 0 /\ trial_ioc' = ioc'
  /\ UNCHANGED cooldown

Apply(s, retrieved) ==
  /\ Impatient(s) /\ MaySafely(s)
  /\ Diagnosis(retrieved) # knobs /\ Accepted(s)
  /\ knobs' = Diagnosis(retrieved)
  /\ monitor' = [left |-> PostWindow, knobs |-> knobs, state |-> s, gain |-> 0]
  /\ lineage' = [lineage EXCEPT !.generation = @ + 1]
  /\ consecutive' = 0 /\ trial_ioc' = ioc'
  /\ UNCHANGED cooldown
-----------------------------------------------------------------------------
Decide(s, retrieved) ==
  \/ Rollback(s)
  \/ Watch(s) \/ Revert(s) \/ Commit(s)
  \/ Rest(s) \/ Endure(s)
  \/ Blocked(s) \/ NoCandidate(s, retrieved)
  \/ Quarantined(s, retrieved)
  \/ Apply(s, retrieved)

\* Memory holds nothing that fits, or gives its limit.
Retrieved == {0, knobs.limit}

Episode(e, retrieved) ==
  Closes /\ Decide(Fresh(e, retrieved), retrieved)

\* The life loop starts another runner with the organism and its lineage.
NextBlock ==
  /\ lived = Block /\ block < Blocks - 1
  /\ block' = block + 1 /\ lived' = 0 /\ trial_ioc' = 0
  /\ NewController
  /\ UNCHANGED <<state, mode, lineage, certificates, ioc, verdict>>

Next ==
  \/ \E e \in Experiences, retrieved \in Retrieved : Episode(e, retrieved)
  \/ NextBlock

Spec == Init /\ [][Next]_vars
-----------------------------------------------------------------------------
Checkpoints == [state : Organism, knobs : Knobs]
Monitors == [left : 1..PostWindow, knobs : Knobs, state : Organism, gain : Int]

\* The type of every variable; the window left, the limits of the knobs and
\* the range of the evidence are within the code's bounds.
TypeOK ==
  /\ state \in Organism /\ mode \in BOOLEAN /\ knobs \in Knobs
  /\ consecutive \in Nat /\ cooldown \in 0..Cooldown
  /\ checkpoint \in Checkpoints \cup {NoCheckpoint}
  /\ monitor \in Monitors \cup {NoMonitor}
  /\ evidence \in Nat \cup {Unseeded}
  /\ lineage \in [generation : Nat, rollbacks : Nat]
  /\ certificates \in Nat /\ ioc \in Int /\ trial_ioc \in Int
  /\ verdict \in Verdicts /\ lived \in 0..Block /\ block \in Nat

\* Knobs k let at least as much through as knobs l.
AsLoose(k, l) == k.limit >= l.limit /\ (l.cross => k.cross)

\* The knobs on trial are strictly tighter than the backup, and the clock, the
\* window and the gain agree with the episodes since the trial began.
OnTrial ==
  monitor # NoMonitor =>
    /\ AsLoose(monitor.knobs, knobs) /\ monitor.knobs # knobs
    /\ monitor.state.timestamp = certificates - (PostWindow - monitor.left)
    /\ monitor.gain = ioc - trial_ioc
    /\ ~RollbackRequired(monitor.state)

\* The knobs of the healthy point are as loose as any since, a trial is
\* younger than it, and it can be restored without another rollback.
InReserve ==
  checkpoint # NoCheckpoint =>
    /\ AsLoose(checkpoint.knobs, knobs)
    /\ Healthy(checkpoint.state) /\ ~RollbackRequired(checkpoint.state)
    /\ monitor # NoMonitor =>
         /\ AsLoose(checkpoint.knobs, monitor.knobs)
         /\ checkpoint.state.timestamp < monitor.state.timestamp

\* Nothing is of a later time than the last certificate, and evidence was
\* earned by episodes on record.
InThePast ==
  /\ state.timestamp <= certificates /\ evidence <= certificates
  /\ checkpoint # NoCheckpoint => checkpoint.state.timestamp <= certificates

\* What the modification on trial, its backup and the healthy point have to
\* do with each other and with the episodes lived.
TrialInv == OnTrial /\ InReserve /\ InThePast

TrialEnds == monitor # NoMonitor /\ monitor' = NoMonitor /\ block' = block
RollbackRecorded == lineage'.rollbacks = lineage.rollbacks + 1
Undone == AsLoose(knobs', monitor.knobs)

\* A trial whose runner has seen a healthy episode ends with its change kept
\* after the whole window, or with the change out of force and a rollback on
\* record.  (Without one, _execute_rollback has no knobs to put back.)
TrialsEndJudgedAfterHealth ==
  [][TrialEnds /\ checkpoint # NoCheckpoint =>
       \/ monitor.left = 1 /\ knobs' = knobs
       \/ Undone /\ RollbackRecorded]_vars

\* A trial is kept only if the indicator is no lower than when it began, and
\* its organism is brought back only if it is lower: what counts is the whole
\* window, and dips within it are forgiven.
JudgedOnTheWholeWindow ==
  [][TrialEnds => /\ ~RollbackRecorded => ioc' >= trial_ioc
                  /\ state' = monitor.state => ioc' < trial_ioc]_vars

\* The organism never forgets an episode unless the lineage records the
\* rollback, and then it is an organism the controller saw and kept.
ClockGoesBackWithRecord ==
  [][state'.count <= state.count /\ lived' # 0 =>
       /\ RollbackRecorded
       /\ state' \in {x.state : x \in {checkpoint, monitor}
                                     \ {NoCheckpoint, NoMonitor}}]_vars

\* An organism is better off with a certified episode than with the same
\* kind of episode rejected (test_organism_state.py:229).
CertifiedImproves ==
  [][verdict' = "certified" /\ state'.count = state.count + 1 /\ state.margin > 0
       => \A e \in Experiences, r \in Retrieved :
            state'.margin > Fresh(e, r).margin]_vars

Trial == INSTANCE KnobTrial WITH
  trial <- IF monitor = NoMonitor THEN [left |-> 0]
           ELSE [knobs |-> monitor.knobs, left |-> monitor.left],
  safe <- IF checkpoint = NoCheckpoint THEN [safe |-> FALSE]
          ELSE [safe |-> TRUE, knobs |-> checkpoint.knobs],
  life <- block, rest <- cooldown

\* The controller keeps the promise of KnobTrial.
ImplementsTrial == Trial!Spec
=============================================================================
