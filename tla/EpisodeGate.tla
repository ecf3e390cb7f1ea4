---------------------------- MODULE EpisodeGate ----------------------------
(***************************************************************************)
(* The certification of the episodes of one run (promotion_gate.py): what  *)
(* a scenario runner and its gate read and write between two episodes, one *)
(* write of the storage at a time.  The process may stop between any two   *)
(* of them; a runner that starts on the same run finds what is stored and  *)
(* has lost what was in memory.                                            *)
(*                                                                         *)
(* Scores are exact: continuity in hundredths, the indicator ioc_proxy in  *)
(* 1/10000.  What an episode shows, how much it continues the one before   *)
(* and what the organism's court says of it are inputs.                    *)
(***************************************************************************)
EXTENDS Integers, FiniteSets, Sequences, FiniteSetsExt

CONSTANTS
  Episodes,     \* bound: episodes of the run
  Scenarios,    \* worlds of the runners of the run
  Formula,      \* formula of each world, the key of its patterns
  Impressions,  \* what an episode may show, and the court say of it
  NewestFirst,  \* list_events gives the newest events (SQLite), or the oldest
  EventLimit,   \* events the closure is looked for in
  MesoLimit,    \* meso records of the run a rule is looked for in
  Support,      \* records of a pattern a rule needs
  MaxHistory    \* indicators the risk tracker keeps

Episode == 1..Episodes

\* What an episode shows: every check of its closure holds, all but one that
\* is not about the trace, or the trace is incomplete.
Form == {"whole", "open", "broken"}

\* The court lets it pass, objects to its promotion, or to its certificate.
Ruling == {"free", "risky", "blocked"}

Impression == [form : Form, continuity : 0..100, ruling : Ruling]

ASSUME GateAssumption ==
  /\ Episodes \in Nat /\ {EventLimit, MesoLimit, Support, MaxHistory} \subseteq Nat \ {0}
  /\ Impressions \subseteq Impression
  /\ NewestFirst \in BOOLEAN
  /\ DOMAIN Formula = Scenarios

VARIABLES
  sovereign,    \* the mode of the court is "on", not "shadow" or "off"
  pc,           \* the next write of the runner
  scenario,     \* the world of the runner
  draft,        \* the certificate in the gate's hands
  series,       \* indicators in the memory of the risk tracker
  missed,       \* history: certificates on record that it could not read
  begun,        \* episodes closed so far; the last may be in the gate
  shown,        \* per episode: what it showed, and the court's ruling
  events,       \* the events of the run, in order
  certificate,  \* per episode: its certificate, or Nothing
  decision,     \* per episode: the stored promotion decision
  micro, meso,  \* episodes with a memory record of that scale
  macro         \* per episode: support of the rule it made, or 0

runner == <<pc, scenario, draft, series, missed>>
memory == <<micro, meso, macro>>
stored == <<events, certificate, decision, memory>>
vars == <<sovereign, runner, begun, shown, stored>>

Unseeded == <<-1>>
Nothing == [verdict |-> "none"]
Bit(b) == IF b THEN 1 ELSE 0
Smaller(m, n) == IF m < n THEN m ELSE n

Shown == [scenario : Scenarios, impression : Impression]
Event == [type : {"episode.closed", "proposal.evaluated",
                  "promotion.decision", "reasoning.reward"},
          episode : Episode]

Init ==
  /\ sovereign \in BOOLEAN
  /\ pc = "idle" /\ scenario \in Scenarios
  /\ draft = Nothing /\ series = Unseeded /\ missed = 0
  /\ begun = 0
  /\ shown = [e \in {} |-> 0]
  /\ events = <<>>
  /\ certificate = [e \in Episode |-> Nothing]
  /\ decision = [e \in Episode |-> "none"]
  /\ micro = {} /\ meso = {} /\ macro = [e \in Episode |-> 0]

Certified(e) == certificate[e].verdict = "certified"
Stored == {e \in Episode : certificate[e] # Nothing}
Tell(type, e) == events' = Append(events, [type |-> type, episode |-> e])
-----------------------------------------------------------------------------
(* Closure, continuity and the indicator.                                  *)

Recent(n) == SubSeq(events, Len(events) - Smaller(n, Len(events)) + 1, Len(events))
Earliest(n) == SubSeq(events, 1, Smaller(n, Len(events)))

\* Mutant: the oldest events, as PostgreSQL lists them.
ListedFromTheStart == Earliest(EventLimit)

\* list_events(run_id, limit): in which events the closure is looked for.
Listed == IF NewestFirst THEN Recent(EventLimit) ELSE Earliest(EventLimit)

\* _has_episode_closed_event
ClosedEventFound(e) ==
  \E i \in 1..Len(Listed) :
    Listed[i] = [type |-> "episode.closed", episode |-> e]

\* IoCProxy.compute with the uncertainty every episode has, 0.2.
Indicator(continuity, closed, traced) ==
  LET ioc == 45 * continuity + 2500 * Bit(closed) + 2000 * Bit(traced) - 120
  IN  IF ioc < 0 THEN 0 ELSE ioc

\* risk_score of the builder, in units of 1/100000.
RiskScore(continuity, ioc, traced) ==
  550 * (100 - continuity) + 3 * (10000 - ioc) + 10000 * Bit(~traced) + 1000

\* The certificate as CertificateBuilder writes it.
Built(e) ==
  LET traced == ClosedEventFound(e) /\ shown[e].impression.form # "broken"
      closed == ClosedEventFound(e) /\ shown[e].impression.form = "whole"
      continuity == shown[e].impression.continuity
      ioc == Indicator(continuity, closed, traced)
      certified == closed /\ traced
  IN [verdict |-> IF certified THEN "certified" ELSE "rejected",
      candidate |-> /\ certified
                    /\ continuity >= 60 /\ ioc >= 7200
                    /\ RiskScore(continuity, ioc, traced) <= 45000,
      ioc |-> ioc]

\* The certificate as the court leaves it.
Ruled(c, ruling) ==
  [c EXCEPT !.verdict = IF ruling = "blocked" THEN "rejected" ELSE @,
            !.candidate = @ /\ ruling = "free"]
-----------------------------------------------------------------------------
(* One episode, write by write.                                            *)

At(label) == begun > 0 /\ pc = label
Goto(label) == pc' = label /\ UNCHANGED <<sovereign, scenario, begun, shown>>

\* ContinuityGuard.score: the continuity of an episode that follows none on
\* record is whole, whatever it is.
Continuing(i) == IF Stored = {} THEN [i EXCEPT !.continuity = 100] ELSE i

\* run_episode up to the event that closes the episode.
Close ==
  /\ pc = "idle" /\ begun < Episodes
  /\ begun' = begun + 1
  /\ \E i \in Impressions :
       shown' = [e \in 1..begun + 1 |->
         IF e = begun + 1
         THEN [scenario |-> scenario, impression |-> Continuing(i)]
         ELSE shown[e]]
  /\ Tell("episode.closed", begun + 1)
  /\ pc' = "assess"
  /\ UNCHANGED <<sovereign, scenario, draft, series, missed, certificate,
                 decision, memory>>

\* Mutant: the series is never trimmed.
KeptWhole(s) == s

Kept(s) == SubSeq(s, Len(s) - Smaller(MaxHistory, Len(s)) + 1, Len(s))

\* The episode of the i-th certificate.
Nth(i) == CHOOSE e \in Stored : Cardinality({f \in Stored : f <= e}) = i

\* The indicators of the stored certificates, oldest first.
Ledger == [i \in 1..Cardinality(Stored) |-> certificate[Nth(i)].ioc]

\* Mutant: in the order in which storage lists them, newest first.
SeedAsListed(past) == LET s == Kept(past)
                      IN  [i \in 1..Len(s) |-> s[Len(s) + 1 - i]]

\* EpisodeRiskTracker._seed, from the certificates that could be read.
Seed(past) == Kept(past)

\* A tracker that is new to the run asks storage for the certificates; a
\* listing that fails counts as one that gives none.
Reads ==
  IF series # Unseeded THEN missed' = missed
  ELSE missed' \in {0, Cardinality(Stored)}

Series ==
  IF series # Unseeded THEN series
  ELSE Seed(SubSeq(Ledger, missed' + 1, Len(Ledger)))

\* evaluate_episode_closure to court_runtime.ingest_episode: the tracker
\* counts the episode before it has a certificate.
Assess ==
  /\ At("assess")
  /\ draft' = Built(begun)
  /\ Reads
  /\ series' = Kept(Append(Series, Built(begun).ioc))
  /\ Goto("propose")
  /\ UNCHANGED stored

Propose ==
  /\ At("propose")
  /\ Tell("proposal.evaluated", begun)
  /\ Goto("issue")
  /\ UNCHANGED <<draft, series, missed, certificate, decision, memory>>

Issue ==
  /\ At("issue")
  /\ certificate' = [certificate EXCEPT ![begun] = draft]
  /\ Goto("overrule")
  /\ UNCHANGED <<draft, series, missed, events, decision, memory>>

\* Mutant: the gate goes on with the certificate it built.
OverruleInStorage ==
  /\ At("overrule")
  /\ certificate' = [certificate EXCEPT ![begun] =
       IF sovereign THEN Ruled(draft, shown[begun].impression.ruling) ELSE draft]
  /\ Goto("decide")
  /\ UNCHANGED <<draft, series, missed, events, decision, memory>>

\* With the court in power its ruling replaces the certificate.
Overrule ==
  /\ At("overrule")
  /\ draft' = IF sovereign THEN Ruled(draft, shown[begun].impression.ruling) ELSE draft
  /\ certificate' = [certificate EXCEPT ![begun] = draft']
  /\ Goto("decide")
  /\ UNCHANGED <<series, missed, events, decision, memory>>

\* Mutant: whatever the verdict, the episode is remembered.
DecideAndRemember ==
  /\ At("decide")
  /\ decision' = [decision EXCEPT ![begun] =
       IF draft.candidate THEN "promote" ELSE "reject"]
  /\ Goto("micro")
  /\ UNCHANGED <<draft, series, missed, events, certificate, memory>>

Decide ==
  /\ At("decide")
  /\ decision' = [decision EXCEPT ![begun] =
       IF draft.candidate THEN "promote" ELSE "reject"]
  /\ Goto(IF draft.verdict = "certified" THEN "micro" ELSE "report")
  /\ UNCHANGED <<draft, series, missed, events, certificate, memory>>

WriteMicro ==
  /\ At("micro")
  /\ micro' = micro \cup {begun}
  /\ Goto("meso")
  /\ UNCHANGED <<draft, series, missed, events, certificate, decision, meso, macro>>

WriteMeso ==
  /\ At("meso")
  /\ meso' = meso \cup {begun}
  /\ Goto("macro")
  /\ UNCHANGED <<draft, series, missed, events, certificate, decision, micro, macro>>

\* The meso records of the run up to episode e, as many as are listed.
Listable(e) ==
  {m \in meso : m <= e /\ Cardinality({n \in meso : m < n /\ n <= e}) < MesoLimit}

\* Those with the pattern of the episode.
Pattern(e) ==
  {m \in Listable(e) : Formula[shown[m].scenario] = Formula[shown[e].scenario]}

\* The indicators of the records: mean at least 0.72, deviation at most 0.08.
Steady(records) ==
  LET n == Cardinality(records)
      sum == MapThenSumSet(LAMBDA m : certificate[m].ioc, records)
      squares == MapThenSumSet(LAMBDA m : certificate[m].ioc ^ 2, records)
  IN  sum >= 7200 * n /\ n * squares - sum ^ 2 <= (800 * n) ^ 2

\* MacroPromotion.should_promote (a candidate has no continuity alert).
ShouldPromote(records) == Cardinality(records) >= Support /\ Steady(records)

WriteMacro ==
  /\ At("macro")
  /\ macro' = IF draft.candidate /\ ShouldPromote(Pattern(begun))
              THEN [macro EXCEPT ![begun] = Cardinality(Pattern(begun))]
              ELSE macro
  /\ Goto("report")
  /\ UNCHANGED <<draft, series, missed, events, certificate, decision, micro, meso>>

Report ==
  /\ At("report")
  /\ Tell("promotion.decision", begun)
  /\ Goto("reward")
  /\ UNCHANGED <<draft, series, missed, certificate, decision, memory>>

\* The rest of run_episode.
Reward ==
  /\ At("reward")
  /\ Tell("reasoning.reward", begun)
  /\ pc' = "idle" /\ draft' = Nothing
  /\ UNCHANGED <<sovereign, scenario, series, missed, begun, shown, certificate,
                 decision, memory>>

\* The process or its runner ends, anywhere, and another takes up the run.
Replace ==
  /\ pc' = "idle" /\ draft' = Nothing /\ series' = Unseeded /\ missed' = 0
  /\ scenario' \in Scenarios
  /\ UNCHANGED <<sovereign, begun, shown, stored>>

Next ==
  \/ Close \/ Assess \/ Propose \/ Issue \/ Overrule \/ Decide
  \/ WriteMicro \/ WriteMeso \/ WriteMacro \/ Report \/ Reward
  \/ Replace

Spec == Init /\ [][Next]_vars
-----------------------------------------------------------------------------
Certificate == [verdict : {"certified", "rejected"}, candidate : BOOLEAN,
                ioc : Nat]
Label == {"idle", "assess", "propose", "issue", "overrule", "decide", "micro",
          "meso", "macro", "report", "reward"}

TypeOK ==
  /\ sovereign \in BOOLEAN
  /\ pc \in Label /\ scenario \in Scenarios
  /\ draft \in Certificate \cup {Nothing}
  /\ series \in Seq(0..10000) \cup {Unseeded} /\ Len(series) <= MaxHistory
  /\ missed \in 0..Episodes
  /\ begun \in 0..Episodes
  /\ shown \in [1..begun -> Shown]
  /\ events \in Seq(Event)
  /\ certificate \in [Episode -> Certificate \cup {Nothing}]
  /\ decision \in [Episode -> {"none", "promote", "reject"}]
  /\ micro \in SUBSET Episode /\ meso \in SUBSET Episode
  /\ macro \in [Episode -> 0..Episodes]

\* Episodes whose court has the last word and spoke against them.
Blocked == {e \in 1..begun : sovereign /\ shown[e].impression.ruling = "blocked"}
Told(e) == \E i \in 1..Len(events) :
  events[i] = [type |-> "promotion.decision", episode |-> e]

\* Where the process stops, a blocked episode may be left certified; but then
\* it has no decision, no memory and no event (promotion_gate.py:232).
RulingStands ==
  \A e \in Blocked : Certified(e) =>
    /\ decision[e] = "none" /\ e \notin micro \cup meso /\ macro[e] = 0
    /\ ~Told(e)

\* A decision says what the certificate on record says.
DecisionOnRecord ==
  \A e \in Episode : decision[e] # "none" =>
    certificate[e] # Nothing /\ (decision[e] = "promote" <=> certificate[e].candidate)

\* Memory goes no further than decision and certificate: a rule only where
\* the episode was promoted and remembered, with the support it claims.
MemoryOnRecord ==
  /\ meso \subseteq micro
  /\ \A e \in micro : Certified(e) /\ decision[e] # "none"
  /\ \A e \in Episode : macro[e] # 0 =>
       /\ e \in meso /\ decision[e] = "promote"
       /\ Support <= macro[e]
       /\ macro[e] = Cardinality(Pattern(e))

\* Once the event tells of the decision, all that follows from it is stored.
ToldIsStored ==
  \A e \in Episode : Told(e) =>
    decision[e] # "none" /\ (Certified(e) => e \in meso)

GateInv == RulingStands /\ DecisionOnRecord /\ MemoryOnRecord /\ ToldIsStored

\* The certificates on record, and the one of the episode in the gate.
Record == IF pc \in {"propose", "issue"} THEN Append(Ledger, draft.ioc) ELSE Ledger

\* The tail of evidence survives new runners: in memory are the newest
\* indicators on record, each once and in order; where the listing failed,
\* those from the first episode of this runner on.
SeriesFollowsLedger ==
  series # Unseeded =>
    series = Kept(SubSeq(Record, missed + 1, Len(Record)))

\* An episode with every check of its closure that no court blocked is never
\* rejected, however long the run has been.
ValidIsCertified ==
  \A e \in 1..begun \ Blocked :
    certificate[e] # Nothing /\ shown[e].impression.form = "whole" => Certified(e)

Life == INSTANCE CertificateLife WITH
  verdict <- [e \in Episode |-> certificate[e].verdict],
  remembered <- meso, rules <- {e \in Episode : macro[e] # 0}

\* The gate keeps the promise of CertificateLife.
ImplementsLife == Life!Spec
=============================================================================
