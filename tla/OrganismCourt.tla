---------------------------- MODULE OrganismCourt ----------------------------
(***************************************************************************)
(* The constitutional court of one run (court_runtime.py): every episode   *)
(* is put on the trajectory, judged by its window, and moves the risk of   *)
(* each scope.  The trajectory and the risks live in the runner; the rows  *)
(* that outlive it go to one store or, in the hybrid modes, to two, of     *)
(* which either may raise.  A call that raises ends the runner, as a stop  *)
(* of the process does; the next one takes the risks from storage and      *)
(* begins a trajectory of its own under the same id.                       *)
(*                                                                         *)
(* A runner has one scenario, hence no change of regime and no scope       *)
(* "edge".  created_at is the episode: the rows of a scope are written one *)
(* per episode.                                                            *)
(***************************************************************************)
EXTENDS ConstitutionalRisk

CONSTANTS
  Episodes,     \* bound: episodes of the run
  ScopeCount,   \* scopes in the order of scope_defs; the organism is the first
  Impressions,  \* what episodes may show
  Mishaps       \* bound: calls of a store that raise, and stops of the process

ASSUME CourtAssumption ==
  /\ {Episodes, Mishaps} \subseteq Nat /\ ScopeCount \in Nat \ {0}
  /\ Impressions \subseteq Impression

Episode == 1..Episodes
Scopes == 1..ScopeCount
Store == {"primary", "fallback"}

\* A row's id is the scope, the end of its window and its step.
RowId == [end : 0..Episodes, step : Int]
Row == [id : RowId, prev : RowId, score : Int, episode : 0..Episodes]

\* For want of a row: step 0 follows, from the prior.
NoRow == [id |-> [end |-> 0, step |-> -1], prev |-> [end |-> 0, step |-> -1],
          score |-> Prior, episode |-> 0]
Unknown == -1

VARIABLES
  mode,         \* of the storage: "single", "lenient" or "strict"
  firm,         \* the primary store never raises
  pc, scope,    \* the next call of the court, and the scope it is about
  points,       \* points of the trajectory; the window ends at the last
  known,        \* per scope: the risk in memory
  impression,   \* what the episode in hand shows
  last,         \* the row the one in hand follows
  begun,        \* episodes so far
  mishaps,
  snapshots,          \* per store: episodes with a snapshot
  windows, flows,     \* per store and end of window: the episode it is of
  rows,               \* per store and scope: risk states
  atlas,              \* per store: episodes and scopes with failure events
  ruled,              \* episodes that were judged to the end
  ruling              \* the last ruling

rigid == <<mode, firm>>
memory == <<points, known, impression, last>>
tables == <<snapshots, windows, flows, rows, atlas>>
vars == <<rigid, pc, scope, memory, begun, mishaps, tables, ruled, ruling>>

NoRuling == [scope |-> "none", risks |-> [s \in Scopes |-> 0],
             steps |-> [s \in Scopes |-> -1]]

Init ==
  /\ mode \in {"single", "lenient", "strict"} /\ firm \in BOOLEAN
  /\ pc = "idle" /\ scope = 1
  /\ points = 0 /\ known = [s \in Scopes |-> Unknown]
  /\ impression = [erosion |-> 0] /\ last = NoRow
  /\ begun = 0 /\ mishaps = 0
  /\ snapshots = [t \in Store |-> {}]
  /\ windows = [t \in Store |-> [e \in Episode |-> 0]]
  /\ flows = [t \in Store |-> [e \in Episode |-> 0]]
  /\ rows = [t \in Store |-> [s \in Scopes |-> {}]]
  /\ atlas = [t \in Store |-> {}]
  /\ ruled = {} /\ ruling = NoRuling
-----------------------------------------------------------------------------
(* Storage: a write goes to every store, a read to the first that answers. *)

Stores == IF mode = "single" THEN {"primary"} ELSE Store

\* The stores that raise during a call.
Raising == {E \in SUBSET Stores : /\ firm => "primary" \notin E
                                 /\ mishaps + Cardinality(E) <= Mishaps}

\* What reaches the caller of a write.
Raises(E) == IF mode = "strict" THEN E # {} ELSE E = Stores

\* The process or its runner is gone, and with it what was in memory.
Gone ==
  /\ pc' = "idle" /\ scope' = 1
  /\ points' = 0 /\ known' = [s \in Scopes |-> Unknown]
  /\ impression' = [erosion |-> 0] /\ last' = NoRow

Goto(label, s) == pc' = label /\ scope' = s /\ UNCHANGED memory

\* A write that gets to the stores in hit.  A store that raises may have
\* committed or not; the process may stop between the first store and the second.
Write(hit, Continue) ==
  \/ \E E \in Raising :
       /\ Stores \ E \subseteq hit /\ hit \subseteq Stores
       /\ mishaps' = mishaps + Cardinality(E)
       /\ IF Raises(E) THEN Gone ELSE Continue
  \/ /\ mode # "single" /\ hit = {"primary"} /\ mishaps < Mishaps
     /\ mishaps' = mishaps + 1
     /\ Gone

\* "ORDER BY step_index DESC, created_at DESC LIMIT 1"
Later(r, q) ==
  \/ q.id.step < r.id.step
  \/ q.id.step = r.id.step /\ q.episode <= r.episode

Newest(t, s) ==
  IF rows[t][s] = {} THEN NoRow
  ELSE CHOOSE r \in rows[t][s] : \A q \in rows[t][s] : Later(r, q)

\* Mutant: the fallback store is asked first.
AnsweringFallbackFirst(s, E) ==
  IF mode # "single" /\ "fallback" \notin E /\ rows["fallback"][s] # {} THEN "fallback"
  ELSE IF "primary" \notin E THEN "primary"
  ELSE "none"

\* Which store answers a read of scope s while those in E raise.
Answering(s, E) ==
  IF "primary" \notin E /\ (mode = "single" \/ rows["primary"][s] # {}) THEN "primary"
  ELSE IF mode # "single" /\ "fallback" \notin E THEN "fallback"
  ELSE "none"

\* All tables upsert by key.
Put(table, hit, key, value) ==
  [t \in Store |-> IF t \in hit THEN [table[t] EXCEPT ![key] = value] ELSE table[t]]

Add(table, hit, element) ==
  [t \in Store |-> IF t \in hit THEN table[t] \cup {element} ELSE table[t]]

PutRow(hit, s, row) ==
  [t \in Store |->
     IF t \in hit
     THEN [rows[t] EXCEPT ![s] = {r \in @ : r.id # row.id} \cup {row}]
     ELSE rows[t]]
-----------------------------------------------------------------------------
(* One episode, call by call.                                              *)

At(label) == pc = label /\ UNCHANGED <<rigid, begun>>
SameRuling == UNCHANGED <<ruled, ruling>>

\* On the first point of a trajectory there is nothing to compare with.
Still(x) ==
  /\ x.drift_identity = 0 /\ x.drift_policy = 0
  /\ x.delta_viability = 0 /\ x.delta_purity = 0

\* The episode becomes a point of the trajectory.
Advance ==
  /\ pc = "idle" /\ begun < Episodes
  /\ begun' = begun + 1
  /\ points' = points + 1
  /\ \E x \in Impressions : (points = 0 => Still(x)) /\ impression' = x
  /\ pc' = "snapshot"
  /\ UNCHANGED <<rigid, scope, known, last, mishaps, tables>>
  /\ SameRuling

WriteSnapshot ==
  /\ At("snapshot")
  /\ \E hit \in SUBSET Store :
       Write(hit, Goto("window", 1)) /\ snapshots' = Add(snapshots, hit, begun)
  /\ UNCHANGED <<windows, flows, rows, atlas>> /\ SameRuling

WriteWindow ==
  /\ At("window")
  /\ \E hit \in SUBSET Store :
       Write(hit, Goto("flow", 1)) /\ windows' = Put(windows, hit, points, begun)
  /\ UNCHANGED <<snapshots, flows, rows, atlas>> /\ SameRuling

\* Mutant: the report takes its number from the run, not from the window.
WriteFlowOfRun ==
  /\ At("flow")
  /\ \E hit \in SUBSET Store :
       Write(hit, Goto("assess", 1)) /\ flows' = Put(flows, hit, begun, begun)
  /\ UNCHANGED <<snapshots, windows, rows, atlas>> /\ SameRuling

WriteFlow ==
  /\ At("flow")
  /\ \E hit \in SUBSET Store :
       Write(hit, Goto("assess", 1)) /\ flows' = Put(flows, hit, points, begun)
  /\ UNCHANGED <<snapshots, windows, rows, atlas>> /\ SameRuling

\* A read of the rows of the scope in hand, while the stores in E raise.
Ask(E) ==
  /\ E \in Raising
  /\ mishaps' = mishaps + Cardinality(E)
  /\ UNCHANGED tables

Answer(E) == Newest(Answering(scope, E), scope)
Unanswered(E) == Ask(E) /\ Answering(scope, E) = "none" /\ Gone
Answered(E) == Ask(E) /\ Answering(scope, E) # "none"

Judge(score) ==
  /\ known' = [known EXCEPT ![scope] = Gamma(score, impression)]
  /\ pc' = "link"
  /\ UNCHANGED <<scope, points, impression, last>>

\* Mutant: a new runner begins with the prior.
AssessUnseeded ==
  /\ At("assess")
  /\ Judge(IF known[scope] = Unknown THEN Prior ELSE known[scope])
  /\ UNCHANGED <<mishaps, tables>> /\ SameRuling

\* The update of a risk in memory, after _seed_risk_from_storage if the runner
\* knows nothing of the scope.
Assess ==
  /\ At("assess")
  /\ \/ /\ known[scope] # Unknown
        /\ Judge(known[scope])
        /\ UNCHANGED <<mishaps, tables>>
     \/ /\ known[scope] = Unknown
        /\ \E E \in SUBSET Store :
             \/ Unanswered(E)
             \/ Answered(E) /\ Judge(Answer(E).score)
  /\ SameRuling

\* The row that the next one follows.
Link ==
  /\ At("link")
  /\ \E E \in SUBSET Store :
       \/ Unanswered(E)
       \/ /\ Answered(E)
          /\ last' = Answer(E) /\ pc' = "record"
          /\ UNCHANGED <<scope, points, known, impression>>
  /\ SameRuling

\* Mutant: the steps are counted by the points of the trajectory.
NextRowByPoint ==
  [id |-> [end |-> points, step |-> points - 1], prev |-> last.id,
   score |-> known[scope], episode |-> begun]

NextRow ==
  [id |-> [end |-> points, step |-> last.id.step + 1], prev |-> last.id,
   score |-> known[scope], episode |-> begun]

NextScope == IF scope = ScopeCount THEN Goto("rule", scope)
             ELSE Goto("assess", scope + 1)
AfterRow == IF Failures(impression) = {} THEN NextScope ELSE Goto("atlas", scope)

WriteRow ==
  /\ At("record")
  /\ \E hit \in SUBSET Store :
       Write(hit, AfterRow) /\ rows' = PutRow(hit, scope, NextRow)
  /\ UNCHANGED <<snapshots, windows, flows, atlas>> /\ SameRuling

\* The failure events of the row: one call for all of them.
WriteAtlas ==
  /\ At("atlas")
  /\ \E hit \in SUBSET Store :
       Write(hit, NextScope) /\ atlas' = Add(atlas, hit, <<begun, scope>>)
  /\ UNCHANGED <<snapshots, windows, flows, rows>> /\ SameRuling

Worst == CHOOSE r \in {known[s] : s \in Scopes} : \A s \in Scopes : known[s] <= r

\* The ruling the gate gets.  Its steps are those of the rows just written.
Rule ==
  /\ At("rule")
  /\ ruled' = ruled \cup {begun}
  /\ ruling' = [scope |-> CanonicalScope(impression, Worst, known[1]),
                risks |-> known,
                steps |-> [s \in Scopes |-> Newest("primary", s).id.step]]
  /\ pc' = "idle" /\ scope' = 1
  /\ UNCHANGED <<memory, mishaps, tables>>

\* The process stops between two calls; or its work is done, and another
\* runner takes up the run.
Stop ==
  /\ mishaps < Mishaps /\ points > 0
  /\ mishaps' = mishaps + 1
  /\ Gone
  /\ UNCHANGED <<rigid, begun, tables>> /\ SameRuling

Next ==
  \/ Advance \/ WriteSnapshot \/ WriteWindow \/ WriteFlow
  \/ Assess \/ Link \/ WriteRow \/ WriteAtlas
  \/ Rule \/ Stop

Spec == Init /\ [][Next]_vars
-----------------------------------------------------------------------------
(* What should hold.                                                       *)

\* In an episode the trajectory has a point, and something was seen.
MemoryOK ==
  /\ pc \in {"idle", "snapshot", "window", "flow", "assess", "link", "record",
             "atlas", "rule"}
  /\ scope \in Scopes /\ points \in 0..begun
  /\ pc # "idle" => points # 0 /\ impression \in Impressions
  /\ known \in [Scopes -> Int] /\ last \in Row

TablesOK ==
  /\ snapshots \in [Store -> SUBSET Episode]
  /\ windows \in [Store -> [Episode -> 0..Episodes]]
  /\ flows \in [Store -> [Episode -> 0..Episodes]]
  /\ rows \in [Store -> [Scopes -> SUBSET Row]]
  /\ atlas \in [Store -> SUBSET (Episode \X Scopes)]

TypeOK ==
  /\ mode \in {"single", "lenient", "strict"} /\ firm \in BOOLEAN
  /\ begun \in 0..Episodes /\ mishaps \in 0..Mishaps
  /\ ruled \subseteq Episode
  /\ MemoryOK /\ TablesOK

\* Of the rows of a scope one is the newest, and none is of an episode to come.
RowsAreOrdered ==
  \A t \in Store, s \in Scopes :
    /\ \A r \in rows[t][s] : r.episode <= begun
    /\ rows[t][s] # {} => \E r \in rows[t][s] : \A q \in rows[t][s] : Later(r, q)

\* Every row that follows another has it on record, in one of the stores, one
\* step before: whatever failed and wherever the process stopped.
ChainHasNoGap ==
  \A t \in Store, s \in Scopes : \A r \in rows[t][s] :
    r.id.step > 0 =>
      /\ r.prev.step = r.id.step - 1
      /\ \E u \in Store : \E q \in rows[u][s] : q.id = r.prev

\* What the row in hand follows is still there when it is written.
LastOnRecord ==
  pc = "record" =>
    \/ last = NoRow
    \/ \E t \in Store : \E q \in rows[t][scope] : q.id = last.id

\* The store that answers never raises, or is all there is.
Sound == mode = "single" \/ firm

\* Then the rows are the memory of the risk process, unbroken by new runners.
Process == INSTANCE RiskProcess WITH
  risk <- [s \in Scopes |-> IF Sound THEN Newest("primary", s).score ELSE Prior],
  updates <- [s \in Scopes |->
                IF Sound THEN Newest("primary", s).id.step + 1 ELSE 0]
ImplementsProcess == Process!Spec

\* What the rows of a sound storage and the runner's memory have in common: the
\* primary store has the newest row, and what the runner knows is its score, but
\* for the scope in hand between its update and its row.
InHand(s) == s = scope /\ pc \in {"link", "record"}

RowsAreMemory ==
  Sound =>
    /\ \A s \in Scopes : rows["primary"][s] = {} => rows["fallback"][s] = {}
    /\ \A s \in Scopes :
         IF InHand(s) THEN \E x \in Impressions :
                             known[s] = Gamma(Newest("primary", s).score, x)
         ELSE known[s] \in {Unknown, Newest("primary", s).score}
    /\ pc = "record" => last = Newest("primary", scope)

\* And a block for risk is not lifted by the next row, whoever writes it: the
\* organism is in quarantine at least ("decay: 0.92" of 0.85 is above 0.65).
BlockOutlivesRunner ==
  [][Sound /\ ruling' # ruling =>
       \A s \in Scopes :
         ruling.risks[s] >= 8500 /\ ruling'.steps[s] = ruling.steps[s] + 1
           => ruling'.scope \in {"blocked", "quarantine_only"}]_vars

\* What a ruling stands on is in every store, or in the lenient mode in a
\* primary store that never raised: the snapshot, a row of each scope, and for
\* the window, while no later runner has replaced it, a report of the same
\* episode.
EvidenceIsKept ==
  \A t \in Stores, e \in ruled :
    mode # "lenient" \/ (firm /\ t = "primary") =>
      /\ e \in snapshots[t]
      /\ \A s \in Scopes : \E r \in rows[t][s] : r.episode = e
      /\ \A n \in Episode : windows[t][n] = e => flows[t][n] = e

(***************************************************************************)
(* Inductive, for EvidenceIsKept: what the episode in hand has written so  *)
(* far is in the stores that keep evidence, and nothing it still writes    *)
(* takes the place of what an earlier ruling stands on.                    *)
(***************************************************************************)
Keeping == {t \in Stores : mode # "lenient" \/ (firm /\ t = "primary")}

RulingsArePast == ruled \subseteq 1..begun /\ (pc # "idle" => begun \notin ruled)

SnapshotsAreKept ==
  \A t \in Keeping :
    ruled \subseteq snapshots[t] /\ (pc \notin {"idle", "snapshot"} => begun \in snapshots[t])

FlowsFollowWindows ==
  /\ \A t \in Store, n \in Episode :
       /\ windows[t][n] <= begun
       /\ pc \in {"snapshot", "window"} => windows[t][n] # begun
       /\ pc # "idle" /\ windows[t][n] = begun => n = points
  /\ \A t \in Keeping :
       /\ pc = "flow" => windows[t][points] = begun
       /\ pc \in {"assess", "link", "record", "atlas", "rule"} => flows[t][points] = begun
       /\ \A n \in Episode : windows[t][n] \in ruled => flows[t][n] = windows[t][n]

\* A row that every one of them has.
Shared(id, s, e) ==
  \A t \in Keeping : \E r \in rows[t][s] : r.id = id /\ r.episode = e
HasRow(s, e) == \E r \in rows["primary"][s] : Shared(r.id, s, e)

Recorded(s) == \/ pc \in {"assess", "link", "record"} /\ s < scope
               \/ pc \in {"atlas", "rule"} /\ s <= scope

RowsAreShared ==
  /\ Keeping # {} =>
       \A s \in Scopes : /\ \A e \in ruled : HasRow(s, e)
                         /\ Recorded(s) => HasRow(s, begun)
  /\ pc = "rule" => scope = ScopeCount

\* The row in hand comes after all that they share.
RowIsNew ==
  pc = "record" /\ Keeping # {} =>
    \A r \in rows["primary"][scope], e \in 0..begun :
      Shared(r.id, scope, e) => r.id.step <= last.id.step

EvidenceInv ==
  RulingsArePast /\ SnapshotsAreKept /\ FlowsFollowWindows /\ RowsAreShared /\ RowIsNew

\* Inductive, for BlockOutlivesRunner: what the rows have become since the last
\* ruling.  The row after a block comes from at least 8500, decayed.
RowsSinceRuling ==
  /\ {ruling.risks, ruling.steps} \subseteq [Scopes -> Int]
  /\ Sound => \A s \in Scopes :
       LET newest == Newest("primary", s)
       IN  /\ newest.score <= 10000
           /\ Recorded(s) => known[s] = newest.score
           /\ ruling.risks[s] >= 8500 =>
                /\ newest.id.step >= ruling.steps[s]
                /\ newest.id.step = ruling.steps[s] => newest.score >= 8500
                /\ newest.id.step = ruling.steps[s] + 1 => newest.score >= 7820
=============================================================================
