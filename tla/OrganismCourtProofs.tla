------------------------- MODULE OrganismCourtProofs -------------------------
(***************************************************************************)
(* Theorems about OrganismCourt: the types, the chain of risk rows under   *)
(* every failure and stop, and the evidence of every ruling; with a sound  *)
(* storage, that its rows are the risk process, and that a risk that       *)
(* blocked outlives the runner.                                            *)
(***************************************************************************)
EXTENDS OrganismCourt, FiniteSetTheorems, WellFoundedInduction, TLAPS

-----------------------------------------------------------------------------
(* The numbers.                                                            *)

\* Seven things are finitely many.
LEMMA FinitelyMany ==
  ASSUME NEW a, NEW b, NEW c, NEW d, NEW e, NEW f, NEW g
  PROVE  IsFiniteSet({a, b, c, d, e, f, g})
<1>1. IsFiniteSet({a})
  BY FS_Singleton
<1>2. IsFiniteSet({a} \cup {b})
  BY <1>1, FS_AddElement
<1>3. IsFiniteSet(({a} \cup {b}) \cup {c})
  BY <1>2, FS_AddElement
<1>4. IsFiniteSet({d})
  BY FS_Singleton
<1>5. IsFiniteSet({d} \cup {e})
  BY <1>4, FS_AddElement
<1>6. IsFiniteSet(({d} \cup {e}) \cup {f})
  BY <1>5, FS_AddElement
<1>7. IsFiniteSet((({d} \cup {e}) \cup {f}) \cup {g})
  BY <1>6, FS_AddElement
<1>8. {a, b, c, d, e, f, g} =
        (({a} \cup {b}) \cup {c}) \cup ((({d} \cup {e}) \cup {f}) \cup {g})
  OBVIOUS
<1>9. IsFiniteSet((({a} \cup {b}) \cup {c}) \cup ((({d} \cup {e}) \cup {f}) \cup {g}))
  BY <1>3, <1>7, FS_Union
<1> QED
  BY <1>8, <1>9

\* The atlas of an episode has finitely many failures.
LEMMA FailuresFinite == ASSUME NEW x PROVE IsFiniteSet(Failures(x))
<1> DEFINE
      f1 == [class |-> "constitutional_erosion", on |-> x.erosion > 5500,
             weight |-> Grave(x.erosion > 7500)]
      f2 == [class |-> "policy_bifurcation", on |-> x.drift_policy > 5000,
             weight |-> Grave(x.drift_policy >= 7500)]
      f3 == [class |-> "false_recovery",
             on |-> x.delta_viability > 0 /\ 10000 - x.delta_purity < 5000,
             weight |-> High]
      f4 == [class |-> "latent_contamination", on |-> 10000 - x.delta_purity < 4500,
             weight |-> Grave(10000 - x.delta_purity < 3000)]
      f5 == [class |-> "adversarial_transfer_illusion",
             on |-> x.renorm_residual > 5500,
             weight |-> Grave(x.renorm_residual >= 7500)]
      f6 == [class |-> "identity_fracture", on |-> x.drift_identity > 4500,
             weight |-> Grave(x.drift_identity > 7000)]
      f7 == [class |-> "inheritance_corruption", on |-> x.delta_modification > 6000,
             weight |-> Grave(x.delta_modification > 8000)]
      All == {f1, f2, f3, f4, f5, f6, f7}
<1>1. Failures(x) \subseteq All
  BY DEF Failures
<1> HIDE DEF f1, f2, f3, f4, f5, f6, f7
<1>2. IsFiniteSet(All)
  BY FinitelyMany
<1> QED
  BY <1>1, <1>2, FS_Subset

\* The gravity of the invariants that failed is a number.
LEMMA GravityType ==
  ASSUME NEW F, IsFiniteSet(F)
  PROVE  Gravity(F) \in Int
<1> DEFINE critical == {f \in F : f.weight = Critical}
<1>1. Cardinality(F) \in Nat /\ Cardinality(critical) \in Nat
  BY FS_Subset, FS_CardinalityType
<1> QED
  BY <1>1 DEF Gravity, High, Critical

\* A score is a number.
LEMMA UnitIsInt == ASSUME NEW n \in Unit PROVE n \in Int
BY DEF Unit

\* The positive part of a signed score is a number.
LEMMA PositiveType == ASSUME NEW n \in Signed PROVE Positive(-n) \in Int
BY DEF Positive, Signed

\* What an impression adds to the risk is a number.
LEMMA RiseType == ASSUME NEW x \in Impression PROVE Rise(x) \in Int
<1>1. /\ x.drift_identity \in Unit /\ x.drift_policy \in Unit
      /\ x.delta_purity \in Unit
  BY DEF Impression
<1>2. /\ x.delta_modification \in Unit /\ x.erosion \in Unit
      /\ x.renorm_residual \in Unit
  BY DEF Impression
<1>3. x.delta_viability \in Signed
  BY DEF Impression
<1>4. Positive(-x.delta_viability) \in Int
  BY <1>3, PositiveType
<1>5. Gravity(Failures(x)) \in Int
  BY FailuresFinite, GravityType
<1>6. /\ x.drift_identity \in Int /\ x.drift_policy \in Int
      /\ x.delta_purity \in Int /\ x.delta_modification \in Int
      /\ x.erosion \in Int /\ x.renorm_residual \in Int
  BY <1>1, <1>2, UnitIsInt
<1> QED
  BY <1>4, <1>5, <1>6 DEF Rise

\* The next risk is a number.
LEMMA GammaType ==
  ASSUME NEW x \in Impression, NEW risk \in Int
  PROVE  Gamma(risk, x) \in Int
<1>1. Rise(x) \in Int
  BY RiseType
<1> QED
  BY <1>1 DEF Gamma, AtMost
-----------------------------------------------------------------------------
(* The types.                                                              *)

USE CourtAssumption DEF Episode, Scopes, Store

\* What stands for no row has the type of a row.
LEMMA NoRowType == NoRow \in Row
BY DEF NoRow, Row, RowId, Prior

\* The types hold at the start.
LEMMA TypeInit == Init => TypeOK
<1> SUFFICES ASSUME Init PROVE TypeOK
  OBVIOUS
<1>1. MemoryOK
  BY NoRowType DEF Init, MemoryOK, Unknown
<1>2. TablesOK
  BY DEF Init, TablesOK
<1> QED
  BY <1>1, <1>2 DEF Init, TypeOK

\* Mishaps are counted up to their bound.
LEMMA RaisingType ==
  ASSUME mishaps \in 0..Mishaps, NEW E \in Raising
  PROVE  mishaps + Cardinality(E) \in 0..Mishaps
<1>1. IsFiniteSet({"primary"}) /\ IsFiniteSet({"primary"} \cup {"fallback"})
  BY FS_Singleton, FS_AddElement
<1>2. Store = {"primary"} \cup {"fallback"}
  OBVIOUS
<1>3. IsFiniteSet(E)
  BY <1>1, <1>2, FS_Subset DEF Raising, Stores
<1>4. Cardinality(E) \in Nat
  BY <1>3, FS_CardinalityType
<1> QED
  BY <1>4 DEF Raising

\* A runner that is gone leaves nothing in memory.
LEMMA GoneType == ASSUME TypeOK, Gone, begun' \in Nat PROVE MemoryOK'
BY NoRowType DEF TypeOK, MemoryOK, Gone, Unknown

\* Going on in an episode leaves the memory of the runner as it should be.
LEMMA GotoType ==
  ASSUME TypeOK, begun' = begun, pc # "idle", NEW s \in Scopes,
         NEW l \in {"snapshot", "window", "flow", "assess", "link", "record",
                    "atlas", "rule"},
         Goto(l, s)
  PROVE  MemoryOK'
BY DEF TypeOK, MemoryOK, Goto, memory

\* So does going on to the next scope.
LEMMA NextScopeType ==
  ASSUME TypeOK, begun' = begun, pc # "idle", NextScope
  PROVE  MemoryOK'
<1>1. scope # ScopeCount => scope + 1 \in Scopes
  BY DEF TypeOK, MemoryOK
<1> QED
  BY <1>1, GotoType DEF NextScope, TypeOK, MemoryOK

\* So does what follows the row of a scope.
LEMMA AfterRowType ==
  ASSUME TypeOK, begun' = begun, pc # "idle", AfterRow
  PROVE  MemoryOK'
BY GotoType, NextScopeType DEF AfterRow, TypeOK, MemoryOK

\* A store's answer is a row.
LEMMA NewestType ==
  ASSUME TypeOK, RowsAreOrdered, NEW t \in Store, NEW s \in Scopes
  PROVE  /\ Newest(t, s) \in Row
         /\ rows[t][s] = {} => Newest(t, s) = NoRow
         /\ rows[t][s] # {} => /\ Newest(t, s) \in rows[t][s]
                              /\ \A q \in rows[t][s] : Later(Newest(t, s), q)
<1>1. CASE rows[t][s] = {}
  BY <1>1, NoRowType DEF Newest
<1>2. CASE rows[t][s] # {}
  <2>1. \E r \in rows[t][s] : \A q \in rows[t][s] : Later(r, q)
    BY <1>2 DEF RowsAreOrdered
  <2>2. /\ Newest(t, s) \in rows[t][s]
        /\ \A q \in rows[t][s] : Later(Newest(t, s), q)
    BY <1>2, <2>1 DEF Newest
  <2>3. rows[t][s] \subseteq Row
    BY DEF TypeOK, TablesOK
  <2> QED
    BY <1>2, <2>2, <2>3
<1> QED
  BY <1>1, <1>2

\* A store is asked only if there is one to ask.
LEMMA AnsweringType ==
  ASSUME NEW s, NEW E
  PROVE  Answering(s, E) \in Store \cup {"none"}
BY DEF Answering

\* The row to write is a row.
LEMMA NextRowType == ASSUME TypeOK, begun # 0 PROVE NextRow \in Row
<1>1. last \in Row /\ known[scope] \in Int /\ points \in 0..begun /\ begun \in 0..Episodes
  BY DEF TypeOK, MemoryOK
<1>2. last.id \in RowId /\ last.id.step \in Int
  BY <1>1 DEF Row, RowId
<1>3. [end |-> points, step |-> last.id.step + 1] \in RowId /\ begun \in 0..Episodes
  BY <1>1, <1>2 DEF TypeOK, RowId
<1> QED
  BY <1>1, <1>2, <1>3 DEF NextRow, Row

\* A set of rows that gets a row of the episode in hand keeps its order.
LEMMA PutRowOrdered ==
  ASSUME NEW S \in SUBSET Row, NEW row \in Row,
         \A q \in S : q.episode <= row.episode,
         S # {} => \E r \in S : \A q \in S : Later(r, q),
         NEW P, P = {r \in S : r.id # row.id} \cup {row}
  PROVE  \E r \in P : \A q \in P : Later(r, q)
<1> USE DEF Row, RowId, Later
<1>1. CASE S = {}
  BY <1>1
<1>2. CASE S # {}
  <2>1. PICK r \in S : \A q \in S : Later(r, q)
    BY <1>2
  <2>2. CASE row.id.step < r.id.step
    <3>1. r \in P
      BY <2>2
    <3>2. \A q \in P : Later(r, q)
      BY <2>1, <2>2
    <3> QED
      BY <3>1, <3>2
  <2>3. CASE ~ (row.id.step < r.id.step)
    <3>1. \A q \in P : Later(row, q)
      BY <2>1, <2>3
    <3> QED
      BY <3>1
  <2> QED
    BY <2>2, <2>3
<1> QED
  BY <1>1, <1>2
-----------------------------------------------------------------------------
(* One step.                                                               *)

TypeInv == TypeOK /\ RowsAreOrdered

\* A write counts the stores that raised and goes on, or ends the runner.
LEMMA WriteType ==
  ASSUME TypeOK, NEW hit \in SUBSET Store,
         NEW l \in {"snapshot", "window", "flow", "assess", "link", "record",
                    "atlas", "rule"},
         NEW s \in Scopes, Write(hit, Goto(l, s)), begun' = begun, pc # "idle"
  PROVE  mishaps' \in 0..Mishaps /\ MemoryOK'
<1>1. mishaps' \in 0..Mishaps
  BY RaisingType DEF Write, TypeOK
<1>2. Gone \/ Goto(l, s)
  BY DEF Write
<1>3. begun' \in Nat
  BY DEF TypeOK
<1> QED
  BY <1>1, <1>2, <1>3, GoneType, GotoType

\* A reading gives a row, and errors stay within their bound.
LEMMA ReadType ==
  ASSUME TypeInv, NEW E, Ask(E)
  PROVE  /\ mishaps' \in 0..Mishaps
         /\ Answering(scope, E) # "none" => Answer(E) \in Row
<1>1. mishaps' \in 0..Mishaps
  BY RaisingType DEF Ask, TypeInv, TypeOK
<1>2. scope \in Scopes
  BY DEF TypeInv, TypeOK, MemoryOK
<1> QED
  BY <1>1, <1>2, AnsweringType, NewestType DEF Answer, TypeInv

\* A judgement leaves the memory of the runner as it should be.
LEMMA JudgeType ==
  ASSUME TypeInv, begun' = begun, pc # "idle", NEW score \in Int, Judge(score)
  PROVE  MemoryOK'
<1>1. Gamma(score, impression) \in Int
  BY GammaType DEF TypeInv, TypeOK, MemoryOK
<1> QED
  BY <1>1 DEF Judge, TypeInv, TypeOK, MemoryOK

\* An episode in hand is one of the run, and has its place in the trajectory.
LEMMA InEpisode ==
  ASSUME TypeOK, pc # "idle"
  PROVE  begun \in Episode /\ points \in Episode /\ scope \in Scopes
BY DEF TypeOK, MemoryOK

\* A table in which an entry was replaced is such a table.
LEMMA PutType ==
  ASSUME NEW table \in [Store -> [Episode -> 0..Episodes]], NEW hit,
         NEW key \in Episode, NEW value \in Episode
  PROVE  Put(table, hit, key, value) \in [Store -> [Episode -> 0..Episodes]]
BY DEF Put

\* A table to which an element was added is such a table.
LEMMA AddType ==
  ASSUME NEW S, NEW table \in [Store -> SUBSET S], NEW hit, NEW element \in S
  PROVE  Add(table, hit, element) \in [Store -> SUBSET S]
BY DEF Add

\* Every step keeps the types.
LEMMA TypeStep == ASSUME TypeInv, [Next]_vars PROVE TypeOK'
<1> USE DEF TypeInv
<1>0. TypeOK /\ begun \in 0..Episodes
  BY DEF TypeOK
<1>1. CASE UNCHANGED vars
  BY <1>1 DEF vars, rigid, memory, tables, TypeOK, MemoryOK, TablesOK
<1>2. CASE Advance
  <2>1. MemoryOK'
    BY <1>2 DEF Advance, TypeOK, MemoryOK
  <2>2. TablesOK'
    BY <1>2 DEF Advance, tables, TypeOK, TablesOK
  <2>3. begun' \in 0..Episodes /\ mishaps' = mishaps /\ UNCHANGED <<mode, firm, ruled>>
    BY <1>2 DEF Advance, SameRuling, rigid, TypeOK
  <2> QED
    BY <2>1, <2>2, <2>3 DEF TypeOK
<1>3. CASE WriteSnapshot
  <2>1. PICK hit \in SUBSET Store : /\ Write(hit, Goto("window", 1))
                                   /\ snapshots' = Add(snapshots, hit, begun)
    BY <1>3 DEF WriteSnapshot
  <2>2. mishaps' \in 0..Mishaps /\ MemoryOK'
    BY <1>3, <2>1, WriteType DEF WriteSnapshot, At
  <2>3. snapshots' \in [Store -> SUBSET Episode]
    BY <1>3, <2>1, InEpisode, AddType DEF WriteSnapshot, At, TypeOK, TablesOK
  <2> QED
    BY <1>3, <2>2, <2>3 DEF WriteSnapshot, At, SameRuling, rigid, TypeOK, TablesOK
<1>4. CASE WriteWindow
  <2>1. PICK hit \in SUBSET Store : /\ Write(hit, Goto("flow", 1))
                                   /\ windows' = Put(windows, hit, points, begun)
    BY <1>4 DEF WriteWindow
  <2>2. mishaps' \in 0..Mishaps /\ MemoryOK'
    BY <1>4, <2>1, WriteType DEF WriteWindow, At
  <2>3. windows' \in [Store -> [Episode -> 0..Episodes]]
    BY <1>4, <2>1, InEpisode, PutType DEF WriteWindow, At, TypeOK, TablesOK
  <2> QED
    BY <1>4, <2>2, <2>3 DEF WriteWindow, At, SameRuling, rigid, TypeOK, TablesOK
<1>5. CASE WriteFlow
  <2>1. PICK hit \in SUBSET Store : /\ Write(hit, Goto("assess", 1))
                                   /\ flows' = Put(flows, hit, points, begun)
    BY <1>5 DEF WriteFlow
  <2>2. mishaps' \in 0..Mishaps /\ MemoryOK'
    BY <1>5, <2>1, WriteType DEF WriteFlow, At
  <2>3. flows' \in [Store -> [Episode -> 0..Episodes]]
    BY <1>5, <2>1, InEpisode, PutType DEF WriteFlow, At, TypeOK, TablesOK
  <2> QED
    BY <1>5, <2>2, <2>3 DEF WriteFlow, At, SameRuling, rigid, TypeOK, TablesOK
<1>6. CASE Assess
  <2>1. mishaps' \in 0..Mishaps /\ MemoryOK'
    <3>1. CASE Judge(known[scope]) /\ UNCHANGED <<mishaps, tables>>
      <4>1. known[scope] \in Int
        BY DEF TypeOK, MemoryOK
      <4> QED
        BY <1>6, <3>1, <4>1, JudgeType DEF Assess, At, TypeOK
    <3>2. ASSUME NEW E, Unanswered(E)
          PROVE  mishaps' \in 0..Mishaps /\ MemoryOK'
      BY <1>0, <1>6, <3>2, ReadType, GoneType DEF Unanswered, Assess, At
    <3>3. ASSUME NEW E, Answered(E), Judge(Answer(E).score)
          PROVE  mishaps' \in 0..Mishaps /\ MemoryOK'
      <4>1. Answer(E) \in Row /\ mishaps' \in 0..Mishaps
        BY <3>3, ReadType DEF Answered
      <4>2. Answer(E).score \in Int
        BY <4>1 DEF Row
      <4> QED
        BY <1>6, <3>3, <4>1, <4>2, JudgeType DEF Assess, At
    <3> QED
      BY <1>6, <3>1, <3>2, <3>3 DEF Assess
  <2>2. UNCHANGED <<begun, rigid, tables, ruled>>
    BY <1>6 DEF Assess, At, SameRuling, Unanswered, Answered, Ask
  <2> QED
    BY <2>1, <2>2 DEF rigid, tables, TypeOK, TablesOK
<1>7. CASE Link
  <2>1. PICK E : \/ Unanswered(E)
                 \/ /\ Answered(E)
                    /\ last' = Answer(E) /\ pc' = "record"
                    /\ UNCHANGED <<scope, points, known, impression>>
    BY <1>7 DEF Link
  <2>2. mishaps' \in 0..Mishaps
    BY <2>1, ReadType DEF Unanswered, Answered
  <2>3. MemoryOK'
    <3>1. CASE Unanswered(E)
      BY <1>0, <1>7, <3>1, GoneType DEF Unanswered, Link, At
    <3>2. CASE Answered(E)
      <4>1. Answer(E) \in Row
        BY <3>2, ReadType DEF Answered
      <4> QED
        BY <1>0, <1>7, <2>1, <3>1, <4>1 DEF Link, At, TypeOK, MemoryOK
    <3> QED
      BY <2>1, <3>1, <3>2
  <2>4. UNCHANGED <<begun, rigid, tables, ruled>>
    BY <1>7, <2>1 DEF Link, At, SameRuling, Unanswered, Answered, Ask
  <2> QED
    BY <2>2, <2>3, <2>4 DEF rigid, tables, TypeOK, TablesOK
<1>8. CASE WriteRow
  <2>1. PICK hit \in SUBSET Store : /\ Write(hit, AfterRow)
                                   /\ rows' = PutRow(hit, scope, NextRow)
    BY <1>8 DEF WriteRow
  <2>2. mishaps' \in 0..Mishaps /\ (Gone \/ AfterRow)
    BY <2>1, RaisingType DEF Write, TypeOK
  <2>3. MemoryOK'
    BY <1>0, <1>8, <2>2, GoneType, AfterRowType DEF WriteRow, At
  <2>4. rows' \in [Store -> [Scopes -> SUBSET Row]]
    <3>1. begun # 0
      BY <1>8, InEpisode DEF WriteRow, At
    <3>2. NextRow \in Row
      BY <3>1, NextRowType
    <3> QED
      <4>1. rows \in [Store -> [Scopes -> SUBSET Row]]
        BY DEF TypeOK, TablesOK
      <4>2. \A t \in Store :
              [rows[t] EXCEPT ![scope] = {r \in @ : r.id # NextRow.id} \cup {NextRow}]
                \in [Scopes -> SUBSET Row]
        BY <3>2, <4>1
      <4> QED
        BY <2>1, <4>1, <4>2 DEF PutRow
  <2> QED
    BY <1>8, <2>2, <2>3, <2>4 DEF WriteRow, At, SameRuling, rigid, TypeOK, TablesOK
<1>9. CASE WriteAtlas
  <2>1. PICK hit \in SUBSET Store : /\ Write(hit, NextScope)
                                   /\ atlas' = Add(atlas, hit, <<begun, scope>>)
    BY <1>9 DEF WriteAtlas
  <2>2. mishaps' \in 0..Mishaps /\ (Gone \/ NextScope)
    BY <2>1, RaisingType DEF Write, TypeOK
  <2>3. MemoryOK'
    BY <1>0, <1>9, <2>2, GoneType, NextScopeType DEF WriteAtlas, At
  <2>4. atlas' \in [Store -> SUBSET (Episode \X Scopes)]
    BY <1>9, <2>1, InEpisode, AddType DEF WriteAtlas, At, TypeOK, TablesOK
  <2> QED
    BY <1>9, <2>2, <2>3, <2>4 DEF WriteAtlas, At, SameRuling, rigid, TypeOK, TablesOK
<1>10. CASE Rule
  <2>1. begun \in Episode
    BY <1>10, InEpisode DEF Rule, At
  <2>2. MemoryOK'
    BY <1>10 DEF Rule, At, memory, TypeOK, MemoryOK
  <2> QED
    BY <1>10, <2>1, <2>2 DEF Rule, At, rigid, tables, TypeOK, TablesOK
<1>11. CASE Stop
  <2>1. MemoryOK'
    BY <1>0, <1>11, GoneType DEF Stop
  <2>2. TablesOK'
    BY <1>11 DEF Stop, tables, TypeOK, TablesOK
  <2>3. begun' = begun /\ mishaps' \in 0..Mishaps /\ UNCHANGED <<mode, firm, ruled>>
    BY <1>11 DEF Stop, SameRuling, rigid, TypeOK
  <2> QED
    BY <2>1, <2>2, <2>3 DEF TypeOK
<1> QED
  BY <1>1, <1>2, <1>3, <1>4, <1>5, <1>6, <1>7, <1>8, <1>9, <1>10, <1>11 DEF Next

\* Only the row of the scope in hand is written, and only by WriteRow.
LEMMA RowsStep ==
  ASSUME [Next]_vars
  PROVE  \/ rows' = rows
         \/ /\ WriteRow /\ pc = "record" /\ begun' = begun
            /\ \E hit \in SUBSET Store : /\ Write(hit, AfterRow)
                                        /\ rows' = PutRow(hit, scope, NextRow)
BY DEF Next, vars, tables, Advance, WriteSnapshot, WriteWindow, WriteFlow, Assess, Link,
       WriteRow, WriteAtlas, Rule, Stop, Unanswered, Answered, Ask, At

\* What a store has after a row was written.
LEMMA RowsAfter ==
  ASSUME TypeOK, NEW hit \in SUBSET Store, rows' = PutRow(hit, scope, NextRow),
         NEW t \in Store, NEW s \in Scopes
  PROVE  rows'[t][s] =
           IF t \in hit /\ s = scope
           THEN {r \in rows[t][s] : r.id # NextRow.id} \cup {NextRow}
           ELSE rows[t][s]
BY DEF PutRow, TypeOK, TablesOK

\* Episodes are only ever begun.
LEMMA BegunGrows == ASSUME TypeOK, [Next]_vars PROVE begun <= begun' /\ begun' \in Nat
BY DEF TypeOK, Next, vars, Advance, WriteSnapshot, WriteWindow, WriteFlow, Assess, Link,
       WriteRow, WriteAtlas, Rule, Stop, At

\* Every step keeps a newest row in every scope.
LEMMA OrderStep == ASSUME TypeInv, [Next]_vars PROVE RowsAreOrdered'
<1> USE DEF TypeInv
<1> SUFFICES ASSUME NEW t \in Store, NEW s \in Scopes
             PROVE  /\ \A r \in rows'[t][s] : r.episode <= begun'
                    /\ rows'[t][s] # {} =>
                         \E r \in rows'[t][s] : \A q \in rows'[t][s] : Later(r, q)
  BY DEF RowsAreOrdered, Later
<1>0. begun \in Nat
  BY DEF TypeOK
<1>1. rows[t][s] \subseteq Row
  BY DEF TypeOK, TablesOK
<1>2. \A r \in Row : r.episode \in Nat
  BY DEF Row
<1>3. CASE rows'[t][s] = rows[t][s]
  <2>1. \A r \in rows[t][s] : r.episode <= begun /\ r.episode \in Nat
    BY <1>1, <1>2 DEF RowsAreOrdered
  <2>2. \A r \in rows'[t][s] : r.episode <= begun'
    BY <1>0, <1>3, <2>1, BegunGrows
  <2> QED
    BY <1>3, <2>2 DEF RowsAreOrdered
<1>4. CASE rows'[t][s] # rows[t][s]
  <2>1. PICK hit \in SUBSET Store : rows' = PutRow(hit, scope, NextRow)
    BY <1>4, RowsStep
  <2>2. pc = "record" /\ begun' = begun
    BY <1>4, RowsStep
  <2>3. rows'[t][s] = {r \in rows[t][s] : r.id # NextRow.id} \cup {NextRow}
    BY <1>4, <2>1, RowsAfter
  <2>4. NextRow \in Row /\ NextRow.episode = begun
    BY <2>2, InEpisode, NextRowType DEF NextRow
  <2>5. \A q \in rows[t][s] : q.episode <= NextRow.episode
    BY <2>4 DEF RowsAreOrdered
  <2>6. \E r \in rows'[t][s] : \A q \in rows'[t][s] : Later(r, q)
    BY <1>1, <2>3, <2>4, <2>5, PutRowOrdered DEF RowsAreOrdered
  <2> QED
    BY <1>0, <2>2, <2>3, <2>4, <2>5, <2>6
<1> QED
  BY <1>3, <1>4

\* Types, and the order of the rows: created_at and step_index single out a newest
\* row in every store, whatever failed.
THEOREM TypeInvariant == Spec => []TypeInv
<1>1. Init => TypeInv
  BY TypeInit DEF TypeInv, RowsAreOrdered, Init
<1>2. TypeInv /\ [Next]_vars => TypeInv'
  BY TypeStep, OrderStep DEF TypeInv
<1> QED
  BY <1>1, <1>2, PTL DEF Spec

-----------------------------------------------------------------------------
(* The chain.                                                              *)

ChainInv == TypeInv /\ LastOnRecord /\ ChainHasNoGap

\* No id of a row is ever lost: a row gives way only to one of its id.
LEMMA IdsStay ==
  ASSUME TypeInv, [Next]_vars, NEW t \in Store, NEW s \in Scopes, NEW q \in rows[t][s]
  PROVE  \E r \in rows'[t][s] : r.id = q.id
<1>1. CASE rows'[t][s] = rows[t][s]
  BY <1>1
<1>2. CASE rows'[t][s] # rows[t][s]
  <2>1. PICK hit \in SUBSET Store : rows' = PutRow(hit, scope, NextRow)
    BY <1>2, RowsStep
  <2>2. rows'[t][s] = {r \in rows[t][s] : r.id # NextRow.id} \cup {NextRow}
    BY <1>2, <2>1, RowsAfter DEF TypeInv
  <2> QED
    BY <2>2
<1> QED
  BY <1>1, <1>2

\* Every step keeps the row to follow on record.
LEMMA LastStep == ASSUME ChainInv, [Next]_vars PROVE LastOnRecord'
<1> USE DEF ChainInv
<1> SUFFICES ASSUME pc' = "record"
             PROVE  \/ last' = NoRow
                    \/ \E t \in Store : \E q \in rows'[t][scope'] : q.id = last'.id
  BY DEF LastOnRecord
<1>1. CASE UNCHANGED vars
  BY <1>1 DEF vars, memory, tables, LastOnRecord
<1>2. CASE Link
  <2>1. PICK E : /\ Answered(E) /\ last' = Answer(E)
                 /\ rows' = rows /\ scope' = scope
    BY <1>2 DEF Link, Unanswered, Gone, Answered, Ask, tables
  <2>2. Answering(scope, E) \in Store /\ scope \in Scopes
    BY <2>1, AnsweringType DEF Answered, TypeInv, TypeOK, MemoryOK
  <2> QED
    BY <2>1, <2>2, NewestType DEF Answer, TypeInv
<1>3. CASE Next /\ ~Link
  BY <1>3 DEF Next, Advance, WriteSnapshot, WriteWindow, WriteFlow, Assess, WriteRow,
       WriteAtlas, Rule, Stop, Write, Gone, Goto, AfterRow, NextScope, Unanswered, Judge
<1> QED
  BY <1>1, <1>2, <1>3

\* Every step keeps the chain of risk rows without a gap.
LEMMA ChainStep == ASSUME ChainInv, [Next]_vars PROVE ChainHasNoGap'
<1> USE DEF ChainInv
<1> SUFFICES ASSUME NEW t \in Store, NEW s \in Scopes, NEW r \in rows'[t][s], r.id.step > 0
             PROVE  /\ r.prev.step = r.id.step - 1
                    /\ \E u \in Store : \E q \in rows'[u][s] : q.id = r.prev
  BY DEF ChainHasNoGap
<1>1. CASE r \in rows[t][s]
  <2>1. PICK u \in Store : \E q \in rows[u][s] : q.id = r.prev
    BY <1>1 DEF ChainHasNoGap
  <2>2. \E q \in rows'[u][s] : q.id = r.prev
    BY <2>1, IdsStay
  <2> QED
    BY <1>1, <2>1, <2>2 DEF ChainHasNoGap
<1>2. CASE r \notin rows[t][s]
  <2>1. PICK hit \in SUBSET Store : rows' = PutRow(hit, scope, NextRow)
    BY <1>2, RowsStep
  <2>2. pc = "record"
    BY <1>2, RowsStep
  <2>a. rows'[t][s] = IF t \in hit /\ s = scope
                      THEN {q \in rows[t][s] : q.id # NextRow.id} \cup {NextRow}
                      ELSE rows[t][s]
    BY <2>1, RowsAfter DEF TypeInv
  <2>3. r = NextRow /\ s = scope
    BY <1>2, <2>a
  <2>4. last \in Row
    BY DEF TypeInv, TypeOK, MemoryOK
  <2>5. last.id.step \in Int
    BY <2>4 DEF Row, RowId
  <2>6. r.prev = last.id /\ r.id.step = last.id.step + 1
    BY <2>3 DEF NextRow
  <2>7. last # NoRow
    BY <2>6 DEF NoRow
  <2>8. PICK u \in Store : \E q \in rows[u][s] : q.id = last.id
    BY <2>2, <2>3, <2>7 DEF LastOnRecord
  <2>9. \E q \in rows'[u][s] : q.id = last.id
    BY <2>8, IdsStay
  <2> QED
    BY <2>5, <2>6, <2>8, <2>9
<1> QED
  BY <1>1, <1>2

\* Whatever stores raise and wherever the process stops, the risk rows of a scope
\* form a chain without gap.
THEOREM Chain == Spec => []ChainHasNoGap
<1>1. Init => ChainInv
  BY TypeInit DEF ChainInv, TypeInv, RowsAreOrdered, LastOnRecord, ChainHasNoGap, Init
<1>2. ChainInv /\ [Next]_vars => ChainInv'
  BY TypeStep, OrderStep, LastStep, ChainStep DEF ChainInv, TypeInv
<1>3. ChainInv => ChainHasNoGap
  BY DEF ChainInv
<1> QED
  BY <1>1, <1>2, <1>3, PTL DEF Spec
-----------------------------------------------------------------------------
(* The rows of a sound storage are the memory of the risk process.         *)

MemoryInv == TypeInv /\ RowsAreMemory

\* A read of a sound storage gives the newest row of the primary store.
LEMMA SoundRead ==
  ASSUME MemoryInv, Sound, NEW E, Answered(E)
  PROVE  Answer(E) = Newest("primary", scope)
<1>1. scope \in Scopes
  BY DEF MemoryInv, TypeInv, TypeOK, MemoryOK
<1>2. CASE Answering(scope, E) = "primary"
  BY <1>2 DEF Answer
<1>3. CASE Answering(scope, E) # "primary"
  <2>1. "primary" \notin E
    BY <1>3 DEF Sound, Answered, Ask, Raising, Answering, Stores
  <2>2. rows["primary"][scope] = {} /\ Answering(scope, E) = "fallback"
    BY <1>3, <2>1 DEF Answering, Answered
  <2>3. rows["fallback"][scope] = {}
    BY <1>1, <2>2 DEF MemoryInv, RowsAreMemory
  <2> QED
    BY <2>2, <2>3 DEF Answer, Newest
<1> QED
  BY <1>2, <1>3

\* A write to a sound storage that misses the primary store misses both, and the
\* runner goes.
LEMMA SoundWrite ==
  ASSUME Sound, mode \in {"single", "lenient", "strict"}, NEW hit \in SUBSET Store,
         Write(hit, AfterRow)
  PROVE  /\ "fallback" \in hit => "primary" \in hit
         /\ Gone \/ (AfterRow /\ "primary" \in hit)
<1>1. CASE mode = "single"
  <2>1. Stores = {"primary"}
    BY <1>1 DEF Stores
  <2>2. PICK E \in Raising : /\ Stores \ E \subseteq hit /\ hit \subseteq Stores
                            /\ IF Raises(E) THEN Gone ELSE AfterRow
    BY <1>1 DEF Write
  <2>3. "primary" \in E => Raises(E)
    BY <1>1, <2>1, <2>2 DEF Raises, Raising
  <2> QED
    BY <2>1, <2>2, <2>3
<1>2. CASE firm
  BY <1>2 DEF Write, Raising, Stores
<1> QED
  BY <1>1, <1>2 DEF Sound

\* The newest row of a scope depends on the rows of the scope only.
LEMMA NewestSame ==
  ASSUME NEW t, NEW s, rows'[t][s] = rows[t][s]
  PROVE  Newest(t, s)' = Newest(t, s)
BY DEF Newest, Later

\* The row that follows the newest one is the newest.
LEMMA NewestWritten ==
  ASSUME TypeInv, NEW t \in Store, NEW s \in Scopes, last = Newest(t, s), begun # 0,
         rows'[t][s] = {r \in rows[t][s] : r.id # NextRow.id} \cup {NextRow}
  PROVE  Newest(t, s)' = NextRow
<1>1. last \in Row /\ rows[t][s] \subseteq Row
  BY DEF TypeInv, TypeOK, MemoryOK, TablesOK
<1>2. NextRow \in Row
  BY NextRowType DEF TypeInv
<1>3. NextRow.id.step = last.id.step + 1
  BY DEF NextRow
<1>4. \A r \in Row : r.id.step \in Int /\ r.episode \in Int
  BY DEF Row, RowId
<1>5. \A r \in rows[t][s] : r.id.step < NextRow.id.step
  <2> SUFFICES ASSUME NEW r \in rows[t][s] PROVE r.id.step < NextRow.id.step
    OBVIOUS
  <2>1. Later(last, r)
    BY NewestType DEF TypeInv
  <2> QED
    BY <1>1, <1>3, <1>4, <2>1 DEF Later
<1>6. \A q \in rows'[t][s] : Later(NextRow, q)
  BY <1>2, <1>4, <1>5 DEF Later
<1>7. \A r \in rows'[t][s] : Later(r, NextRow) => r = NextRow
  BY <1>1, <1>2, <1>4, <1>5 DEF Later
<1>8. Newest(t, s)' = CHOOSE r \in rows'[t][s] : \A q \in rows'[t][s] : Later(r, q)
  BY DEF Newest, Later
<1> QED
  BY <1>6, <1>7, <1>8

\* What a row that reached the primary store makes of its scope.
LEMMA RowWritten ==
  ASSUME MemoryInv, Sound, pc = "record", NEW hit \in SUBSET Store, "primary" \in hit,
         rows' = PutRow(hit, scope, NextRow), NEW s \in Scopes
  PROVE  Newest("primary", s)' = IF s = scope THEN NextRow ELSE Newest("primary", s)
<1> USE DEF MemoryInv
<1>1. scope \in Scopes /\ begun # 0 /\ TypeOK
  BY InEpisode DEF TypeInv
<1>2. last = Newest("primary", scope)
  BY DEF RowsAreMemory
<1>3. CASE s = scope
  <2>1. rows'["primary"][s]
          = {r \in rows["primary"][s] : r.id # NextRow.id} \cup {NextRow}
    BY <1>1, <1>3, RowsAfter
  <2>2. last = Newest("primary", s)
    BY <1>2, <1>3
  <2> QED
    BY <1>1, <1>3, <2>1, <2>2, NewestWritten
<1>4. CASE s # scope
  <2>1. rows'["primary"][s] = rows["primary"][s]
    BY <1>1, <1>4, RowsAfter
  <2> QED
    BY <1>4, <2>1, NewestSame
<1> QED
  BY <1>3, <1>4

\* What the runner knows of a scope.
KnownOK(s) ==
  IF InHand(s) THEN \E x \in Impressions :
                      known[s] = Gamma(Newest("primary", s).score, x)
  ELSE known[s] \in {Unknown, Newest("primary", s).score}

\* A scope that is not in hand is as well known as its newest row.
LEMMA NotInHand ==
  ASSUME known' = known, NEW s \in Scopes, KnownOK(s), ~InHand(s), ~InHand(s)',
         Newest("primary", s)' = Newest("primary", s)
  PROVE  KnownOK(s)'
BY DEF KnownOK

\* A runner that is gone knows nothing.
LEMMA GoneKnows == ASSUME Gone, NEW s \in Scopes PROVE KnownOK(s)' /\ pc' # "record"
BY DEF Gone, KnownOK, InHand

\* A step that is none of Assess, Link, WriteRow leaves the runner as much to know
\* as before, or it is gone.
LEMMA OtherKnows ==
  ASSUME [Next]_vars, ~Assess, ~Link, ~WriteRow
  PROVE  \/ UNCHANGED vars
         \/ Gone
         \/ /\ known' = known
            /\ pc \notin {"link", "record"} /\ pc' \notin {"link", "record"}
<1>1. CASE Advance
  BY <1>1 DEF Advance
<1>2. CASE WriteSnapshot
  BY <1>2 DEF WriteSnapshot, At, Write, Goto, memory
<1>3. CASE WriteWindow
  BY <1>3 DEF WriteWindow, At, Write, Goto, memory
<1>4. CASE WriteFlow
  BY <1>4 DEF WriteFlow, At, Write, Goto, memory
<1>5. CASE WriteAtlas
  BY <1>5 DEF WriteAtlas, At, Write, NextScope, Goto, memory
<1>6. CASE Rule
  BY <1>6 DEF Rule, At, memory
<1>7. CASE Stop
  BY <1>7 DEF Stop
<1> QED
  BY <1>1, <1>2, <1>3, <1>4, <1>5, <1>6, <1>7 DEF Next

\* Every step keeps what the runner knows of a scope in step with its rows.
LEMMA KnownStep ==
  ASSUME MemoryInv, Sound, [Next]_vars, NEW s \in Scopes
  PROVE  KnownOK(s)'
<1> USE DEF MemoryInv
<1>0. KnownOK(s)
  BY DEF KnownOK, RowsAreMemory
<1>1. CASE Assess
  <2>1. CASE Gone
    BY <2>1, GoneKnows
  <2>2. CASE ~Gone
    <3>1. PICK score \in {Newest("primary", scope).score} : Judge(score)
      <4>1. CASE known[scope] # Unknown /\ Judge(known[scope])
        <5>1. scope \in Scopes /\ ~InHand(scope)
          BY <1>1 DEF Assess, At, InHand, TypeInv, TypeOK, MemoryOK
        <5>2. known[scope] = Newest("primary", scope).score
          BY <4>1, <5>1 DEF RowsAreMemory
        <5> QED
          BY <4>1, <5>2
      <4>2. ASSUME NEW E, Answered(E), Judge(Answer(E).score)
            PROVE  Judge(Newest("primary", scope).score)
        BY <4>2, SoundRead
      <4> QED
        BY <1>1, <2>2, <4>1, <4>2 DEF Assess, Unanswered
    <3>2. rows' = rows
      BY <1>1 DEF Assess, Unanswered, Answered, Ask, tables
    <3>3. Newest("primary", s)' = Newest("primary", s)
      BY <3>2, NewestSame
    <3>4. impression \in Impressions /\ scope' = scope /\ pc' = "link" /\ pc = "assess"
      BY <1>1, <3>1 DEF Assess, At, Judge, TypeInv, TypeOK, MemoryOK
    <3>5. known' = [known EXCEPT ![scope] = Gamma(score, impression)]
      BY <3>1 DEF Judge
    <3>6. known \in [Scopes -> Int]
      BY DEF TypeInv, TypeOK, MemoryOK
    <3>7. CASE s = scope
      <4>1. known'[s] = Gamma(Newest("primary", s)'.score, impression)
        BY <3>3, <3>5, <3>6, <3>7
      <4>2. InHand(s)'
        BY <3>4, <3>7 DEF InHand
      <4> QED
        BY <3>4, <4>1, <4>2 DEF KnownOK
    <3>8. CASE s # scope
      <4>1. known'[s] = known[s]
        BY <3>5, <3>6, <3>8
      <4>2. ~InHand(s)' /\ ~InHand(s)
        BY <3>4, <3>8 DEF InHand
      <4> QED
        BY <1>0, <3>3, <4>1, <4>2 DEF KnownOK
    <3> QED
      BY <3>7, <3>8
  <2> QED
    BY <2>1, <2>2
<1>2. CASE Link
  <2>1. CASE Gone
    BY <2>1, GoneKnows
  <2>2. CASE ~Gone
    <3>1. /\ rows' = rows /\ known' = known /\ scope' = scope
          /\ pc = "link" /\ pc' = "record"
      BY <1>2, <2>2 DEF Link, At, Unanswered, Answered, Ask, tables
    <3>2. Newest("primary", s)' = Newest("primary", s)
      BY <3>1, NewestSame
    <3>3. InHand(s)' = InHand(s)
      BY <3>1 DEF InHand
    <3> QED
      BY <1>0, <3>1, <3>2, <3>3 DEF KnownOK
  <2> QED
    BY <2>1, <2>2
<1>3. CASE WriteRow
  <2>1. CASE Gone
    BY <2>1, GoneKnows
  <2>2. CASE ~Gone
    <3>1. PICK hit \in SUBSET Store : /\ Write(hit, AfterRow)
                                     /\ rows' = PutRow(hit, scope, NextRow)
      BY <1>3 DEF WriteRow
    <3>2. AfterRow /\ "primary" \in hit /\ pc = "record"
      BY <1>3, <2>2, <3>1, SoundWrite DEF TypeInv, TypeOK, WriteRow, At
    <3>3. known' = known /\ pc' \notin {"link", "record"}
      BY <3>2 DEF AfterRow, NextScope, Goto, memory
    <3>4. CASE s = scope
      <4>1. Newest("primary", s)' = NextRow
        BY <3>1, <3>2, <3>4, RowWritten
      <4>2. NextRow.score = known[s]
        BY <3>4 DEF NextRow
      <4> QED
        BY <3>3, <4>1, <4>2 DEF KnownOK, InHand
    <3>5. CASE s # scope
      <4>1. Newest("primary", s)' = Newest("primary", s)
        BY <3>1, <3>2, <3>5, RowWritten
      <4>2. ~InHand(s)' /\ ~InHand(s)
        BY <3>3, <3>5 DEF InHand
      <4> QED
        BY <1>0, <3>3, <4>1, <4>2, NotInHand
    <3> QED
      BY <3>4, <3>5
  <2> QED
    BY <2>1, <2>2
<1>4. CASE ~Assess /\ ~Link /\ ~WriteRow
  <2>1. rows' = rows
    BY <1>4, RowsStep
  <2>2. Newest("primary", s)' = Newest("primary", s)
    BY <2>1, NewestSame
  <2>3. CASE UNCHANGED vars
    <3>1. known' = known /\ scope' = scope /\ pc' = pc
      BY <2>3 DEF vars, memory
    <3> QED
      BY <1>0, <2>2, <3>1 DEF KnownOK, InHand
  <2>4. CASE Gone
    BY <2>4, GoneKnows
  <2>5. CASE /\ known' = known
             /\ pc \notin {"link", "record"} /\ pc' \notin {"link", "record"}
    BY <1>0, <2>2, <2>5, NotInHand DEF InHand
  <2> QED
    BY <1>4, <2>3, <2>4, <2>5, OtherKnows
<1> QED
  BY <1>1, <1>2, <1>3, <1>4

\* Every step keeps rows and memory together while the storage is sound.
LEMMA MemoryStep == ASSUME MemoryInv, [Next]_vars PROVE RowsAreMemory'
<1> USE DEF MemoryInv
<1> SUFFICES ASSUME Sound
             PROVE  /\ \A s \in Scopes : rows'["primary"][s] = {} => rows'["fallback"][s] = {}
                    /\ \A s \in Scopes : KnownOK(s)'
                    /\ pc' = "record" => last' = Newest("primary", scope)'
  <2>1. Sound' = Sound
    BY DEF Sound, Next, vars, rigid, Advance, WriteSnapshot, WriteWindow, WriteFlow,
           Assess, Link, WriteRow, WriteAtlas, Rule, Stop, At
  <2> QED
    BY <2>1 DEF RowsAreMemory, KnownOK
<1>1. ASSUME NEW s \in Scopes, rows'["primary"][s] = {} PROVE rows'["fallback"][s] = {}
  <2>1. CASE rows' = rows
    BY <1>1, <2>1 DEF RowsAreMemory
  <2>2. CASE rows' # rows
    <3>1. PICK hit \in SUBSET Store : /\ Write(hit, AfterRow)
                                     /\ rows' = PutRow(hit, scope, NextRow)
      BY <2>2, RowsStep
    <3>2. "fallback" \in hit => "primary" \in hit
      BY <3>1, SoundWrite DEF TypeInv, TypeOK
    <3>3. rows'["primary"][s] = IF "primary" \in hit /\ s = scope
                                THEN {r \in rows["primary"][s] : r.id # NextRow.id}
                                       \cup {NextRow}
                                ELSE rows["primary"][s]
      BY <3>1, RowsAfter DEF TypeInv
    <3>4. rows'["fallback"][s] = IF "fallback" \in hit /\ s = scope
                                 THEN {r \in rows["fallback"][s] : r.id # NextRow.id}
                                        \cup {NextRow}
                                 ELSE rows["fallback"][s]
      BY <3>1, RowsAfter DEF TypeInv
    <3> QED
      BY <1>1, <3>2, <3>3, <3>4 DEF RowsAreMemory
  <2> QED
    BY <2>1, <2>2
<1>2. ASSUME pc' = "record" PROVE last' = Newest("primary", scope)'
  <2>1. CASE UNCHANGED vars
    <3>1. pc = "record" /\ last' = last /\ rows' = rows /\ scope' = scope
      BY <1>2, <2>1 DEF vars, memory, tables
    <3> QED
      BY <3>1 DEF RowsAreMemory, Newest, Later
  <2>2. CASE Link
    <3>1. PICK E : Answered(E) /\ last' = Answer(E) /\ rows' = rows /\ scope' = scope
      BY <1>2, <2>2 DEF Link, Unanswered, Gone, Answered, Ask, tables
    <3>2. last' = Newest("primary", scope)
      BY <3>1, SoundRead
    <3> QED
      BY <3>1, <3>2 DEF Newest, Later
  <2>3. CASE Next /\ ~Link
    BY <1>2, <2>3 DEF Next, Advance, WriteSnapshot, WriteWindow, WriteFlow, Assess,
         WriteRow, WriteAtlas, Rule, Stop, Write, Gone, Goto, AfterRow, NextScope,
         Unanswered, Judge
  <2> QED
    BY <2>1, <2>2, <2>3
<1> QED
  BY <1>1, <1>2, KnownStep

\* Rows and memory are empty at the start.
LEMMA MemoryInit == Init => MemoryInv
BY TypeInit DEF MemoryInv, TypeInv, RowsAreOrdered, RowsAreMemory, InHand, Unknown, Init

\* Rows and memory go together throughout.
LEMMA MemoryInvariant == Spec => []MemoryInv
<1>1. Init => MemoryInv
  BY MemoryInit
<1>2. MemoryInv /\ [Next]_vars => MemoryInv'
  BY TypeStep, OrderStep, MemoryStep DEF MemoryInv, TypeInv
<1> QED
  BY <1>1, <1>2, PTL DEF Spec

-----------------------------------------------------------------------------
(* The refinement.                                                         *)

\* The court starts as the risk process does.
LEMMA ProcessInit == Init => Process!Init
<1> SUFFICES ASSUME Init PROVE Process!Init
  OBVIOUS
<1>1. \A s \in Scopes : Newest("primary", s) = NoRow
  BY DEF Init, Newest
<1>2. NoRow.score = Prior /\ NoRow.id.step + 1 = 0
  BY DEF NoRow
<1> QED
  BY <1>1, <1>2 DEF Process!Init

\* Every step of the court is a step of the risk process or a stutter.
LEMMA ProcessStep == ASSUME MemoryInv, [Next]_vars PROVE [Process!Next]_(Process!vars)
<1> USE DEF MemoryInv
<1>0. Sound' = Sound
  BY DEF Sound, Next, vars, rigid, Advance, WriteSnapshot, WriteWindow, WriteFlow,
         Assess, Link, WriteRow, WriteAtlas, Rule, Stop, At
<1>1. CASE ~Sound
  BY <1>0, <1>1 DEF Process!vars
<1>2. CASE Sound /\ \A s \in Scopes : Newest("primary", s)' = Newest("primary", s)
  BY <1>0, <1>2 DEF Process!vars
<1>3. CASE Sound /\ ~ \A s \in Scopes : Newest("primary", s)' = Newest("primary", s)
  <2>1. rows' # rows
    BY <1>3, NewestSame
  <2>2. PICK hit \in SUBSET Store : rows' = PutRow(hit, scope, NextRow)
    BY <2>1, RowsStep
  <2>3. pc = "record"
    BY <2>1, RowsStep
  <2>4. "primary" \in hit
    <3> SUFFICES ASSUME "primary" \notin hit, NEW s \in Scopes
                 PROVE  Newest("primary", s)' = Newest("primary", s)
      BY <1>3
    <3>1. rows'["primary"][s] = rows["primary"][s]
      BY <2>2, RowsAfter DEF TypeInv
    <3> QED
      BY <3>1, NewestSame
  <2>5. \A s \in Scopes : Newest("primary", s)'
                           = IF s = scope THEN NextRow ELSE Newest("primary", s)
    BY <1>3, <2>2, <2>3, <2>4, RowWritten
  <2>6. scope \in Scopes /\ last = Newest("primary", scope)
    BY <1>3, <2>3 DEF RowsAreMemory, TypeInv, TypeOK, MemoryOK
  <2>7. PICK x \in Impressions : known[scope] = Gamma(Newest("primary", scope).score, x)
    BY <1>3, <2>3, <2>6 DEF RowsAreMemory, InHand
  <2>8. /\ NextRow.score = Gamma(Newest("primary", scope).score, x)
        /\ NextRow.id.step + 1 = (Newest("primary", scope).id.step + 1) + 1
    BY <2>6, <2>7 DEF NextRow
  <2>9. Process!Update(scope, x)
    BY <1>0, <1>3, <2>5, <2>6, <2>8 DEF Process!Update
  <2> QED
    BY <2>6, <2>9 DEF Process!Next
<1> QED
  BY <1>1, <1>2, <1>3

\* With one store, or a primary that never raises, the rows are the risk process:
\* each follows from the one before, whatever runners came and went.
THEOREM RiskIsAProcess == Spec => ImplementsProcess
<1>1. MemoryInv /\ [Next]_vars => [Process!Next]_(Process!vars)
  BY ProcessStep
<1> QED
  BY <1>1, ProcessInit, MemoryInvariant, PTL DEF Spec, ImplementsProcess, Process!Spec

-----------------------------------------------------------------------------
(* The evidence of the rulings.                                            *)

\* Only a new episode and a ruling change what is judged.
LEMMA Judged ==
  ASSUME [Next]_vars
  PROVE  /\ Keeping' = Keeping
         /\ Advance \/ Rule \/ (begun' = begun /\ ruled' = ruled)
<1>1. UNCHANGED rigid /\ (Advance \/ Rule \/ UNCHANGED <<begun, ruled>>)
  BY DEF Next, vars, Advance, WriteSnapshot, WriteWindow, WriteFlow, Assess, Link,
         WriteRow, WriteAtlas, Rule, Stop, At, SameRuling
<1> QED
  BY <1>1 DEF Keeping, Stores, rigid

\* A write that goes on has reached all the stores that keep evidence.
LEMMA NoneMissed ==
  ASSUME TypeOK, NEW E \in Raising, ~Raises(E), NEW t \in Keeping
  PROVE  t \in Stores \ E
<1>1. CASE mode = "single"
  BY <1>1 DEF Keeping, Stores, Raises, Raising
<1>2. CASE mode = "strict"
  BY <1>2 DEF Keeping, Stores, Raises
<1>3. CASE mode = "lenient"
  BY <1>3 DEF Keeping, Raising
<1> QED
  BY <1>1, <1>2, <1>3 DEF TypeOK

\* A write after which the episode goes on has reached every store that counts.
LEMMA AllHit ==
  ASSUME TypeOK, NEW hit, NEW l, NEW s, Write(hit, Goto(l, s))
  PROVE  Gone \/ (Goto(l, s) /\ Keeping \subseteq hit)
<1>1. ASSUME NEW E \in Raising, Stores \ E \subseteq hit, ~Raises(E)
      PROVE  Keeping \subseteq hit
  BY <1>1, NoneMissed
<1> QED
  BY <1>1 DEF Write

\* So has the write of a row after which the episode goes on.
LEMMA AllHitByRow ==
  ASSUME TypeOK, NEW hit, Write(hit, AfterRow)
  PROVE  Gone \/ (AfterRow /\ Keeping \subseteq hit)
<1>1. ASSUME NEW E \in Raising, Stores \ E \subseteq hit, ~Raises(E)
      PROVE  Keeping \subseteq hit
  BY <1>1, NoneMissed
<1> QED
  BY <1>1 DEF Write

\* Of two stores that keep evidence one is the primary.
LEMMA KeepingIs ==
  /\ Keeping \subseteq Store
  /\ Keeping # {} => "primary" \in Keeping
BY DEF Keeping, Stores

\* Where the episode goes from each call.
LEMMA CourseStep ==
  ASSUME TypeInv, Next, ~Advance, ~Rule, ~Gone
  PROVE  /\ points' = points /\ pc # "idle"
         /\ \/ WriteSnapshot /\ pc = "snapshot" /\ pc' = "window"
            \/ WriteWindow /\ pc = "window" /\ pc' = "flow"
            \/ WriteFlow /\ pc = "flow" /\ pc' = "assess" /\ scope' = 1
            \/ Assess /\ pc = "assess" /\ pc' = "link" /\ scope' = scope
            \/ Link /\ pc = "link" /\ pc' = "record" /\ scope' = scope
            \/ WriteRow /\ pc = "record" /\ AfterRow
            \/ WriteAtlas /\ pc = "atlas" /\ NextScope
<1>1. CASE WriteSnapshot
  BY <1>1 DEF WriteSnapshot, At, Write, Goto, memory
<1>2. CASE WriteWindow
  BY <1>2 DEF WriteWindow, At, Write, Goto, memory
<1>3. CASE WriteFlow
  BY <1>3 DEF WriteFlow, At, Write, Goto, memory
<1>4. CASE Assess
  BY <1>4 DEF Assess, At, Judge, Unanswered
<1>5. CASE Link
  BY <1>5 DEF Link, At, Unanswered
<1>6. CASE WriteRow
  BY <1>6 DEF WriteRow, At, Write, AfterRow, NextScope, Goto, memory
<1>7. CASE WriteAtlas
  BY <1>7 DEF WriteAtlas, At, Write, NextScope, Goto, memory
<1> QED
  BY <1>1, <1>2, <1>3, <1>4, <1>5, <1>6, <1>7 DEF Next, Stop

\* After a row comes its atlas, the next scope or the ruling.
LEMMA AfterRowIs ==
  ASSUME TypeInv, AfterRow \/ NextScope
  PROVE  /\ points' = points
         /\ \/ pc' = "atlas" /\ scope' = scope /\ AfterRow
            \/ pc' = "assess" /\ scope' = scope + 1
            \/ pc' = "rule" /\ scope' = scope /\ scope = ScopeCount
BY DEF AfterRow, NextScope, Goto, memory

\* Every step keeps the rulings in the past.
LEMMA PastStep ==
  ASSUME TypeInv, EvidenceInv, [Next]_vars
  PROVE  RulingsArePast'
<1> USE DEF EvidenceInv, TypeInv
<1>0. begun \in Nat /\ \A e \in ruled : e \in Nat /\ 1 <= e /\ e <= begun
  BY DEF TypeOK, RulingsArePast
<1>1. CASE Advance
  <2>1. begun' = begun + 1 /\ ruled' = ruled
    BY <1>1 DEF Advance, SameRuling
  <2>2. \A e \in ruled : e \in 1..begun + 1 /\ e # begun + 1
    BY <1>0
  <2> QED
    BY <2>1, <2>2 DEF RulingsArePast
<1>2. CASE Rule
  <2>1. begun \in Episode /\ begun' = begun /\ ruled' = ruled \cup {begun} /\ pc' = "idle"
    BY <1>2, InEpisode DEF Rule, At
  <2> QED
    BY <1>0, <2>1 DEF RulingsArePast
<1>3. CASE UNCHANGED vars
  BY <1>3 DEF vars, RulingsArePast
<1>4. CASE Next /\ ~Advance /\ ~Rule
  <2>1. begun' = begun /\ ruled' = ruled
    BY <1>4, Judged
  <2>2. pc' = "idle" \/ pc # "idle"
    BY <1>4, CourseStep DEF Gone
  <2> QED
    BY <2>1, <2>2 DEF RulingsArePast
<1> QED
  BY <1>1, <1>2, <1>3, <1>4

\* Every step keeps the snapshots of the rulings.
LEMMA SnapshotStep ==
  ASSUME TypeInv, EvidenceInv, [Next]_vars
  PROVE  SnapshotsAreKept'
<1> USE DEF EvidenceInv, TypeInv
<1> SUFFICES ASSUME NEW t \in Keeping
             PROVE  /\ ruled' \subseteq snapshots'[t]
                    /\ pc' \notin {"idle", "snapshot"} => begun' \in snapshots'[t]
  BY Judged DEF SnapshotsAreKept
<1>0. t \in Store /\ snapshots \in [Store -> SUBSET Episode]
  BY KeepingIs DEF TypeOK, TablesOK
<1>1. CASE Advance
  BY <1>1 DEF Advance, SameRuling, tables, SnapshotsAreKept
<1>2. CASE Rule
  BY <1>2 DEF Rule, At, tables, SnapshotsAreKept
<1>3. CASE UNCHANGED vars
  BY <1>3 DEF vars, tables, SnapshotsAreKept
<1>4. CASE WriteSnapshot
  <2>1. PICK hit \in SUBSET Store : /\ Write(hit, Goto("window", 1))
                                   /\ snapshots' = Add(snapshots, hit, begun)
    BY <1>4 DEF WriteSnapshot
  <2>2. Gone \/ t \in hit
    BY <2>1, AllHit
  <2>3. snapshots'[t] = IF t \in hit THEN snapshots[t] \cup {begun} ELSE snapshots[t]
    BY <1>0, <2>1 DEF Add
  <2> QED
    BY <1>4, <2>2, <2>3 DEF WriteSnapshot, At, SameRuling, Gone, SnapshotsAreKept
<1>5. CASE Next /\ ~Advance /\ ~Rule /\ ~WriteSnapshot
  <2>1. begun' = begun /\ ruled' = ruled
    BY <1>5, Judged
  <2>2. snapshots' = snapshots
    BY <1>5 DEF Next, WriteWindow, WriteFlow, Assess, Link, WriteRow, WriteAtlas, Stop,
         Unanswered, Answered, Ask, tables
  <2>3. pc' = "idle" \/ pc \notin {"idle", "snapshot"}
    BY <1>5, CourseStep DEF Gone
  <2> QED
    BY <2>1, <2>2, <2>3 DEF SnapshotsAreKept
<1> QED
  BY <1>1, <1>2, <1>3, <1>4, <1>5

\* Every step keeps the report of every window a ruling stands on.
LEMMA FlowStep ==
  ASSUME TypeInv, EvidenceInv, [Next]_vars
  PROVE  FlowsFollowWindows'
<1> USE DEF EvidenceInv, TypeInv
<1>0. /\ begun \in Nat /\ Keeping \subseteq Store /\ Keeping' = Keeping
      /\ windows \in [Store -> [Episode -> 0..Episodes]]
      /\ flows \in [Store -> [Episode -> 0..Episodes]]
      /\ begun \notin ruled \/ pc = "idle"
      /\ \A e \in ruled : e \in Nat /\ e <= begun
  BY KeepingIs, Judged DEF TypeOK, TablesOK, RulingsArePast
<1>1. \A t \in Store, n \in Episode : windows[t][n] \in Nat
  BY <1>0
<1>2. CASE Advance
  <2>1. /\ begun' = begun + 1 /\ pc' = "snapshot" /\ ruled' = ruled
        /\ windows' = windows /\ flows' = flows
    BY <1>2 DEF Advance, SameRuling, tables
  <2> QED
    BY <1>0, <1>1, <2>1 DEF FlowsFollowWindows
<1>3. CASE Rule
  <2>1. /\ begun' = begun /\ pc' = "idle" /\ ruled' = ruled \cup {begun} /\ pc = "rule"
        /\ windows' = windows /\ flows' = flows
    BY <1>3 DEF Rule, At, tables
  <2>2. ASSUME NEW t \in Keeping, NEW n \in Episode, windows[t][n] = begun
        PROVE  flows[t][n] = begun
    <3>1. n = points /\ flows[t][points] = begun
      BY <1>0, <2>1, <2>2 DEF FlowsFollowWindows
    <3> QED
      BY <3>1
  <2> QED
    BY <1>0, <2>1, <2>2 DEF FlowsFollowWindows
<1>4. CASE UNCHANGED vars
  BY <1>4, <1>0 DEF vars, tables, memory, FlowsFollowWindows
<1>5. CASE WriteWindow
  <2>1. PICK hit \in SUBSET Store : /\ Write(hit, Goto("flow", 1))
                                   /\ windows' = Put(windows, hit, points, begun)
    BY <1>5 DEF WriteWindow
  <2>2. /\ pc = "window" /\ begun' = begun /\ ruled' = ruled /\ flows' = flows
        /\ points \in Episode
    BY <1>5, InEpisode DEF WriteWindow, At, SameRuling
  <2>3. /\ Gone \/ Keeping \subseteq hit
        /\ pc' = "idle" \/ (pc' = "flow" /\ points' = points)
    BY <2>1, AllHit DEF Gone, Goto, memory
  <2>4. \A t \in Store, n \in Episode :
          windows'[t][n] = IF t \in hit /\ n = points THEN begun ELSE windows[t][n]
    BY <1>0, <2>1, <2>2 DEF Put
  <2>5. \A t \in Store, n \in Episode :
          /\ windows'[t][n] <= begun
          /\ pc' # "idle" /\ windows'[t][n] = begun => n = points
    <3> SUFFICES ASSUME NEW t \in Store, NEW n \in Episode
                 PROVE  /\ windows'[t][n] <= begun
                        /\ windows'[t][n] = begun => n = points
      OBVIOUS
    <3>1. CASE t \in hit /\ n = points
      BY <1>0, <2>4, <3>1
    <3>2. CASE ~(t \in hit /\ n = points)
      <4>1. windows'[t][n] = windows[t][n]
        BY <2>4, <3>2
      <4> QED
        BY <2>2, <4>1 DEF FlowsFollowWindows
    <3> QED
      BY <3>1, <3>2
  <2>6. \A t \in Keeping : pc' = "flow" => windows'[t][points] = begun
    BY <1>0, <2>2, <2>3, <2>4 DEF Gone
  <2>7. \A t \in Keeping, n \in Episode :
          windows'[t][n] \in ruled => flows[t][n] = windows'[t][n]
    <3> SUFFICES ASSUME NEW t \in Keeping, NEW n \in Episode, windows'[t][n] \in ruled
                 PROVE  flows[t][n] = windows'[t][n]
      OBVIOUS
    <3>1. t \in Store /\ begun \notin ruled
      BY <1>0, <2>2
    <3>2. windows'[t][n] = windows[t][n]
      BY <2>4, <3>1
    <3> QED
      BY <3>2 DEF FlowsFollowWindows
  <2> QED
    BY <1>0, <2>2, <2>3, <2>5, <2>6, <2>7 DEF FlowsFollowWindows
<1>6. CASE WriteFlow
  <2>1. PICK hit \in SUBSET Store : /\ Write(hit, Goto("assess", 1))
                                   /\ flows' = Put(flows, hit, points, begun)
    BY <1>6 DEF WriteFlow
  <2>2. /\ pc = "flow" /\ begun' = begun /\ ruled' = ruled /\ windows' = windows
        /\ points \in Episode
    BY <1>6, InEpisode DEF WriteFlow, At, SameRuling
  <2>3. /\ Gone \/ Keeping \subseteq hit
        /\ pc' = "idle" \/ (pc' = "assess" /\ points' = points)
    BY <2>1, AllHit DEF Gone, Goto, memory
  <2>4. \A t \in Store, n \in Episode :
          flows'[t][n] = IF t \in hit /\ n = points THEN begun ELSE flows[t][n]
    BY <1>0, <2>1, <2>2 DEF Put
  <2>5. \A t \in Keeping : pc' = "assess" => flows'[t][points] = begun
    BY <1>0, <2>2, <2>3, <2>4 DEF Gone
  <2>6. \A t \in Keeping, n \in Episode :
          windows[t][n] \in ruled => flows'[t][n] = windows[t][n]
    <3> SUFFICES ASSUME NEW t \in Keeping, NEW n \in Episode, windows[t][n] \in ruled
                 PROVE  flows'[t][n] = windows[t][n]
      OBVIOUS
    <3>1. t \in Store /\ n # points
      BY <1>0, <2>2 DEF FlowsFollowWindows
    <3>2. flows'[t][n] = flows[t][n]
      BY <2>4, <3>1
    <3> QED
      BY <3>2 DEF FlowsFollowWindows
  <2> QED
    BY <1>0, <2>2, <2>3, <2>5, <2>6 DEF FlowsFollowWindows
<1>7. CASE Next /\ ~Advance /\ ~Rule /\ ~WriteWindow /\ ~WriteFlow
  <2>1. begun' = begun /\ ruled' = ruled
    BY <1>7, Judged
  <2>2. windows' = windows /\ flows' = flows
    BY <1>7 DEF Next, WriteSnapshot, Assess, Link, WriteRow, WriteAtlas, Stop,
         Unanswered, Answered, Ask, tables
  <2>3. \/ pc' = "idle"
        \/ /\ points' = points
           /\ \/ pc = "snapshot" /\ pc' = "window"
              \/ /\ pc \in {"assess", "link", "record", "atlas"}
                 /\ pc' \in {"assess", "link", "record", "atlas", "rule"}
    BY <1>7, CourseStep, AfterRowIs DEF Gone
  <2> QED
    BY <1>0, <2>1, <2>2, <2>3 DEF FlowsFollowWindows
<1> QED
  BY <1>2, <1>3, <1>4, <1>5, <1>6, <1>7

\* A row that the stores share keeps its place while its id is not written again.
LEMMA SharedStays ==
  ASSUME TypeInv, NEW s \in Scopes, NEW e, NEW hit \in SUBSET Store,
         rows' = PutRow(hit, scope, NextRow), Keeping' = Keeping, Keeping # {},
         HasRow(s, e),
         s = scope => \A r \in rows["primary"][s] :
                        Shared(r.id, s, e) => r.id # NextRow.id
  PROVE  HasRow(s, e)'
<1> USE DEF TypeInv
<1>1. PICK r \in rows["primary"][s] : Shared(r.id, s, e)
  BY DEF HasRow
<1>2. s = scope => r.id # NextRow.id
  BY <1>1
<1>3. ASSUME NEW t \in Store, NEW q \in rows[t][s], q.id = r.id
      PROVE  q \in rows'[t][s]
  <2>1. rows \in [Store -> [Scopes -> SUBSET Row]]
    BY DEF TypeOK, TablesOK
  <2>2. CASE t \in hit /\ s = scope
    <3>1. rows'[t][s] = {p \in rows[t][s] : p.id # NextRow.id} \cup {NextRow}
      BY <2>1, <2>2 DEF PutRow
    <3> QED
      BY <1>2, <1>3, <2>2, <3>1
  <2>3. CASE ~(t \in hit /\ s = scope)
    <3>1. rows'[t][s] = rows[t][s]
      BY <2>1, <2>3 DEF PutRow
    <3> QED
      BY <3>1
  <2> QED
    BY <2>2, <2>3
<1>4. \A t \in Store : \A q \in rows[t][s] : q.id = r.id => q \in rows'[t][s]
  BY <1>3
<1>5. r \in rows'["primary"][s]
  BY <1>4
<1>6. \A t \in Keeping : \E q \in rows'[t][s] : q.id = r.id /\ q.episode = e
  BY <1>1, <1>4, KeepingIs DEF Shared
<1> QED
  BY <1>5, <1>6 DEF HasRow, Shared

\* What the stores share depends on their rows only.
LEMMA SharedSame ==
  ASSUME NEW s, NEW e, rows' = rows, Keeping' = Keeping
  PROVE  HasRow(s, e)' = HasRow(s, e)
BY DEF HasRow, Shared

\* Every step keeps a shared row of each scope for every ruling.
LEMMA ShareStep ==
  ASSUME TypeInv, EvidenceInv, [Next]_vars
  PROVE  RowsAreShared'
<1> USE DEF EvidenceInv, TypeInv
<1>0. /\ Keeping' = Keeping /\ begun \in Nat
      /\ \A e \in ruled : e \in 0..begun
      /\ scope \in Scopes
  BY Judged DEF TypeOK, MemoryOK, RulingsArePast
<1>1. CASE Advance \/ Rule
  <2>1. rows' = rows /\ pc' \in {"idle", "snapshot"}
        /\ (ruled' = ruled \/ (Rule /\ ruled' = ruled \cup {begun}))
    BY <1>1 DEF Advance, Rule, At, SameRuling, tables
  <2>2. Rule => \A s \in Scopes : Recorded(s)
    BY DEF Rule, At, Recorded, RowsAreShared
  <2> QED
    BY <1>0, <2>1, <2>2, SharedSame DEF RowsAreShared, Recorded
<1>2. CASE UNCHANGED vars
  <2>1. rows' = rows /\ UNCHANGED <<pc, scope, begun, ruled>>
    BY <1>2 DEF vars, tables
  <2> QED
    BY <1>0, <2>1, SharedSame DEF RowsAreShared, Recorded
<1>3. CASE WriteRow
  <2>1. PICK hit \in SUBSET Store : /\ Write(hit, AfterRow)
                                   /\ rows' = PutRow(hit, scope, NextRow)
    BY <1>3 DEF WriteRow
  <2>2. begun' = begun /\ ruled' = ruled /\ pc = "record"
    BY <1>3 DEF WriteRow, At, SameRuling
  <2>3. Gone \/ (AfterRow /\ Keeping \subseteq hit)
    BY <2>1, AllHitByRow
  <2>4. ASSUME Keeping # {}, NEW s \in Scopes, NEW e \in 0..begun, HasRow(s, e)
        PROVE  HasRow(s, e)'
    <3>1. ASSUME s = scope, NEW r \in rows["primary"][s], Shared(r.id, s, e)
          PROVE  r.id # NextRow.id
      <4>1. r.id.step <= last.id.step
        BY <2>2, <2>4, <3>1 DEF RowIsNew
      <4>2. NextRow.id.step = last.id.step + 1
        BY DEF NextRow
      <4>3. last.id.step \in Int
        BY DEF TypeOK, MemoryOK, Row, RowId
      <4>4. ~(NextRow.id.step <= last.id.step)
        BY <4>2, <4>3
      <4> QED
        BY <4>1, <4>4
    <3> QED
      BY <1>0, <2>1, <2>4, <3>1, SharedStays
  <2>5. ASSUME Keeping # {}, Keeping \subseteq hit,
               NEW s \in Scopes, s = scope, NEW e, e = begun
        PROVE  HasRow(s, e)'
    <3>1. PICK r : r = NextRow
      OBVIOUS
    <3>2. \A t \in Keeping : r \in rows'[t][s]
      <4> SUFFICES ASSUME NEW t \in Keeping PROVE r \in rows'[t][s]
        OBVIOUS
      <4>1. t \in hit /\ t \in Store
        BY <2>5, KeepingIs
      <4>2. rows'[t][s] = {q \in rows[t][s] : q.id # NextRow.id} \cup {NextRow}
        BY <1>0, <2>1, <2>5, <4>1, RowsAfter
      <4> QED
        BY <3>1, <4>2
    <3>3. r \in rows'["primary"][s] /\ r.episode = e
      BY <2>5, <3>1, <3>2, KeepingIs DEF NextRow
    <3>4. Shared(r.id, s, e)'
      BY <1>0, <3>2, <3>3 DEF Shared
    <3> QED
      BY <3>3, <3>4 DEF HasRow
  <2>6. CASE Gone
    BY <1>0, <2>2, <2>4, <2>6 DEF Gone, RowsAreShared, Recorded
  <2>7. CASE AfterRow /\ Keeping \subseteq hit
    <3>1. /\ pc' = "rule" => scope' = ScopeCount
          /\ \A s \in Scopes : Recorded(s)' => Recorded(s) \/ s = scope
      BY <1>0, <2>2, <2>7, AfterRowIs DEF Recorded
    <3> QED
      BY <1>0, <2>2, <2>4, <2>5, <2>7, <3>1 DEF RowsAreShared
  <2> QED
    BY <2>3, <2>6, <2>7
<1>4. CASE Next /\ ~Advance /\ ~Rule /\ ~WriteRow
  <2>1. begun' = begun /\ ruled' = ruled /\ rows' = rows
    BY <1>4, Judged, RowsStep
  <2>2. /\ pc' = "rule" => scope' = ScopeCount
        /\ \A s \in Scopes : Recorded(s)' => Recorded(s)
    <3>1. CASE Gone
      BY <3>1 DEF Gone, Recorded
    <3>2. CASE ~Gone
      BY <1>0, <1>4, <3>2, CourseStep, AfterRowIs DEF Recorded
    <3> QED
      BY <3>1, <3>2
  <2> QED
    BY <1>0, <2>1, <2>2, SharedSame DEF RowsAreShared
<1> QED
  BY <1>1, <1>2, <1>3, <1>4

\* The row that is followed is the newest of a store that has all they share.
LEMMA NewStep ==
  ASSUME TypeInv, EvidenceInv, [Next]_vars
  PROVE  RowIsNew'
<1> USE DEF EvidenceInv, TypeInv
<1>0. Keeping' = Keeping /\ scope \in Scopes
  BY Judged DEF TypeOK, MemoryOK
<1> SUFFICES ASSUME pc' = "record", Keeping # {},
                    NEW r \in rows'["primary"][scope'], NEW e \in 0..begun',
                    Shared(r.id, scope, e)'
             PROVE  r.id.step <= last'.id.step
  BY <1>0 DEF RowIsNew
<1>1. CASE UNCHANGED vars
  <2>1. UNCHANGED <<pc, scope, last, rows, begun>>
    BY <1>1 DEF vars, memory, tables
  <2> QED
    BY <1>0, <2>1 DEF RowIsNew, Shared
<1>2. CASE Next
  <2>1. Link
    BY <1>2, CourseStep, AfterRowIs DEF Advance, Rule, Gone
  <2>2. PICK E : /\ Answered(E) /\ last' = Answer(E)
                 /\ rows' = rows /\ scope' = scope /\ E \in Raising
    BY <2>1 DEF Link, Unanswered, Gone, Answered, Ask, tables
  <2> DEFINE u == Answering(scope, E)
  <2>3. u \in Store /\ Answer(E) = Newest(u, scope)
    BY <2>2, AnsweringType DEF Answered, Answer
  <2>4. u \in Keeping
    <3>1. rows["primary"][scope] # {}
      BY <2>2
    <3>2. CASE mode = "lenient"
      <4>1. "primary" \notin E
        BY <2>2, <3>2 DEF Keeping, Raising
      <4> QED
        BY <3>1, <3>2, <4>1, KeepingIs DEF Answering
    <3>3. CASE mode = "strict"
      BY <2>3, <3>3 DEF Keeping, Stores
    <3>4. CASE mode = "single"
      BY <2>2, <2>3, <3>4 DEF Answering, Answered, Keeping, Stores
    <3> QED
      BY <3>2, <3>3, <3>4 DEF TypeOK
  <2> HIDE DEF u
  <2>5. PICK q \in rows[u][scope] : q.id = r.id
    BY <1>0, <2>2, <2>4 DEF Shared
  <2>6. Later(Newest(u, scope), q) /\ Newest(u, scope) \in Row /\ q \in Row
    BY <1>0, <2>3, <2>5, NewestType DEF TypeOK, TablesOK
  <2>7. q.id.step <= Newest(u, scope).id.step
    BY <2>6 DEF Later, Row, RowId
  <2> QED
    BY <2>2, <2>3, <2>5, <2>7
<1> QED
  BY <1>1, <1>2

\* At the start nothing is ruled.
LEMMA EvidenceInit == Init => TypeInv /\ EvidenceInv
<1> SUFFICES ASSUME Init PROVE TypeInv /\ EvidenceInv
  OBVIOUS
<1>1. TypeInv
  BY TypeInit DEF TypeInv, RowsAreOrdered, Init
<1>2. pc = "idle" /\ ruled = {} /\ begun = 0
  BY DEF Init
<1>3. \A t \in Store, n \in Episode : windows[t][n] = 0
  BY DEF Init
<1> QED
  BY <1>1, <1>2, <1>3 DEF EvidenceInv, RulingsArePast, SnapshotsAreKept,
     FlowsFollowWindows, RowsAreShared, Recorded, RowIsNew

\* Every step keeps the evidence.
LEMMA EvidenceStep == ASSUME TypeInv, EvidenceInv, [Next]_vars PROVE EvidenceInv'
BY PastStep, SnapshotStep, FlowStep, ShareStep, NewStep DEF EvidenceInv

(***************************************************************************)
(* What a ruling stands on stays where it is kept, whatever fails later    *)
(* and however many runners write under the same ids.                      *)
(***************************************************************************)
THEOREM Evidence == Spec => []EvidenceIsKept
<1>1. Init => TypeInv /\ EvidenceInv
  BY EvidenceInit
<1>2. TypeInv /\ EvidenceInv /\ [Next]_vars => (TypeInv /\ EvidenceInv)'
  BY TypeStep, OrderStep, EvidenceStep DEF TypeInv
<1>3. TypeInv /\ EvidenceInv => EvidenceIsKept
  <2> SUFFICES ASSUME EvidenceInv, NEW t \in Keeping, NEW e \in ruled
               PROVE  /\ e \in snapshots[t]
                      /\ \A s \in Scopes : \E r \in rows[t][s] : r.episode = e
                      /\ \A n \in Episode : windows[t][n] = e => flows[t][n] = e
    BY DEF EvidenceIsKept, Keeping
  <2>1. e \in snapshots[t]
    BY DEF EvidenceInv, SnapshotsAreKept
  <2>2. ASSUME NEW s \in Scopes PROVE \E r \in rows[t][s] : r.episode = e
    BY DEF EvidenceInv, RowsAreShared, HasRow, Shared
  <2>3. \A n \in Episode : windows[t][n] = e => flows[t][n] = e
    BY DEF EvidenceInv, FlowsFollowWindows
  <2> QED
    BY <2>1, <2>2, <2>3
<1> QED
  BY <1>1, <1>2, <1>3, PTL DEF Spec

-----------------------------------------------------------------------------
(* The rulings.                                                            *)

\* A quotient of natural numbers is one.
LEMMA QuotientIsNat ==
  ASSUME NEW a \in Nat, NEW n \in Nat \ {0}
  PROVE  a \div n \in Nat
OBVIOUS

\* The gravity of the invariants that failed is not negative.
LEMMA GravityIsNat ==
  ASSUME NEW F, IsFiniteSet(F)
  PROVE  Gravity(F) \in Nat
<1> DEFINE critical == {f \in F : f.weight = Critical}
           n == Cardinality(F)
           a == High * n + (Critical - High) * Cardinality(critical)
<1>1. n \in Nat /\ Cardinality(critical) \in Nat
  BY FS_Subset, FS_CardinalityType
<1>2. a \in Nat
  BY <1>1 DEF High, Critical
<1>3. Gravity(F) = IF n = 0 THEN 0 ELSE a \div n
  BY DEF Gravity
<1> HIDE DEF a, n
<1> QED
  BY <1>1, <1>2, <1>3, QuotientIsNat

\* A score is not negative.
LEMMA UnitIsNat == ASSUME NEW n \in Unit PROVE n \in Nat
BY DEF Unit

\* Nor is the positive part of a signed score.
LEMMA PositiveIsNat == ASSUME NEW n \in Signed PROVE Positive(-n) \in Nat
BY DEF Positive, Signed

\* An episode only adds to a risk.
LEMMA RiseIsNat == ASSUME NEW x \in Impression PROVE Rise(x) \in Nat
<1>1. /\ x.drift_identity \in Unit /\ x.drift_policy \in Unit
      /\ x.delta_purity \in Unit
  BY DEF Impression
<1>2. /\ x.delta_modification \in Unit /\ x.erosion \in Unit
      /\ x.renorm_residual \in Unit
  BY DEF Impression
<1>3. Positive(-x.delta_viability) \in Nat
  <2>1. x.delta_viability \in Signed
    BY DEF Impression
  <2> QED
    BY <2>1, PositiveIsNat
<1>4. Gravity(Failures(x)) \in Nat
  BY FailuresFinite, GravityIsNat
<1>5. /\ x.drift_identity \in Nat /\ x.drift_policy \in Nat
      /\ x.delta_purity \in Nat /\ x.delta_modification \in Nat
      /\ x.erosion \in Nat /\ x.renorm_residual \in Nat
  BY <1>1, <1>2, UnitIsNat
<1> QED
  BY <1>3, <1>4, <1>5 DEF Rise

\* A block decays to no less than 7820.
LEMMA GammaOfBlock ==
  ASSUME NEW x \in Impression, NEW risk \in Int
  PROVE  /\ Gamma(risk, x) <= 10000
         /\ risk >= 8500 => Gamma(risk, x) >= 7820
<1> DEFINE n == (92 * risk + Rise(x) + 50) \div 100
<1>1. Rise(x) \in Nat
  BY RiseIsNat
<1>2. n \in Int /\ (risk >= 8500 => n >= 7820)
  BY <1>1
<1>3. Gamma(risk, x) = IF n < 10000 THEN n ELSE 10000
  BY DEF Gamma, AtMost
<1> HIDE DEF n
<1> QED
  BY <1>2, <1>3

\* Every non-empty set of naturals has a least member.
LEMMA LeastOf ==
  ASSUME NEW S \in SUBSET Nat, S # {}
  PROVE  \E x \in S : \A y \in S : x <= y
<1> DEFINE R == OpToRel(<, Nat)
<1>1. IsWellFoundedOn(R, Nat)
  BY NatLessThanWellFounded, Zenon
<1>2. \A x, y \in Nat : y < x => <<y, x>> \in R
  BY Zenon DEF OpToRel
<1> HIDE DEF R
<1>3. PICK x \in S : \A y \in S : ~(<<y, x>> \in R)
  BY <1>1, WFMin
<1>4. \A y \in S : ~(y < x)
  BY <1>2, <1>3
<1>5. \A y \in S : x \in Nat /\ y \in Nat
  OBVIOUS
<1> QED
  BY <1>3, <1>4, <1>5

\* With no risk above 10000, the worst is there, and none is worse.
LEMMA WorstIs ==
  ASSUME known \in [Scopes -> Int], \A s \in Scopes : known[s] <= 10000
  PROVE  \A s \in Scopes : known[s] <= Worst /\ Worst \in Int
<1> DEFINE risks == {known[s] : s \in Scopes}
           room == {k \in Nat : 10000 - k \in risks}
<1>1. \A r \in risks : r \in Int /\ r <= 10000
  OBVIOUS
<1>2. known[1] \in risks
  OBVIOUS
<1> HIDE DEF risks
<1>3. \A r \in risks : 10000 - r \in room
  <2> SUFFICES ASSUME NEW r \in risks PROVE 10000 - r \in room
    OBVIOUS
  <2>1. 10000 - r \in Nat /\ 10000 - (10000 - r) = r
    BY <1>1
  <2> QED
    BY <2>1
<1>4. PICK m \in room : \A k \in room : m <= k
  <2>1. room \in SUBSET Nat /\ room # {}
    BY <1>2, <1>3
  <2> HIDE DEF room
  <2> QED
    BY <2>1, LeastOf
<1>5. PICK r \in risks : r = 10000 - m
  OBVIOUS
<1>6. \A q \in risks : q <= r
  <2> SUFFICES ASSUME NEW q \in risks PROVE q <= r
    OBVIOUS
  <2>1. m <= 10000 - q /\ m \in Nat
    BY <1>3, <1>4
  <2> QED
    BY <1>1, <1>5, <2>1
<1>7. Worst = CHOOSE b \in risks : \A s \in Scopes : known[s] <= b
  BY DEF Worst, risks
<1>8. \A s \in Scopes : known[s] \in risks
  BY DEF risks
<1>9. Worst \in risks /\ \A s \in Scopes : known[s] <= Worst
  BY <1>6, <1>7, <1>8
<1> QED
  BY <1>1, <1>9

RulingInv == MemoryInv /\ EvidenceInv /\ RowsSinceRuling

\* The newest row of the primary store stays, or the next update follows it.
LEMMA NewestMoves ==
  ASSUME MemoryInv, Sound, [Next]_vars, NEW s \in Scopes
  PROVE  \/ Newest("primary", s)' = Newest("primary", s)
         \/ /\ WriteRow /\ s = scope /\ Newest("primary", s)' = NextRow
            /\ NextRow.id.step = Newest("primary", s).id.step + 1
            /\ NextRow.score = known[s]
            /\ \E x \in Impressions : known[s] = Gamma(Newest("primary", s).score, x)
<1> USE DEF MemoryInv
<1>1. CASE rows' = rows
  BY <1>1, NewestSame
<1>2. CASE rows' # rows
  <2>1. PICK hit \in SUBSET Store : rows' = PutRow(hit, scope, NextRow)
    BY <1>2, RowsStep
  <2>2. WriteRow /\ pc = "record"
    BY <1>2, RowsStep
  <2>3. CASE "primary" \notin hit
    <3>1. rows'["primary"][s] = rows["primary"][s]
      BY <2>1, <2>3, RowsAfter DEF TypeInv
    <3> QED
      BY <3>1, NewestSame
  <2>4. CASE "primary" \in hit
    <3>1. Newest("primary", s)' = IF s = scope THEN NextRow ELSE Newest("primary", s)
      BY <2>1, <2>2, <2>4, RowWritten
    <3>2. ASSUME s = scope
          PROVE  /\ last = Newest("primary", s)
                 /\ \E x \in Impressions : known[s] = Gamma(Newest("primary", s).score, x)
      BY <2>2, <3>2 DEF RowsAreMemory, InHand
    <3>3. NextRow.id.step = last.id.step + 1 /\ NextRow.score = known[scope]
      BY DEF NextRow
    <3> QED
      BY <2>2, <3>1, <3>2, <3>3
  <2> QED
    BY <2>3, <2>4
<1> QED
  BY <1>1, <1>2

\* The newest row of a scope has a score and a step.
LEMMA NewestNumbers ==
  ASSUME MemoryInv, NEW s \in Scopes
  PROVE  Newest("primary", s).score \in Int /\ Newest("primary", s).id.step \in Int
<1>1. Newest("primary", s) \in Row
  BY NewestType DEF MemoryInv, TypeInv
<1> QED
  BY <1>1 DEF Row, RowId

\* At the start nothing is ruled, and no risk is high.
LEMMA RulingInit == Init => RowsSinceRuling
<1> SUFFICES ASSUME Init PROVE RowsSinceRuling
  OBVIOUS
<1>1. \A s \in Scopes : Newest("primary", s) = NoRow
  BY DEF Init, Newest
<1>2. pc = "idle" /\ ruling = NoRuling
  BY DEF Init
<1>3. NoRow.score = 1500
  BY DEF NoRow, Prior
<1> QED
  BY <1>1, <1>2, <1>3 DEF RowsSinceRuling, NoRuling, Recorded

\* What the rows have become since the last ruling, scope by scope.
LEMMA SinceIs ==
  ASSUME RowsSinceRuling, Sound, NEW s \in Scopes
  PROVE  /\ Newest("primary", s).score <= 10000
         /\ Recorded(s) => known[s] = Newest("primary", s).score
         /\ ruling.risks[s] >= 8500 =>
              /\ Newest("primary", s).id.step >= ruling.steps[s]
              /\ Newest("primary", s).id.step = ruling.steps[s]
                   => Newest("primary", s).score >= 8500
              /\ Newest("primary", s).id.step = ruling.steps[s] + 1
                   => Newest("primary", s).score >= 7820
BY DEF RowsSinceRuling

\* A ruling takes the newest rows as they are; a new row follows the newest one.
LEMMA RulingStep ==
  ASSUME RulingInv, [Next]_vars
  PROVE  RowsSinceRuling'
<1> USE DEF RulingInv
<1>0. /\ TypeInv /\ known \in [Scopes -> Int] /\ scope \in Scopes /\ Sound' = Sound
      /\ {ruling.risks, ruling.steps} \subseteq [Scopes -> Int]
  <2>1. UNCHANGED rigid
    BY DEF Next, vars, Advance, WriteSnapshot, WriteWindow, WriteFlow, Assess, Link,
           WriteRow, WriteAtlas, Rule, Stop, At
  <2> QED
    BY <2>1 DEF MemoryInv, TypeInv, TypeOK, MemoryOK, Sound, rigid, RowsSinceRuling
<1>1. CASE Rule
  <2>1. /\ ruling'.risks = known /\ pc' = "idle" /\ rows' = rows
        /\ ruling'.steps = [s \in Scopes |-> Newest("primary", s).id.step]
        /\ pc = "rule"
    BY <1>1 DEF Rule, At, tables
  <2>2. \A s \in Scopes : Recorded(s)
    BY <2>1 DEF EvidenceInv, RowsAreShared, Recorded
  <2>3. ruling'.risks \in [Scopes -> Int] /\ ruling'.steps \in [Scopes -> Int]
    BY <1>0, <2>1, NewestNumbers
  <2> SUFFICES ASSUME Sound, NEW s \in Scopes
               PROVE  LET newest == Newest("primary", s)'
                      IN  /\ newest.score <= 10000
                          /\ Recorded(s)' => known'[s] = newest.score
                          /\ ruling'.risks[s] >= 8500 =>
                               /\ newest.id.step >= ruling'.steps[s]
                               /\ newest.id.step = ruling'.steps[s] => newest.score >= 8500
                               /\ newest.id.step = ruling'.steps[s] + 1
                                    => newest.score >= 7820
    BY <1>0, <2>3 DEF RowsSinceRuling
  <2>4. Newest("primary", s)' = Newest("primary", s)
    BY <2>1, NewestSame
  <2>5. known[s] = Newest("primary", s).score /\ Newest("primary", s).score <= 10000
    BY <2>2, SinceIs
  <2>6. ~Recorded(s)'
    BY <2>1 DEF Recorded
  <2>7. Newest("primary", s).score \in Int /\ Newest("primary", s).id.step \in Int
    BY NewestNumbers
  <2> QED
    BY <2>1, <2>4, <2>5, <2>6, <2>7
<1>2. CASE ~Rule
  <2>1. ruling' = ruling
    BY <1>2 DEF Next, vars, Advance, WriteSnapshot, WriteWindow, WriteFlow, Assess, Link,
         WriteRow, WriteAtlas, Stop, SameRuling
  <2> SUFFICES ASSUME Sound, NEW s \in Scopes
               PROVE  LET newest == Newest("primary", s)'
                      IN  /\ newest.score <= 10000
                          /\ Recorded(s)' => known'[s] = newest.score
                          /\ ruling.risks[s] >= 8500 =>
                               /\ newest.id.step >= ruling.steps[s]
                               /\ newest.id.step = ruling.steps[s] => newest.score >= 8500
                               /\ newest.id.step = ruling.steps[s] + 1
                                    => newest.score >= 7820
    BY <1>0, <2>1 DEF RowsSinceRuling
  <2> DEFINE old == Newest("primary", s)
  <2>2. /\ old.score \in Int /\ old.id.step \in Int /\ old.score <= 10000
        /\ Recorded(s) => known[s] = old.score
        /\ ruling.risks[s] >= 8500 =>
             /\ old.id.step >= ruling.steps[s]
             /\ old.id.step = ruling.steps[s] => old.score >= 8500
             /\ old.id.step = ruling.steps[s] + 1 => old.score >= 7820
        /\ ruling.steps[s] \in Int
    BY <1>0, NewestNumbers DEF RowsSinceRuling
  <2>3. CASE Newest("primary", s)' = old
    <3>1. Recorded(s)' => known'[s] = old.score
      <4>1. CASE UNCHANGED vars
        BY <2>2, <4>1 DEF vars, memory, Recorded
      <4>2. CASE Advance \/ Gone
        BY <4>2 DEF Advance, Gone, Recorded
      <4>3. CASE Next /\ ~Advance /\ ~Gone /\ ~WriteRow
        <5>1. Recorded(s)' => Recorded(s)
          BY <1>0, <1>2, <4>3, CourseStep, AfterRowIs DEF Recorded, TypeInv
        <5>2. known'[s] = known[s] \/ ~Recorded(s)
          <6>1. CASE Assess
            <7>1. PICK score : Judge(score)
              BY <4>3, <6>1 DEF Assess, Unanswered
            <7>2. pc = "assess" /\ s \in Int
              BY <6>1 DEF Assess, At, Scopes
            <7>3. CASE s = scope
              BY <7>2, <7>3 DEF Recorded
            <7>4. CASE s # scope
              BY <1>0, <7>1, <7>4 DEF Judge
            <7> QED
              BY <7>3, <7>4
          <6>2. CASE Link
            BY <4>3, <6>2 DEF Link, Unanswered
          <6>3. CASE ~Assess /\ ~Link
            BY <1>2, <4>3, <6>3, OtherKnows DEF vars, memory
          <6> QED
            BY <6>1, <6>2, <6>3
        <5> QED
          BY <2>2, <5>1, <5>2
      <4>4. CASE WriteRow /\ ~Gone
        <5>1. pc = "record" /\ AfterRow /\ known' = known
          BY <4>4 DEF WriteRow, At, Write, AfterRow, NextScope, Goto, memory
        <5>2. Recorded(s)' => Recorded(s) \/ s = scope
          BY <1>0, <5>1, AfterRowIs DEF Recorded, TypeInv
        <5>3. s # scope
          <6>1. \E hit \in SUBSET Store :
                   "primary" \in hit /\ rows' = PutRow(hit, scope, NextRow)
            BY <4>4, SoundWrite DEF WriteRow, MemoryInv, TypeInv, TypeOK
          <6>2. s = scope => Newest("primary", s)' = NextRow
            BY <5>1, <6>1, RowWritten
          <6>3. s = scope => last = old
            BY <5>1 DEF MemoryInv, RowsAreMemory
          <6>4. NextRow.id.step = last.id.step + 1
            BY DEF NextRow
          <6> QED
            BY <2>2, <2>3, <6>2, <6>3, <6>4
        <5> QED
          BY <2>2, <5>1, <5>2, <5>3
      <4> QED
        BY <4>1, <4>2, <4>3, <4>4
    <3> QED
      BY <2>2, <2>3, <3>1
  <2>4. CASE Newest("primary", s)' # old
    <3>1. /\ WriteRow /\ s = scope /\ Newest("primary", s)' = NextRow
          /\ NextRow.id.step = old.id.step + 1 /\ NextRow.score = known[s]
      BY <2>4, NewestMoves
    <3>2. PICK x \in Impressions : known[s] = Gamma(old.score, x)
      BY <2>4, NewestMoves
    <3>3. x \in Impression
      BY CourtAssumption
    <3>4. known[s] <= 10000 /\ (old.score >= 8500 => known[s] >= 7820)
      BY <2>2, <3>2, <3>3, GammaOfBlock
    <3>5. known' = known \/ Gone
      BY <3>1 DEF WriteRow, Write, AfterRow, NextScope, Goto, memory
    <3>6. Recorded(s)' => known'[s] = NextRow.score
      BY <3>1, <3>5 DEF Gone, Recorded
    <3> QED
      BY <2>2, <3>1, <3>4, <3>6
  <2> QED
    BY <2>3, <2>4
<1> QED
  BY <1>1, <1>2

\* From 6500 on, no scope is safe.
LEMMA WorstRules ==
  ASSUME NEW x, NEW worst \in Int, NEW organism, worst >= 6500
  PROVE  CanonicalScope(x, worst, organism) \in {"blocked", "quarantine_only"}
BY DEF CanonicalScope

(***************************************************************************)
(* With a sound storage a block for risk is followed by a quarantine at    *)
(* least, whatever runner rules on the next row.                           *)
(***************************************************************************)
THEOREM BlocksLast == Spec => BlockOutlivesRunner
<1>1. RulingInv /\ [Next]_vars =>
        [Sound /\ ruling' # ruling =>
           \A s \in Scopes :
             ruling.risks[s] >= 8500 /\ ruling'.steps[s] = ruling.steps[s] + 1
               => ruling'.scope \in {"blocked", "quarantine_only"}]_vars
  <2> SUFFICES ASSUME RulingInv, [Next]_vars, Sound, ruling' # ruling, NEW s \in Scopes,
                      ruling.risks[s] >= 8500, ruling'.steps[s] = ruling.steps[s] + 1
               PROVE  ruling'.scope \in {"blocked", "quarantine_only"}
    OBVIOUS
  <2> USE DEF RulingInv
  <2>1. Rule
    BY DEF Next, vars, Advance, WriteSnapshot, WriteWindow, WriteFlow, Assess, Link,
           WriteRow, WriteAtlas, Stop, SameRuling
  <2>2. /\ ruling'.scope = CanonicalScope(impression, Worst, known[1])
        /\ ruling'.steps[s] = Newest("primary", s).id.step /\ pc = "rule"
    BY <2>1 DEF Rule, At
  <2>3. \A k \in Scopes : Recorded(k)
    BY <2>2 DEF EvidenceInv, RowsAreShared, Recorded
  <2>4. \A k \in Scopes : known[k] = Newest("primary", k).score /\ known[k] <= 10000
    BY <2>3, SinceIs
  <2>5. Newest("primary", s).score >= 7820
    BY <2>2, SinceIs
  <2>6. known \in [Scopes -> Int]
    BY DEF MemoryInv, TypeInv, TypeOK, MemoryOK
  <2>7. known[s] <= Worst /\ Worst \in Int /\ known[s] \in Int
    BY <2>4, <2>6, WorstIs
  <2>8. Worst >= 6500
    BY <2>4, <2>5, <2>7
  <2> QED
    BY <2>2, <2>7, <2>8, WorstRules
<1>2. Spec => []RulingInv
  <2>1. Init => RulingInv
    BY RulingInit, EvidenceInit, MemoryInit DEF RulingInv
  <2>2. RulingInv /\ [Next]_vars => RulingInv'
    BY TypeStep, OrderStep, MemoryStep, EvidenceStep, RulingStep
       DEF RulingInv, MemoryInv, TypeInv
  <2> QED
    BY <2>1, <2>2, PTL DEF Spec
<1> QED
  BY <1>1, <1>2, PTL DEF Spec, BlockOutlivesRunner
=============================================================================
