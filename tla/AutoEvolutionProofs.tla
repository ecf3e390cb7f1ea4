------------------------- MODULE AutoEvolutionProofs -------------------------
(***************************************************************************)
(* Proofs about AutoEvolution for every length of a block, window and      *)
(* cooldown, every set of experiences and every life that is continued:    *)
(* the types, the invariant of trials, that a rollback is the only way     *)
(* back for the organism's clock, how trials end and on what they are      *)
(* judged, and the refinement of KnobTrial.                                *)
(***************************************************************************)
EXTENDS AutoEvolution, TLAPS

\* The units of the scores.
LEMMA WholeIsANumber == Whole \in Nat /\ WholeDrift \in Nat
BY DEF Whole, WholeDrift

\* An episode makes an organism of an organism, one episode older.
LEMMA AdvanceType ==
  ASSUME NEW s \in Organism, NEW e \in Experience, NEW r \in Nat, NEW n \in Nat
  PROVE  /\ Advance(s, e, r, FALSE, n) \in Organism
         /\ Advance(s, e, r, FALSE, n).count = s.count + 1
         /\ Advance(s, e, r, FALSE, n).timestamp = n
<1>0. /\ s.count \in Nat /\ s.margin \in Int /\ s.degradation \in Int
      /\ s.debt \in Nat /\ s.drift \in Int
      /\ e.belief \in 0..Whole /\ e.breaches \in 0..5
      /\ e.gap \in Int /\ e.shift \in Int
  <2>1. /\ s.count \in Nat /\ s.margin \in Int /\ s.degradation \in Int
        /\ s.debt \in Nat /\ s.drift \in Int
    BY WholeIsANumber DEF Organism
  <2>2. /\ e.belief \in 0..Whole /\ e.breaches \in 0..5
        /\ e.gap \in Int /\ e.shift \in Int
    BY WholeIsANumber DEF Experience
  <2> QED BY <2>1, <2>2
<1>1. Factor(e, r) \in 600..1400
  <2>1. 1150 - e.gap - 30 * r \in Int
    BY <1>0
  <2> QED BY <2>1 DEF Factor, Within
<1>2. Within(0, Whole, s.margin + (-3 * Factor(e, r))) \in 0..Whole
  <2>1. s.margin + (-3 * Factor(e, r)) \in Int
    BY <1>0, <1>1
  <2> QED BY <2>1, WholeIsANumber DEF Within
<1>3. Ageing(r) \in Nat
  BY DEF Ageing
<1>4. Within(0, Whole, s.degradation + Ageing(r)) \in 0..Whole
  <2>1. s.degradation + Ageing(r) \in Int
    BY <1>0, <1>3
  <2> QED BY <2>1, WholeIsANumber DEF Within
<1>5. Within(0, WholeDrift, s.drift + (e.shift * Factor(e, r) + 500) \div 1000)
        \in 0..WholeDrift
  <2>1. e.shift * Factor(e, r) \in Int
    <3>1. PICK f \in Int : f = Factor(e, r)
      BY <1>1
    <3>2. PICK d \in Int : d = e.shift
      BY <1>0
    <3> QED BY <3>1, <3>2
  <2>2. (e.shift * Factor(e, r) + 500) \div 1000 \in Int
    BY <2>1
  <2>3. s.drift + (e.shift * Factor(e, r) + 500) \div 1000 \in Int
    BY <1>0, <2>2
  <2> QED BY <2>3, WholeIsANumber DEF Within
<1>6. s.debt + Ageing(r) \in Nat
  BY <1>0, <1>3
<1> QED
  BY <1>0, <1>2, <1>4, <1>5, <1>6 DEF Advance, Organism

\* What an episode brings to the decision.
LEMMA FreshType ==
  ASSUME TypeOK, NEW e \in Experiences, NEW r \in Retrieved
  PROVE  /\ Fresh(e, r) \in Organism
         /\ Fresh(e, r).count = state.count + 1
         /\ Fresh(e, r).timestamp = certificates + 1
<1>1. e \in Experience /\ r \in Nat /\ state \in Organism /\ certificates + 1 \in Nat
  BY ConstantsAssumption DEF TypeOK, Retrieved, Knobs
<1> QED
  BY <1>1, AdvanceType DEF Fresh

\* Tightening one knob yields knobs, at least as tight.
LEMMA DiagnosisType ==
  ASSUME knobs \in Knobs, NEW r \in Retrieved
  PROVE  Diagnosis(r) \in Knobs /\ AsLoose(knobs, Diagnosis(r))
<1> DEFINE k == knobs.limit
<1>1. k \in 1..3 /\ knobs.cross \in BOOLEAN
  BY DEF Knobs
<1>2. CASE r >= 2 /\ k > 1
  <2>1. Diagnosis(r) = [knobs EXCEPT !.limit = k - 1]
    BY <1>2 DEF Diagnosis
  <2>2. k - 1 \in 1..3 /\ k >= k - 1
    BY <1>1, <1>2
  <2> QED BY <2>1, <2>2, <1>1 DEF Knobs, AsLoose
<1>3. CASE ~(r >= 2 /\ k > 1)
  <2>1. Diagnosis(r) = [knobs EXCEPT !.cross = FALSE]
    BY <1>3 DEF Diagnosis
  <2>2. [knobs EXCEPT !.cross = FALSE] \in Knobs
    BY DEF Knobs
  <2>3. [knobs EXCEPT !.cross = FALSE].limit = k
    BY DEF Knobs
  <2>4. ~[knobs EXCEPT !.cross = FALSE].cross
    BY DEF Knobs
  <2> QED BY <2>1, <2>2, <2>3, <2>4, <1>1 DEF AsLoose
<1> QED
  BY <1>2, <1>3
-----------------------------------------------------------------------------
\* What holds of the life before any decision: the episode is counted.
LEMMA ClosesType ==
  ASSUME TypeOK, Closes
  PROVE  /\ certificates' \in Nat /\ ioc' \in Int /\ verdict' \in Verdicts
         /\ lived' \in 0..Block /\ block' \in Nat /\ mode' \in BOOLEAN
         /\ evidence' \in Nat \cup {Unseeded}
<1>1. evidence' \in Nat
  BY DEF Closes, Counted, TypeOK, Unseeded
<1> QED
  BY <1>1, ConstantsAssumption DEF Closes, TypeOK

\* Each decision keeps the types.
LEMMA DecideType ==
  ASSUME TypeOK, Closes, NEW r \in Retrieved, NEW s \in Organism, Decide(s, r)
  PROVE  TypeOK'
<1> USE DEF TypeOK
<1> DEFINE Kept == /\ state' \in Organism /\ knobs' \in Knobs
                   /\ consecutive' \in Nat /\ cooldown' \in 0..Cooldown
                   /\ checkpoint' \in Checkpoints \cup {NoCheckpoint}
                   /\ monitor' \in Monitors \cup {NoMonitor}
                   /\ lineage' \in [generation : Nat, rollbacks : Nat]
                   /\ trial_ioc' \in Int
<1>0. ioc' \in Int /\ Cooldown \in Nat /\ PostWindow \in Nat /\ PostWindow >= 1
  BY ClosesType, ConstantsAssumption
<1>1. CASE Rollback(s)
  BY <1>0, <1>1, ClosesType DEF Rollback, Checkpoints
<1>2. CASE Watch(s)
  <2>1. monitor \in Monitors /\ Gain \in Int
    BY <1>0, <1>2 DEF Watch, Monitored, Monitors, Gain
  <2>2. [monitor EXCEPT !.left = @ - 1, !.gain = Gain] \in Monitors
    <3>1. monitor.left - 1 \in 1..PostWindow
      BY <2>1, <1>0, <1>2 DEF Watch, Monitors
    <3> QED BY <2>1, <3>1 DEF Monitors
  <2>3. Kept
    BY <2>2, <1>2 DEF Watch
  <2> QED BY <2>3, ClosesType
<1>3. CASE Revert(s)
  BY <1>0, <1>3, ClosesType DEF Revert, Monitored, Monitors
<1>4. CASE Commit(s)
  BY <1>4, ClosesType DEF Commit, Monitored
<1>5. CASE Rest(s)
  BY <1>0, <1>5, ClosesType DEF Rest, Checkpoints
<1>6. CASE Endure(s)
  BY <1>0, <1>6, ClosesType DEF Endure, Ailing
<1>7. CASE Blocked(s) \/ NoCandidate(s, r) \/ Quarantined(s, r)
  BY <1>0, <1>7, ClosesType
     DEF Blocked, NoCandidate, Quarantined, Impatient, Ailing, Abstained
<1>8. CASE Apply(s, r)
  <2>1. knobs' \in Knobs
    BY <1>8, DiagnosisType DEF Apply
  <2>2. [left |-> PostWindow, knobs |-> knobs, state |-> s, gain |-> 0] \in Monitors
    BY <1>0 DEF Monitors
  <2> QED BY <2>1, <2>2, <1>0, <1>8, ClosesType DEF Apply, Impatient, Ailing
<1> QED
  BY <1>1, <1>2, <1>3, <1>4, <1>5, <1>6, <1>7, <1>8, ClosesType DEF Decide
\* The types of the controller, the knobs and the organism, in lives of any
\* length.
THEOREM TypeInvariant == Spec => []TypeOK
<1>1. Init => TypeOK
  BY ConstantsAssumption
     DEF Init, TypeOK, Defaults, Knobs, NoCheckpoint, NoMonitor, Unseeded
<1>2. TypeOK /\ [Next]_vars => TypeOK'
  <2> SUFFICES ASSUME TypeOK, [Next]_vars PROVE TypeOK'
    OBVIOUS
  <2>1. CASE \E e \in Experiences, retrieved \in Retrieved : Episode(e, retrieved)
    BY <2>1, FreshType, DecideType DEF Episode
  <2>2. CASE NextBlock
    BY <2>2, ConstantsAssumption
       DEF NextBlock, NewController, TypeOK, Defaults, Knobs
  <2>3. CASE UNCHANGED vars
    BY <2>3 DEF vars, controller, TypeOK
  <2> QED BY <2>1, <2>2, <2>3 DEF Next
<1> QED
  BY <1>1, <1>2, PTL DEF Spec
-----------------------------------------------------------------------------
\* As loose as is a preorder.
LEMMA AsLooseOrder ==
  ASSUME NEW k \in Knobs, NEW l \in Knobs, NEW m \in Knobs
  PROVE  /\ AsLoose(k, k)
         /\ AsLoose(k, l) /\ AsLoose(l, m) => AsLoose(k, m)
BY DEF AsLoose, Knobs

\* Each decision keeps the invariant of the trials.
LEMMA DecideTrial ==
  ASSUME TypeOK, TrialInv, Closes, NEW r \in Retrieved,
         NEW s \in Organism, s.timestamp = certificates + 1, Decide(s, r)
  PROVE  TrialInv'
<1>0. /\ certificates \in Nat /\ certificates' = certificates + 1
      /\ ioc \in Int /\ ioc' \in Int /\ trial_ioc \in Int
      /\ PostWindow \in Nat /\ PostWindow >= 1
      /\ knobs \in Knobs /\ state.timestamp \in Nat
  BY ClosesType, ConstantsAssumption DEF TypeOK, Closes, Organism
<1>1. evidence' <= certificates'
  BY <1>0 DEF Closes, Counted, TrialInv, InThePast, TypeOK, Unseeded
<1>2. monitor # NoMonitor =>
        /\ monitor.left \in Nat /\ monitor.gain \in Int
        /\ monitor.knobs \in Knobs /\ monitor.state.timestamp \in Nat
        /\ monitor.left >= 1 /\ monitor.left <= PostWindow
  BY <1>0 DEF TypeOK, Monitors, Organism
<1>3. checkpoint # NoCheckpoint =>
        /\ checkpoint.knobs \in Knobs /\ checkpoint.state.timestamp \in Nat
        /\ checkpoint.state.timestamp <= certificates
        /\ AsLoose(checkpoint.knobs, checkpoint.knobs)
  BY AsLooseOrder DEF TypeOK, Checkpoints, Organism, TrialInv, InThePast
<1>4. CASE Rollback(s)
  BY <1>0, <1>1, <1>3, <1>4
     DEF Rollback, TrialInv, OnTrial, InReserve, InThePast
<1>5. CASE Watch(s)
  BY <1>0, <1>1, <1>2, <1>3, <1>5
     DEF Watch, Monitored, Gain, TrialInv, OnTrial, InReserve, InThePast,
         TypeOK, Monitors
<1>6. CASE Revert(s)
  BY <1>0, <1>1, <1>2, <1>3, <1>6
     DEF Revert, Monitored, TrialInv, OnTrial, InReserve, InThePast
<1>7. CASE Commit(s)
  BY <1>0, <1>1, <1>3, <1>7
     DEF Commit, TrialInv, OnTrial, InReserve, InThePast
<1>8. CASE Rest(s)
  BY <1>0, <1>1, <1>8, AsLooseOrder
     DEF Rest, TrialInv, OnTrial, InReserve, InThePast
<1>9. CASE Endure(s)
  BY <1>0, <1>1, <1>3, <1>9
     DEF Endure, Ailing, TrialInv, OnTrial, InReserve, InThePast
<1>10. CASE Blocked(s) \/ NoCandidate(s, r) \/ Quarantined(s, r)
  BY <1>0, <1>1, <1>3, <1>10
     DEF Blocked, NoCandidate, Quarantined, Impatient, Ailing, Abstained,
         TrialInv, OnTrial, InReserve, InThePast
<1>11. CASE Apply(s, r)
  <2>1. /\ AsLoose(knobs, knobs') /\ knobs # knobs' /\ knobs' \in Knobs
    BY <1>11, <1>0, DiagnosisType DEF Apply
  <2>2. /\ checkpoint' = checkpoint /\ state' = s /\ ~RollbackRequired(s)
        /\ trial_ioc' = ioc'
        /\ monitor'.left = PostWindow /\ monitor'.knobs = knobs
        /\ monitor'.state = s /\ monitor'.gain = 0
    BY <1>11 DEF Apply, Impatient, Ailing
  <2>3. OnTrial'
    <3>1. s.timestamp = certificates' - (PostWindow - PostWindow)
      BY <1>0
    <3>2. ioc' - ioc' = 0
      <4>1. \A x \in Int : x - x = 0
        OBVIOUS
      <4> QED BY <4>1, <1>0, Zenon
    <3> QED BY <2>1, <2>2, <3>1, <3>2, Zenon DEF OnTrial
  <2>4. InReserve'
    BY <2>1, <2>2, <1>0, <1>3, AsLooseOrder DEF InReserve, TrialInv
  <2>5. InThePast'
    BY <2>2, <1>0, <1>1, <1>3 DEF InThePast
  <2> QED BY <2>3, <2>4, <2>5 DEF TrialInv
<1> QED
  BY <1>4, <1>5, <1>6, <1>7, <1>8, <1>9, <1>10, <1>11 DEF Decide
\* What holds of a trial, its backup and the healthy point, whatever the
\* experiences and however long the life.
THEOREM TrialInvariant == Spec => []TrialInv
<1>1. Init => TrialInv
  BY ConstantsAssumption
     DEF Init, TrialInv, OnTrial, InReserve, InThePast, Organism, Unseeded
<1>2. TypeOK /\ TrialInv /\ [Next]_vars => TrialInv'
  <2> SUFFICES ASSUME TypeOK, TrialInv, [Next]_vars PROVE TrialInv'
    OBVIOUS
  <2>1. CASE \E e \in Experiences, retrieved \in Retrieved : Episode(e, retrieved)
    BY <2>1, FreshType, DecideTrial DEF Episode
  <2>2. CASE NextBlock
    BY <2>2 DEF NextBlock, NewController, TypeOK, Unseeded,
                TrialInv, OnTrial, InReserve, InThePast
  <2>3. CASE UNCHANGED vars
    BY <2>3 DEF vars, controller, TrialInv, OnTrial, InReserve, InThePast
  <2> QED BY <2>1, <2>2, <2>3 DEF Next
<1> QED
  BY <1>1, <1>2, TypeInvariant, PTL DEF Spec

\* With a healthy point in hand, a trial ends kept after its whole window or
\* undone with a rollback on record.
THEOREM TrialsEnd == Spec => TrialsEndJudgedAfterHealth
<1> DEFINE A == TrialEnds /\ checkpoint # NoCheckpoint =>
                  \/ monitor.left = 1 /\ knobs' = knobs
                  \/ Undone /\ RollbackRecorded
<1>1. TypeOK /\ TrialInv /\ [Next]_vars => [A]_vars
  <2> SUFFICES ASSUME TypeOK, TrialInv, Next, TrialEnds,
                      checkpoint # NoCheckpoint
               PROVE  \/ monitor.left = 1 /\ knobs' = knobs
                      \/ Undone /\ RollbackRecorded
    OBVIOUS
  <2>1. PICK e \in Experiences, r \in Retrieved : Episode(e, r)
    <3>1. CASE NextBlock
      BY <3>1 DEF NextBlock, TrialEnds, TypeOK
    <3> QED BY <3>1 DEF Next
  <2> DEFINE s == Fresh(e, r)
  <2>2. lineage.rollbacks \in Nat /\ lineage \in [generation : Nat, rollbacks : Nat]
    BY DEF TypeOK
  <2>3. CASE Rollback(s)
    BY <2>2, <2>3 DEF Rollback, TrialInv, InReserve, TrialEnds, Undone,
                      RollbackRecorded
  <2>4. CASE Revert(s)
    <3>1. AsLoose(monitor.knobs, monitor.knobs)
      BY AsLooseOrder DEF TrialEnds, TypeOK, Monitors
    <3> QED BY <2>2, <2>4, <3>1 DEF Revert, Undone, RollbackRecorded
  <2>5. CASE Commit(s)
    BY <2>5 DEF Commit
  <2>6. CASE Watch(s)
    BY <2>6 DEF Watch, TrialEnds, NoMonitor, TypeOK, Monitors
  <2> QED
    BY <2>1, <2>3, <2>4, <2>5, <2>6
       DEF Episode, Decide, TrialEnds, Rest, Endure, Blocked, NoCandidate,
           Quarantined, Apply, Impatient, Ailing
<1> QED
  BY <1>1, TypeInvariant, TrialInvariant, PTL DEF Spec, TrialsEndJudgedAfterHealth
\* A trial is kept only with an indicator no lower than at its start, and its
\* organism comes back only with a lower one, whatever dips lie between.
THEOREM WholeWindow == Spec => JudgedOnTheWholeWindow
<1>1. TypeOK /\ TrialInv /\ [Next]_vars =>
        [TrialEnds => /\ ~RollbackRecorded => ioc' >= trial_ioc
                      /\ state' = monitor.state => ioc' < trial_ioc]_vars
  <2> SUFFICES ASSUME TypeOK, TrialInv, Next, TrialEnds
               PROVE  /\ ~RollbackRecorded => ioc' >= trial_ioc
                      /\ state' = monitor.state => ioc' < trial_ioc
    OBVIOUS
  <2>1. PICK e \in Experiences, r \in Retrieved : Episode(e, r)
    <3>1. CASE NextBlock
      BY <3>1 DEF NextBlock, TrialEnds, TypeOK
    <3> QED BY <3>1 DEF Next
  <2> DEFINE s == Fresh(e, r)
  <2>2. lineage.rollbacks \in Nat /\ lineage \in [generation : Nat, rollbacks : Nat]
    BY DEF TypeOK
  <2>3. ioc \in Int /\ ioc' \in Int /\ trial_ioc \in Int
    BY <2>1, ConstantsAssumption DEF Episode, Closes, TypeOK
  \* The deltas add up to the change since the trial began.
  <2>4. monitor.gain = ioc - trial_ioc
    BY DEF TrialEnds, TrialInv, OnTrial
  <2>5. /\ Gain < 0 => ioc' < trial_ioc
        /\ Gain >= 0 => ioc' >= trial_ioc
    <3>1. \A x, y, z, g \in Int :
            g = x - z => /\ g + (y - x) < 0 => y < z
                         /\ g + (y - x) >= 0 => y >= z
      OBVIOUS
    <3>2. monitor.gain \in Int
      BY <2>3, <2>4
    <3> QED BY <2>3, <2>4, <3>1, <3>2 DEF Gain
  \* The organism of the trial is older than this episode and younger than
  \* the healthy point.
  <2>6. /\ monitor.state.timestamp < s.timestamp
        /\ checkpoint # NoCheckpoint =>
             checkpoint.state.timestamp < monitor.state.timestamp
    <3>1. monitor.left \in 1..PostWindow /\ PostWindow \in Nat
      BY ConstantsAssumption DEF TrialEnds, TypeOK, Monitors
    <3>2. monitor.state.timestamp = certificates - (PostWindow - monitor.left)
      BY DEF TrialEnds, TrialInv, OnTrial
    <3>3. s.timestamp = certificates + 1 /\ certificates \in Nat
      BY <2>1, FreshType DEF TypeOK
    <3> HIDE DEF s
    <3>4. monitor.state.timestamp < s.timestamp
      BY <3>1, <3>2, <3>3
    <3> QED BY <3>4 DEF TrialEnds, TrialInv, InReserve
  <2>7. s # monitor.state
    <3>1. monitor.state.timestamp \in Int
      BY DEF TrialEnds, TypeOK, Monitors, Organism
    <3> HIDE DEF s
    <3> QED BY <2>6, <3>1
  <2>8. checkpoint # NoCheckpoint => checkpoint.state # monitor.state
    <3>1. monitor.state.timestamp \in Int
      BY DEF TrialEnds, TypeOK, Monitors, Organism
    <3> QED BY <2>6, <3>1
  <2>9. CASE Rollback(s)
    BY <2>2, <2>7, <2>8, <2>9 DEF Rollback, RollbackRecorded
  <2>10. CASE Revert(s)
    <3>1. RollbackRecorded
      BY <2>2, <2>10 DEF Revert, RollbackRecorded
    <3> QED BY <2>5, <2>10, <3>1 DEF Revert
  <2>11. CASE Commit(s)
    BY <2>5, <2>7, <2>11 DEF Commit
  <2>12. CASE Watch(s)
    BY <2>12 DEF Watch, TrialEnds, NoMonitor, TypeOK, Monitors
  <2> QED
    BY <2>1, <2>9, <2>10, <2>11, <2>12
       DEF Episode, Decide, TrialEnds, Rest, Endure, Blocked, NoCandidate,
           Quarantined, Apply, Impatient, Ailing
<1> QED
  BY <1>1, TypeInvariant, TrialInvariant, PTL DEF Spec, JudgedOnTheWholeWindow

\* The organism is never younger after an episode, unless a rollback is on
\* record and the organism is one the controller kept.
THEOREM ClockGoesBack == Spec => ClockGoesBackWithRecord
<1> DEFINE Kept == {x.state : x \in {checkpoint, monitor} \ {NoCheckpoint, NoMonitor}}
<1>1. TypeOK /\ [Next]_vars =>
        [state'.count <= state.count /\ lived' # 0
           => RollbackRecorded /\ state' \in Kept]_vars
  <2> SUFFICES ASSUME TypeOK, Next, state'.count <= state.count, lived' # 0
               PROVE  RollbackRecorded /\ state' \in Kept
    OBVIOUS
  <2>1. PICK e \in Experiences, r \in Retrieved : Episode(e, r)
    <3>1. CASE NextBlock
      BY <3>1 DEF NextBlock
    <3> QED BY <3>1 DEF Next
  <2> DEFINE s == Fresh(e, r)
  <2>2. s.count = state.count + 1 /\ state.count \in Nat
    BY FreshType DEF TypeOK, Organism
  <2>3. lineage.rollbacks \in Nat /\ lineage \in [generation : Nat, rollbacks : Nat]
    BY DEF TypeOK
  <2>4. state' # s
    BY <2>2
  <2>5. CASE Rollback(s)
    <3>1. checkpoint # NoCheckpoint /\ state' = checkpoint.state
      BY <2>4, <2>5 DEF Rollback
    <3>2. checkpoint # NoMonitor
      BY <3>1 DEF TypeOK, Checkpoints, NoCheckpoint, NoMonitor
    <3> QED BY <2>3, <2>5, <3>1, <3>2 DEF Rollback, RollbackRecorded
  <2>6. CASE Revert(s)
    <3>1. monitor # NoMonitor /\ state' = monitor.state
      BY <2>6 DEF Revert, Monitored
    <3>2. monitor # NoCheckpoint
      BY <3>1 DEF TypeOK, Monitors, NoCheckpoint, NoMonitor
    <3> QED BY <2>3, <2>6, <3>1, <3>2 DEF Revert, RollbackRecorded
  <2> QED
    BY <2>1, <2>4, <2>5, <2>6
       DEF Episode, Decide, Watch, Commit, Rest, Endure, Blocked, NoCandidate,
           Quarantined, Apply, Impatient, Ailing
<1> QED
  BY <1>1, TypeInvariant, PTL DEF Spec, ClockGoesBackWithRecord
-----------------------------------------------------------------------------
(* The refinement of KnobTrial.                                            *)

TrialBar == IF monitor = NoMonitor THEN [left |-> 0]
            ELSE [knobs |-> monitor.knobs, left |-> monitor.left]
SafeBar == IF checkpoint = NoCheckpoint THEN [safe |-> FALSE]
           ELSE [safe |-> TRUE, knobs |-> checkpoint.knobs]

\* What the mapped variables say of the concrete ones.
LEMMA Mapping ==
  ASSUME TypeOK
  PROVE  /\ TrialBar = Trial!NoTrial <=> monitor = NoMonitor
         /\ SafeBar = Trial!Unsafe <=> checkpoint = NoCheckpoint
         /\ monitor # NoMonitor => /\ TrialBar.left = monitor.left
                                  /\ TrialBar.knobs = monitor.knobs
         /\ checkpoint # NoCheckpoint => SafeBar.knobs = checkpoint.knobs
<1>1. monitor # NoMonitor => monitor.left \in Nat /\ monitor.left # 0
  BY ConstantsAssumption DEF TypeOK, Monitors
<1> QED
  BY <1>1 DEF TrialBar, SafeBar, Trial!NoTrial, Trial!Unsafe

\* A diagnosis that changes something is a tightening.
LEMMA DiagnosisTightens ==
  ASSUME knobs \in Knobs, NEW r \in Retrieved, Diagnosis(r) # knobs
  PROVE  Diagnosis(r) \in Trial!Tightenings(knobs)
<1>1. knobs.limit \in 1..3 /\ knobs.cross \in BOOLEAN
  BY DEF Knobs
<1>2. CASE r >= 2 /\ knobs.limit > 1
  <2>1. Diagnosis(r) = [knobs EXCEPT !.limit = knobs.limit - 1]
    BY <1>2 DEF Diagnosis
  <2>2. knobs.limit - 1 \in {knobs.limit - 1} \ {0}
    BY <1>1, <1>2
  <2> QED BY <2>1, <2>2 DEF Trial!Tightenings
<1>3. CASE ~(r >= 2 /\ knobs.limit > 1)
  <2>1. Diagnosis(r) = [knobs EXCEPT !.cross = FALSE]
    BY <1>3 DEF Diagnosis
  <2>2. CASE knobs.cross = FALSE
    <3>1. [knobs EXCEPT !.cross = FALSE] = knobs
      BY <2>2 DEF Knobs
    <3> QED BY <2>1, <3>1
  <2>3. CASE knobs.cross = TRUE
    <3>1. FALSE \in {FALSE} \ {knobs.cross}
      BY <2>3
    <3> QED BY <2>1, <3>1 DEF Trial!Tightenings
  <2> QED BY <1>1, <2>2, <2>3
<1> QED
  BY <1>2, <1>3

\* Every decision is a step of KnobTrial.
LEMMA DecideImplements ==
  ASSUME TypeOK, TypeOK', Closes, NEW r \in Retrieved, NEW s \in Organism,
         Decide(s, r)
  PROVE  Trial!Next \/ UNCHANGED Trial!vars
<1>0. /\ block' = block /\ cooldown \in Nat /\ cooldown >= 0 /\ Cooldown \in Nat
      /\ PostWindow \in Nat /\ PostWindow >= 1
  BY ConstantsAssumption DEF Closes, TypeOK
<1>1. CASE Rollback(s)
  <2>1. /\ monitor' = NoMonitor /\ SafeBar' = SafeBar /\ cooldown' = Cooldown
        /\ knobs' = IF checkpoint = NoCheckpoint THEN knobs ELSE checkpoint.knobs
    BY <1>1 DEF Rollback, SafeBar
  <2>2. TrialBar' = Trial!NoTrial
    BY <2>1 DEF TrialBar, Trial!NoTrial
  <2>3. knobs' = IF SafeBar = Trial!Unsafe THEN knobs ELSE SafeBar.knobs
    BY <2>1, Mapping
  <2>4. Trial!Recall
    BY <2>1, <2>2, <2>3, <1>0 DEF Trial!Recall, TrialBar, SafeBar
  <2> QED BY <2>4 DEF Trial!Next
<1>2. CASE Watch(s)
  <2>1. /\ monitor # NoMonitor /\ monitor.left > 1 /\ monitor \in Monitors
        /\ monitor' = [monitor EXCEPT !.left = @ - 1, !.gain = Gain]
        /\ UNCHANGED <<knobs, cooldown, checkpoint>>
    BY <1>2 DEF Watch, Monitored, TypeOK
  <2>2. /\ monitor'.left = monitor.left - 1 /\ monitor'.knobs = monitor.knobs
        /\ monitor' # NoMonitor
    BY <2>1 DEF Monitors, NoMonitor
  <2>3. TrialBar' = [TrialBar EXCEPT !.left = @ - 1]
    BY <2>1, <2>2 DEF TrialBar
  <2>4. TrialBar # Trial!NoTrial /\ TrialBar.left > 1
    BY <2>1, Mapping
  <2>5. Trial!Watch
    BY <2>1, <2>3, <2>4, <1>0 DEF Trial!Watch, TrialBar, SafeBar
  <2> QED BY <2>5 DEF Trial!Next
<1>3. CASE Revert(s)
  <2>1. /\ monitor # NoMonitor /\ monitor.left = 1 /\ monitor' = NoMonitor
        /\ knobs' = monitor.knobs /\ cooldown' = Cooldown
        /\ checkpoint' = checkpoint
    BY <1>3 DEF Revert, Monitored
  <2>2. TrialBar' = Trial!NoTrial
    BY <2>1 DEF TrialBar, Trial!NoTrial
  <2>3. /\ TrialBar # Trial!NoTrial /\ TrialBar.left = 1
        /\ knobs' = TrialBar.knobs
    BY <2>1, Mapping
  <2>4. Trial!Undo
    BY <2>1, <2>2, <2>3, <1>0 DEF Trial!Undo, TrialBar, SafeBar
  <2> QED BY <2>4 DEF Trial!Next
<1>4. CASE Commit(s)
  <2>1. /\ monitor # NoMonitor /\ monitor.left = 1 /\ monitor' = NoMonitor
        /\ UNCHANGED <<knobs, cooldown, checkpoint>>
    BY <1>4 DEF Commit, Monitored
  <2>2. TrialBar' = Trial!NoTrial
    BY <2>1 DEF TrialBar, Trial!NoTrial
  <2>3. TrialBar # Trial!NoTrial /\ TrialBar.left = 1
    BY <2>1, Mapping
  <2>4. Trial!Keep
    BY <2>1, <2>2, <2>3, <1>0 DEF Trial!Keep, TrialBar, SafeBar
  <2> QED BY <2>4 DEF Trial!Next
<1>5. CASE Rest(s)
  <2>1. /\ monitor = NoMonitor /\ UNCHANGED <<knobs, monitor>>
        /\ checkpoint' = [state |-> s, knobs |-> knobs]
        /\ cooldown' = IF cooldown > 0 THEN cooldown - 1 ELSE 0
    BY <1>5 DEF Rest
  <2>2. checkpoint' # NoCheckpoint
    <3>1. knobs.limit # 0
      BY DEF TypeOK, Knobs
    <3> QED BY <2>1, <3>1 DEF NoCheckpoint
  <2>3. SafeBar' = [safe |-> TRUE, knobs |-> knobs]
    BY <2>1, <2>2 DEF SafeBar
  <2>4. TrialBar = Trial!NoTrial /\ TrialBar' = TrialBar
    BY <2>1, Mapping DEF TrialBar
  <2>5. Trial!MarkSafe
    BY <2>1, <2>3, <2>4, <1>0 DEF Trial!MarkSafe, Trial!Shorter, TrialBar, SafeBar
  <2> QED BY <2>5 DEF Trial!Next
<1>6. CASE Endure(s) \/ Blocked(s) \/ NoCandidate(s, r) \/ Quarantined(s, r)
  <2>1. /\ monitor = NoMonitor /\ UNCHANGED <<knobs, monitor, checkpoint>>
        /\ \/ cooldown > 0 /\ cooldown' = cooldown - 1
           \/ cooldown = 0 /\ cooldown' \in {0, Cooldown}
    BY <1>6 DEF Endure, Blocked, NoCandidate, Quarantined, Impatient, Ailing,
                Abstained
  <2>2. /\ TrialBar = Trial!NoTrial /\ TrialBar' = TrialBar
        /\ SafeBar' = SafeBar
    BY <2>1, Mapping DEF TrialBar, SafeBar
  <2>3. Trial!Pause
    BY <2>1, <2>2, <1>0 DEF Trial!Pause, TrialBar, SafeBar
  <2> QED BY <2>3 DEF Trial!Next
<1>7. CASE Apply(s, r)
  <2>1. /\ monitor = NoMonitor /\ cooldown = 0
        /\ UNCHANGED <<cooldown, checkpoint>>
        /\ knobs' = Diagnosis(r) /\ knobs' # knobs
        /\ monitor'.left = PostWindow /\ monitor'.knobs = knobs
    BY <1>7 DEF Apply, Impatient, Ailing
  <2>2. knobs' \in Trial!Tightenings(knobs)
    BY <2>1, DiagnosisTightens DEF TypeOK
  <2>3. TrialBar' = [knobs |-> knobs, left |-> PostWindow]
    BY <2>1, <1>0 DEF TrialBar, NoMonitor
  <2>4. TrialBar = Trial!NoTrial /\ SafeBar' = SafeBar
    BY <2>1, Mapping DEF SafeBar
  <2>5. Trial!Try
    BY <2>1, <2>2, <2>3, <2>4, <1>0 DEF Trial!Try, TrialBar, SafeBar
  <2> QED BY <2>5 DEF Trial!Next
<1> QED
  BY <1>1, <1>2, <1>3, <1>4, <1>5, <1>6, <1>7 DEF Decide

\* The controller implements KnobTrial: one tightening at a time, watched for
\* its window, otherwise only put back.
THEOREM Refinement == Spec => ImplementsTrial
<1>1. Init => Trial!Init
  BY DEF Init, Trial!Init, Trial!Defaults, Trial!NoTrial, Trial!Unsafe, Defaults
<1>2. TypeOK /\ TypeOK' /\ [Next]_vars => [Trial!Next]_(Trial!vars)
  <2> SUFFICES ASSUME TypeOK, TypeOK', [Next]_vars
               PROVE  Trial!Next \/ UNCHANGED Trial!vars
    OBVIOUS
  <2>1. CASE \E e \in Experiences, retrieved \in Retrieved : Episode(e, retrieved)
    BY <2>1, FreshType, DecideImplements DEF Episode
  <2>2. CASE NextBlock
    <3>1. Trial!NewLife
      BY <2>2 DEF NextBlock, NewController, Trial!NewLife, Trial!Defaults,
                  Trial!NoTrial, Trial!Unsafe, Defaults, TypeOK
    <3> QED BY <3>1 DEF Trial!Next
  <2>3. CASE UNCHANGED vars
    BY <2>3 DEF vars, controller, Trial!vars
  <2> QED BY <2>1, <2>2, <2>3 DEF Next
<1> QED
  BY <1>1, <1>2, TypeInvariant, PTL DEF Spec, ImplementsTrial, Trial!Spec
=============================================================================
