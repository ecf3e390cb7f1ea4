-------------------------- MODULE EventLedgerProofs --------------------------
(***************************************************************************)
(* However many processes open, rebuild, write and copy the ledger at      *)
(* once, and wherever they stop, every event stays in the file, for every  *)
(* old table and every number of events.  When they take turns, every      *)
(* event can be read, the copy has its rows under their ids, and ledger    *)
(* and copy are a growing log and a replica that follows it.               *)
(***************************************************************************)
EXTENDS EventLedger, FiniteSetTheorems, WellFoundedInduction, TLAPS

\* Every non-empty set of naturals has a least member.
LEMMA LeastIs ==
  ASSUME NEW S \in SUBSET Nat, S # {}
  PROVE  \E x \in S : \A y \in S : x <= y
<1> DEFINE R == OpToRel(<, Nat)
<1>1. IsWellFoundedOn(R, Nat)
  BY NatLessThanWellFounded, Zenon
<1>2. \A x, y \in Nat : y < x => <<y, x>> \in R
  BY Zenon DEF OpToRel
<1> HIDE DEF R
<1>3. PICK x \in S : \A y \in S : ~(<<y, x>> \in R)
  BY <1>1, WFMin
<1>4. \A y \in S : ~(y < x)
  BY <1>2, <1>3
<1>5. \A y \in S : x \in Nat /\ y \in Nat
  OBVIOUS
<1> QED
  BY <1>3, <1>4, <1>5

\* A bounded set of naturals has the greatest member that Max chooses.
LEMMA MaxIs ==
  ASSUME NEW n \in Nat, NEW S \in SUBSET (0..n), S # {}
  PROVE  Max(S) \in S /\ \A m \in S : m <= Max(S)
<1> DEFINE bounds == {b \in Nat : \A m \in S : m <= b}
<1>1. n \in bounds /\ bounds \in SUBSET Nat
  OBVIOUS
<1>2. PICK b \in bounds : \A c \in bounds : b <= c
  <2>1. bounds # {}
    BY <1>1
  <2> HIDE DEF bounds
  <2> QED
    BY <1>1, <2>1, LeastIs
<1>3. b \in S
  <2> SUFFICES ASSUME b \notin S PROVE FALSE
    OBVIOUS
  <2>1. \A m \in S : m \in Nat /\ m <= b /\ m # b
    BY <1>2
  <2>2. PICK m \in S : TRUE
    OBVIOUS
  <2>3. b - 1 \in Nat /\ \A k \in S : k <= b - 1
    BY <1>2, <2>1, <2>2
  <2> QED
    BY <1>2, <2>3
<1>4. \E x \in S : \A y \in S : x >= y
  BY <1>2, <1>3
<1> QED
  BY <1>4 DEF Max

\* The ids of the old table have a greatest one.
LEMMA LegacyMax ==
  /\ Max(LegacyIds \cup {0}) \in Nat
  /\ \A i \in LegacyIds : i \in Nat /\ 1 <= i /\ i <= Max(LegacyIds \cup {0})
<1> DEFINE S == LegacyIds \cup {0}
<1>0. LegacyIds \subseteq 1..LastEvent /\ LastEvent \in Nat
  BY LedgerAssumption
<1>1. S \in SUBSET (0..LastEvent) /\ S # {} /\ LastEvent \in Nat
  BY <1>0
<1>2. Max(S) \in S /\ \A m \in S : m <= Max(S)
  <2> HIDE DEF S
  <2> QED
    BY <1>1, MaxIs
<1>3. \A m \in S : m \in Nat
  BY <1>1
<1>4. \A i \in LegacyIds : i \in S /\ i \in Nat /\ 1 <= i
  BY <1>0
<1> HIDE DEF S
<1>5. Max(S) \in Nat /\ \A i \in LegacyIds : i \in Nat /\ 1 <= i /\ i <= Max(S)
  BY <1>2, <1>3, <1>4
<1> QED
  BY <1>5 DEF S

\* The old table is all there is at the start.
LEMMA FileInit == Init => FileInv
<1> SUFFICES ASSUME Init PROVE FileInv
  OBVIOUS
<1> DEFINE last == Max(LegacyIds \cup {0})
<1>1. /\ last \in Nat
      /\ \A i \in LegacyIds : i \in Nat /\ 1 <= i /\ i <= last
  BY LegacyMax
<1> HIDE DEF last
<1>2. sequence = last /\ lastEvent = last
  BY DEF Init, last
<1>3. events = [i \in LegacyIds |-> i] /\ backup = NoRows
  BY DEF Init
<1>4. /\ column = "none" => events = NoRows
      /\ pc \in [Opener -> Progress] /\ opened \in [Opener -> Column]
      /\ \A p \in Opener : pc[p] = "up" => opened[p] # "none"
  BY <1>3 DEF Init, NoRows, Progress, Column
<1>5. NothingDestroyed
  <2>1. (last + 1 .. lastEvent) = {}
    BY <1>1, <1>2
  <2>2. LegacyIds = Events
    BY <1>3 DEF Events, Range
  <2> QED
    BY <2>1, <2>2 DEF NothingDestroyed, Committed, last
<1>6. DOMAIN backup = {}
  BY <1>3 DEF NoRows
<1> QED
  BY <1>1, <1>2, <1>3, <1>4, <1>5, <1>6 DEF FileInv

\* A new row stands at an id that no row has.
LEMMA FileLog ==
  ASSUME FileInv, NEW p \in Opener, LogEvent(p)
  PROVE  FileInv'
<1> DEFINE n == sequence + 1
           e == lastEvent + 1
<1>1. n \in Nat /\ e \in Nat /\ n \notin DOMAIN events /\ e \notin {}
  BY DEF FileInv
<1>2. events' = [i \in DOMAIN events \cup {n} |-> IF i = n THEN e ELSE events[i]]
  BY DEF LogEvent
<1>3. Range(events') = Events \cup {e}
  BY <1>1, <1>2 DEF Range, Events
<1>4. Committed' \subseteq Committed \cup {e}
  BY LegacyMax DEF Committed, LogEvent, FileInv
<1>5. NothingDestroyed'
  BY <1>3, <1>4 DEF NothingDestroyed, Events, LogEvent, FileInv
<1>6. /\ lastEvent' \in Nat /\ sequence' \in 0..lastEvent'
      /\ DOMAIN backup' \subseteq 1..lastEvent'
      /\ DOMAIN events' \subseteq 1..sequence'
      /\ events' = [i \in DOMAIN events' |-> events'[i]]
  BY <1>2 DEF LogEvent, FileInv
<1>7. column' # "none"
  BY DEF LogEvent, FileInv
<1> QED
  BY <1>5, <1>6, <1>7 DEF FileInv, LogEvent, openVars

\* The copy joins two tables that share no id.
LEMMA FileCopy ==
  ASSUME FileInv, NEW p \in Opener, Copy(p)
  PROVE  FileInv'
<1> DEFINE ids == DOMAIN events \cup DOMAIN backup
           S == DOMAIN backup \cup {sequence}
<1>1. lastEvent \in Nat /\ S \in SUBSET (0..lastEvent) /\ S # {}
  BY DEF FileInv
<1>2. sequence' \in 0..lastEvent' /\ \A i \in S : i <= sequence'
  <2>1. sequence' = Max(S) /\ lastEvent' = lastEvent
    BY DEF Copy
  <2> HIDE DEF S
  <2>2. Max(S) \in S /\ \A i \in S : i <= Max(S)
    BY <1>1, MaxIs
  <2> QED
    BY <1>1, <2>1, <2>2
<1>3. /\ events' = [i \in ids |-> IF i \in DOMAIN backup THEN backup[i]
                                                     ELSE events[i]]
      /\ DOMAIN events \cap DOMAIN backup = {}
  BY DEF Copy
<1>4. DOMAIN events' \subseteq 1..sequence'
  BY <1>1, <1>2, <1>3 DEF FileInv
<1>5. Events \cup Range(backup) \subseteq Range(events')
  BY <1>3 DEF Events, Range
<1>6. NothingDestroyed'
  BY <1>5 DEF FileInv, NothingDestroyed, Committed, Events, Copy
<1>7. /\ pc' \in [Opener -> Progress] /\ opened' \in [Opener -> Column]
      /\ \A q \in Opener : pc'[q] = "up" => opened'[q] # "none"
  BY DEF FileInv, Copy, Goto, Progress, Column
<1> QED
  BY <1>2, <1>3, <1>4, <1>6, <1>7 DEF FileInv, Copy

\* The other steps of the file move a table as a whole, or none.
LEMMA FileStep ==
  ASSUME FileInv, [Next]_vars
  PROVE  FileInv'
<1>1. ASSUME NEW p \in Opener, Open(p)
      PROVE  FileInv'
  <2>1. NothingDestroyed'
    BY <1>1 DEF Open, FileInv, NothingDestroyed, Committed, Events
  <2>2. column = "none" => events = NoRows /\ DOMAIN events = {}
    BY DEF FileInv, NoRows
  <2>3. sequence' \in 0..lastEvent' /\ DOMAIN events' \subseteq 1..sequence' /\ column' # "none"
    BY <1>1, <2>2 DEF Open, FileInv
  <2> QED
    BY <1>1, <2>1, <2>3 DEF Open, FileInv, Goto, Progress
<1>2. ASSUME NEW p \in Opener, Inspect(p)
      PROVE  FileInv'
  <2>1. NothingDestroyed'
    BY <1>2 DEF Inspect, fileVars, FileInv, NothingDestroyed, Committed, Events
  <2>2. /\ pc' \in [Opener -> Progress] /\ opened' \in [Opener -> Column]
        /\ \A q \in Opener : pc'[q] = "up" => opened'[q] # "none"
    BY <1>2 DEF Inspect, FileInv, Goto, Progress, Column
  <2> QED
    BY <1>2, <2>1, <2>2 DEF Inspect, fileVars, FileInv
<1>3. ASSUME NEW p \in Opener, Rename(p)
      PROVE  FileInv'
  <2>1. Events = Range(backup')
    BY <1>3 DEF Rename, Events
  <2>2. Range(backup) = {}
    BY <1>3 DEF Rename, NoRows, Range
  <2>3. NothingDestroyed'
    BY <1>3, <2>1, <2>2 DEF Rename, FileInv, NothingDestroyed, Committed
  <2>4. DOMAIN backup' \subseteq 1..lastEvent' /\ sequence' \in 0..lastEvent'
    BY <1>3 DEF Rename, FileInv
  <2> QED
    BY <1>3, <2>3, <2>4 DEF Rename, FileInv, Goto, Progress, NoRows
<1>4. ASSUME NEW p \in Opener, Recreate(p)
      PROVE  FileInv'
  <2>1. NothingDestroyed'
    BY <1>4 DEF Recreate, FileInv, NothingDestroyed, Committed, Events
  <2>2. events = NoRows /\ DOMAIN events = {}
    BY <1>4 DEF Recreate, FileInv, NoRows
  <2> QED
    BY <1>4, <2>1, <2>2 DEF Recreate, FileInv, Goto, Progress
<1>5. ASSUME NEW p \in Opener, OpenFails(p) \/ Stop(p)
      PROVE  FileInv'
  <2>1. NothingDestroyed'
    BY <1>5 DEF OpenFails, Stop, fileVars, FileInv, NothingDestroyed, Committed, Events
  <2> QED
    BY <1>5, <2>1 DEF OpenFails, Stop, fileVars, FileInv, Goto, Progress
<1>6. CASE StartCopy \/ ReadPage \/ CopyRow \/ CopyEnds \/ UNCHANGED vars
  <2>1. UNCHANGED fileVars /\ UNCHANGED openVars
    BY <1>6 DEF StartCopy, ReadPage, CopyRow, CopyEnds, vars
  <2> QED
    BY <2>1 DEF fileVars, openVars, FileInv, NothingDestroyed, Committed, Events
<1> QED
  BY <1>1, <1>2, <1>3, <1>4, <1>5, <1>6, FileLog, FileCopy DEF Next

(***************************************************************************)
(* Every committed event is in a table of the file, always.                *)
(***************************************************************************)
THEOREM EventsSurvive == Spec => []NothingDestroyed
<1>1. FileInv => NothingDestroyed
  BY DEF FileInv
<1> QED
  BY <1>1, FileInit, FileStep, PTL DEF Spec
-----------------------------------------------------------------------------
(***************************************************************************)
(* Pages.  A row is read by its rank, the number of the rows up to it.     *)
(***************************************************************************)
RankIn(D, i) == Cardinality({j \in D : j <= i})
PageOf(D, o, b) == {i \in D : RankIn(D, i) \in o + 1..o + b}

\* A set of numbers up to n has at most n of them.
LEMMA BoundedSet ==
  ASSUME NEW n \in Nat, NEW D \in SUBSET (1..n)
  PROVE  IsFiniteSet(D) /\ Cardinality(D) \in Nat /\ Cardinality(D) <= n
<1>1. IsFiniteSet(1..n) /\ Cardinality(1..n) = n
  BY FS_Interval
<1>2. IsFiniteSet(D) /\ Cardinality(D) <= Cardinality(1..n)
  BY <1>1, FS_Subset
<1> QED
  BY <1>1, <1>2, FS_CardinalityType

\* The rows up to a row are counted, and the row is one of them.
LEMMA RankType ==
  ASSUME NEW D \in SUBSET Nat, IsFiniteSet(D), NEW i \in D
  PROVE  RankIn(D, i) \in 1..Cardinality(D)
<1> DEFINE below == {j \in D : j <= i}
<1>1. Cardinality(D) \in Nat /\ i \in Nat
  BY FS_CardinalityType
<1>2. below \in SUBSET D /\ i \in below
  BY <1>1
<1> HIDE DEF below
<1>3. IsFiniteSet(below) /\ Cardinality(below) <= Cardinality(D)
  BY <1>1, <1>2, FS_Subset
<1>4. Cardinality(below) \in Nat
  BY <1>3, FS_CardinalityType
<1>5. Cardinality(below) # 0
  BY <1>2, <1>3, FS_EmptySet
<1> QED
  BY <1>1, <1>3, <1>4, <1>5 DEF RankIn, below

\* A later row of a table has a higher rank.
LEMMA RankIncreases ==
  ASSUME NEW D \in SUBSET Nat, IsFiniteSet(D), NEW i \in D, NEW j \in D, i < j
  PROVE  RankIn(D, i) < RankIn(D, j)
<1> DEFINE A == {k \in D : k <= i}
           B == {k \in D : k <= j}
<1>0. i \in Nat /\ j \in Nat /\ \A k \in D : k \in Nat
  OBVIOUS
<1>1. A \in SUBSET B /\ j \in B /\ j \notin A /\ B \in SUBSET D
  <2>1. ASSUME NEW k \in A PROVE k \in B
    BY <1>0
  <2>2. j \in B /\ ~(j <= i)
    BY <1>0
  <2> QED
    BY <2>1, <2>2
<1>2. RankIn(D, i) = Cardinality(A) /\ RankIn(D, j) = Cardinality(B)
  BY DEF RankIn
<1> HIDE DEF A, B
<1>3. IsFiniteSet(B)
  BY <1>1, FS_Subset
<1>4. Cardinality(A) <= Cardinality(B) /\ Cardinality(A) # Cardinality(B)
  BY <1>1, <1>3, FS_Subset
<1>5. Cardinality(A) \in Nat /\ Cardinality(B) \in Nat
  BY <1>1, <1>3, FS_Subset, FS_CardinalityType
<1> QED
  BY <1>2, <1>4, <1>5

\* The rows with ranks above o and up to o + b are at most b.
LEMMA RanksDiffer ==
  ASSUME NEW D \in SUBSET Nat, IsFiniteSet(D), NEW N \in SUBSET D,
         NEW o \in Nat, NEW b \in Nat, \A i \in N : RankIn(D, i) \in o + 1..o + b
  PROVE  IsFiniteSet(N) /\ Cardinality(N) \in Nat /\ Cardinality(N) <= b
<1> DEFINE f == [i \in N |-> RankIn(D, i)]
<1>1. f \in [N -> o + 1..o + b]
  OBVIOUS
<1>2. ASSUME NEW i \in N, NEW j \in N, f[i] = f[j]
      PROVE  i = j
  <2>1. i \in Nat /\ j \in Nat
    OBVIOUS
  <2>2. RankIn(D, i) \in Int /\ RankIn(D, j) \in Int
    BY <1>2
  <2>3. ~(i < j) /\ ~(j < i)
    <3>1. i \in D /\ j \in D
      OBVIOUS
    <3> QED
      BY <1>2, <2>2, <3>1, RankIncreases
  <2> QED
    BY <2>1, <2>3
<1>3. f \in Injection(N, o + 1..o + b)
  BY <1>1, <1>2 DEF Injection, IsInjective
<1> HIDE DEF f
<1>4. IsFiniteSet(o + 1..o + b) /\ Cardinality(o + 1..o + b) = b
  BY FS_Interval
<1>5. IsFiniteSet(N) /\ Cardinality(N) <= Cardinality(o + 1..o + b)
  BY <1>3, <1>4, FS_Injection
<1> QED
  BY <1>4, <1>5, FS_CardinalityType

\* A page has at most b rows, and all of them are up to the new offset.
LEMMA PageIs ==
  ASSUME NEW D \in SUBSET Nat, IsFiniteSet(D), NEW o \in Nat, NEW b \in Nat
  PROVE  LET N == PageOf(D, o, b) IN
         /\ IsFiniteSet(N) /\ Cardinality(N) \in Nat
         /\ \A i \in D : RankIn(D, i) <= o + Cardinality(N) =>
              RankIn(D, i) <= o \/ i \in N
         /\ \A i \in N : RankIn(D, i) <= o + Cardinality(N)
         /\ N # {} => o + Cardinality(N) <= Cardinality(D)
<1> DEFINE N == PageOf(D, o, b)
           S == {i \in D : RankIn(D, i) \in 0 + 1..0 + o}
<1>1. /\ N \in SUBSET D /\ \A i \in N : RankIn(D, i) \in o + 1..o + b
      /\ S \in SUBSET D /\ \A i \in S : RankIn(D, i) \in 0 + 1..0 + o
      /\ \A i \in D : RankIn(D, i) \in 1..Cardinality(D)
      /\ Cardinality(D) \in Nat
  BY RankType, FS_CardinalityType DEF PageOf
<1>2. \A i \in D : RankIn(D, i) <= o + b => i \in S \cup N
  BY <1>1 DEF PageOf
<1> HIDE DEF N, S
<1>3. IsFiniteSet(N) /\ Cardinality(N) \in Nat /\ Cardinality(N) <= b
  BY <1>1, RanksDiffer
<1>4. IsFiniteSet(S) /\ Cardinality(S) \in Nat /\ Cardinality(S) <= o
  BY <1>1, RanksDiffer
<1>5. ASSUME NEW i \in D, RankIn(D, i) <= o + Cardinality(N)
      PROVE  RankIn(D, i) <= o \/ i \in N
  BY <1>1, <1>2, <1>3, <1>5
<1>6. ASSUME NEW i \in N
      PROVE  RankIn(D, i) <= o + Cardinality(N)
  <2> DEFINE below == {j \in D : j <= i}
  <2>1. below \subseteq S \cup N
    <3> SUFFICES ASSUME NEW j \in D, j <= i PROVE RankIn(D, j) <= o + b
      BY <1>2
    <3>1. j = i \/ j < i
      BY <1>1
    <3>2. RankIn(D, j) <= RankIn(D, i) /\ RankIn(D, i) <= o + b
      BY <1>1, <3>1, RankIncreases
    <3> QED
      BY <1>1, <3>2
  <2>2. RankIn(D, i) = Cardinality(below)
    BY DEF RankIn
  <2> HIDE DEF below
  <2>3. /\ IsFiniteSet(S \cup N)
        /\ Cardinality(S \cup N) =
             Cardinality(S) + Cardinality(N) - Cardinality(S \cap N)
        /\ Cardinality(S \cap N) \in Nat
    BY <1>3, <1>4, FS_Union, FS_Intersection, FS_CardinalityType
  <2>4. Cardinality(below) <= Cardinality(S \cup N) /\ Cardinality(below) \in Nat
    BY <2>1, <2>3, FS_Subset, FS_CardinalityType
  <2> QED
    BY <1>3, <1>4, <2>2, <2>3, <2>4
<1>7. ASSUME N # {}
      PROVE  o + Cardinality(N) <= Cardinality(D)
  <2>1. PICK i \in N : TRUE
    BY <1>7
  <2>2. o + 1 <= Cardinality(D)
    BY <1>1, <2>1
  <2> DEFINE c == Cardinality(D) - o
  <2>3. c \in Nat /\ \A j \in N : RankIn(D, j) \in o + 1..o + c
    BY <1>1, <2>2
  <2> HIDE DEF c
  <2>4. Cardinality(N) <= c
    BY <1>1, <2>3, RanksDiffer
  <2> QED
    BY <1>1, <1>3, <2>2, <2>4 DEF c
<1> QED
  BY <1>3, <1>5, <1>6, <1>7 DEF N

\* An empty page is the end of the table.
LEMMA EmptyPage ==
  ASSUME NEW D \in SUBSET Nat, IsFiniteSet(D), NEW o \in Nat, NEW b \in Nat \ {0},
         PageOf(D, o, b) = {}
  PROVE  \A i \in D : RankIn(D, i) <= o
<1> DEFINE Late == {i \in D : ~(RankIn(D, i) <= o)}
<1> SUFFICES ASSUME Late # {} PROVE FALSE
  OBVIOUS
<1>1. \A i \in D : RankIn(D, i) \in Nat /\ i \in Nat
  <2>1. Cardinality(D) \in Nat
    BY FS_CardinalityType
  <2> QED
    BY <2>1, RankType
<1>2. PICK m \in Late : \A j \in Late : m <= j
  <2>1. Late \in SUBSET Nat
    OBVIOUS
  <2> HIDE DEF Late
  <2> QED
    BY <2>1, LeastIs
<1> DEFINE S == {j \in D : j <= m - 1}
<1>3. /\ m \in D /\ S \in SUBSET D /\ m \notin S
      /\ \A j \in S : j \notin Late /\ j \in D
  BY <1>1, <1>2
<1>4. \A j \in S : RankIn(D, j) \in 0 + 1..0 + o
  BY <1>1, <1>3, RankType
<1>5. {j \in D : j <= m} = S \cup {m}
  <2>1. ASSUME NEW j \in D PROVE j <= m <=> (j \in S \/ j = m)
    BY <1>1, <1>3
  <2> QED
    BY <1>3, <2>1
<1> HIDE DEF S
<1>6. IsFiniteSet(S) /\ Cardinality(S) \in Nat /\ Cardinality(S) <= o
  BY <1>3, <1>4, RanksDiffer
<1>7. RankIn(D, m) = Cardinality(S) + 1
  BY <1>3, <1>5, <1>6, FS_AddElement DEF RankIn
<1>8. RankIn(D, m) \in o + 1..o + b
  BY <1>1, <1>2, <1>6, <1>7
<1> QED
  BY <1>3, <1>8 DEF PageOf

\* The least of a set of numbers is one of them.
LEMMA MinIs ==
  ASSUME NEW S \in SUBSET Nat, S # {}
  PROVE  Min(S) \in S /\ \A m \in S : Min(S) <= m
BY LeastIs DEF Min
-----------------------------------------------------------------------------
(***************************************************************************)
(* The types of the ledger.                                                *)
(***************************************************************************)
Fits(rows, all) == DOMAIN rows \subseteq 1..LastEvent /\ Range(rows) \subseteq all

\* The invariant of the types, part by part.
LEMMA TypesAre ==
  TypesInv <=>
    /\ FileInv /\ Max(LegacyIds \cup {0}) <= lastEvent
    /\ page = [i \in DOMAIN page |-> page[i]]
    /\ orderly \in BOOLEAN /\ column \in Column /\ lastEvent <= LastEvent
    /\ Fits(events, Committed) /\ Fits(backup, Committed)
    /\ Fits(ledger, Committed) /\ Fits(page, Committed)
    /\ copying \in {"idle", "read", "done"} /\ offset \in 0..LastEvent
    /\ expects \in Column /\ target \subseteq Committed
BY LedgerAssumption DEF TypesInv, TypeOK, FileInv, Fits

\* Every committed event has a number up to the last.
LEMMA CommittedIs ==
  ASSUME FileInv, Max(LegacyIds \cup {0}) <= lastEvent
  PROVE  Committed \subseteq 1..lastEvent /\ lastEvent \in Nat
BY LegacyMax DEF Committed, FileInv

\* The invariant of the types holds at the start.
LEMMA TypesInit == Init => TypesInv
<1> SUFFICES ASSUME Init PROVE TypesInv
  OBVIOUS
<1>1. FileInv
  BY FileInit
<1>2. /\ lastEvent = Max(LegacyIds \cup {0}) /\ lastEvent \in Nat
      /\ 0 \in 0..LastEvent /\ LegacyIds \subseteq 1..LastEvent
  BY LegacyMax, LedgerAssumption DEF Init
<1>3. lastEvent <= LastEvent
  <2> DEFINE S == LegacyIds \cup {0}
  <2>1. S \in SUBSET (0..LastEvent) /\ S # {}
    BY <1>2
  <2> HIDE DEF S
  <2>2. Max(S) \in 0..LastEvent
    BY <2>1, MaxIs, LedgerAssumption
  <2> QED
    BY <1>2, <2>2, LedgerAssumption DEF S
<1>4. Fits(NoRows, Committed)
  BY DEF Fits, NoRows, Range
<1>5. Fits(events, Committed)
  <2>1. events = [i \in LegacyIds |-> i]
    BY DEF Init
  <2> QED
    BY <1>2, <2>1 DEF Fits, Range, Committed
<1>6. page = [i \in DOMAIN page |-> page[i]]
  BY DEF Init, NoRows
<1> QED
  BY <1>1, <1>2, <1>3, <1>4, <1>5, <1>6, TypesAre DEF Init, Column

\* Each table is taken over whole, or gets rows that another table had.
LEMMA TypesStep ==
  ASSUME TypesInv, [Next]_vars
  PROVE  TypesInv'
<1> DEFINE last == Max(LegacyIds \cup {0})
<1>1. /\ FileInv /\ last <= lastEvent /\ last \in Nat /\ lastEvent \in Nat
      /\ orderly \in BOOLEAN /\ column \in Column /\ lastEvent <= LastEvent
      /\ Fits(events, Committed) /\ Fits(backup, Committed)
      /\ Fits(ledger, Committed) /\ Fits(page, Committed)
      /\ copying \in {"idle", "read", "done"} /\ offset \in 0..LastEvent
      /\ expects \in Column /\ target \subseteq Committed
      /\ page = [i \in DOMAIN page |-> page[i]]
  BY TypesAre, LegacyMax DEF FileInv
<1>2. FileInv' /\ orderly' = orderly
  BY <1>1, FileStep DEF Next, vars
<1>3. Fits(NoRows, Committed)
  BY DEF Fits, NoRows, Range
<1> HIDE DEF last
<1> SUFFICES /\ last <= lastEvent' /\ column' \in Column /\ lastEvent' <= LastEvent
             /\ Fits(events', Committed') /\ Fits(backup', Committed')
             /\ Fits(ledger', Committed') /\ Fits(page', Committed')
             /\ copying' \in {"idle", "read", "done"} /\ offset' \in 0..LastEvent
             /\ expects' \in Column /\ target' \subseteq Committed'
             /\ page' = [i \in DOMAIN page' |-> page'[i]]
  BY <1>1, <1>2, LedgerAssumption DEF TypesInv, TypeOK, FileInv, Fits, last
<1>4. ASSUME UNCHANGED lastEvent
      PROVE  Committed' = Committed
  BY <1>4 DEF Committed
<1>5. ASSUME NEW p \in Opener,
             Open(p) \/ Inspect(p) \/ Rename(p) \/ Recreate(p) \/ OpenFails(p) \/ Stop(p)
      PROVE  /\ UNCHANGED lastEvent /\ UNCHANGED copyVars /\ column' \in Column
             /\ events' \in {events, NoRows} /\ backup' \in {backup, events}
  BY <1>1, <1>5 DEF Open, Inspect, Rename, Recreate, OpenFails, Stop, fileVars, Column
<1>6. ASSUME NEW p \in Opener, Copy(p)
      PROVE  /\ UNCHANGED lastEvent /\ UNCHANGED copyVars /\ UNCHANGED column
             /\ Fits(events', Committed) /\ UNCHANGED backup
  <2>1. events' = [i \in DOMAIN events \cup DOMAIN backup |->
                     IF i \in DOMAIN backup THEN backup[i] ELSE events[i]]
    BY <1>6 DEF Copy
  <2>2. Fits(events', Committed)
    BY <1>1, <2>1 DEF Fits, Range
  <2> QED
    BY <1>6, <2>2 DEF Copy
<1>7. ASSUME NEW p \in Opener, LogEvent(p)
      PROVE  /\ lastEvent' = lastEvent + 1 /\ lastEvent' <= LastEvent
             /\ UNCHANGED copyVars /\ UNCHANGED column /\ UNCHANGED backup
             /\ Fits(events', Committed') /\ Committed \subseteq Committed'
  <2>1. /\ lastEvent' = lastEvent + 1 /\ lastEvent < LastEvent
        /\ events' = [i \in DOMAIN events \cup {sequence + 1} |->
                        IF i = sequence + 1 THEN lastEvent + 1 ELSE events[i]]
        /\ UNCHANGED copyVars /\ UNCHANGED column /\ UNCHANGED backup
    BY <1>7 DEF LogEvent
  <2>2. Committed \subseteq Committed' /\ lastEvent + 1 \in Committed'
    BY <1>1, <2>1 DEF Committed, last
  <2>3. LastEvent \in Nat /\ sequence + 1 \in 1..LastEvent
    BY <1>1, <2>1, LedgerAssumption DEF FileInv
  <2>4. Fits(events', Committed')
    BY <1>1, <2>1, <2>2, <2>3 DEF Fits, Range
  <2> QED
    BY <1>1, <2>1, <2>2, <2>3, <2>4
<1>8. CASE ReadPage
  <2>1. /\ page' = [i \in NextRows |-> events[i]]
        /\ offset' = offset + Cardinality(NextRows)
        /\ copying' \in {"read", "done"}
        /\ UNCHANGED fileVars /\ UNCHANGED <<ledger, expects, target>>
    BY <1>8 DEF ReadPage, OffsetAfter
  <2>2. NextRows = PageOf(DOMAIN events, offset, BatchSize)
    BY DEF NextRows, PageOf, RankIn
  <2> DEFINE D == DOMAIN events
             N == PageOf(D, offset, BatchSize)
  <2>3. /\ D \in SUBSET Nat /\ IsFiniteSet(D) /\ Cardinality(D) \in Nat
        /\ Cardinality(D) <= LastEvent /\ LastEvent \in Nat
        /\ offset \in Nat /\ BatchSize \in Nat
    BY <1>1, BoundedSet, LedgerAssumption DEF Fits
  <2>4. N \in SUBSET D
    BY DEF PageOf
  <2> HIDE DEF D, N
  <2>5. Cardinality(N) \in Nat /\ (N # {} => offset + Cardinality(N) <= Cardinality(D))
    BY <2>3, PageIs DEF N
  <2>6. N = {} => Cardinality(N) = 0
    BY FS_EmptySet
  <2>7. offset' \in 0..LastEvent
    BY <1>1, <2>1, <2>2, <2>3, <2>5, <2>6 DEF N, D
  <2>8. Fits(page', Committed) /\ page' = [j \in DOMAIN page' |-> page'[j]]
    BY <1>1, <2>1, <2>2, <2>4 DEF N, D, Fits, Range
  <2> QED
    BY <1>1, <1>4, <2>1, <2>7, <2>8 DEF fileVars
<1>9. CASE CopyRow
  <2> DEFINE i == Min(DOMAIN page)
  <2>1. /\ ledger' = [j \in DOMAIN ledger \cup {i} |->
                        IF j \in DOMAIN ledger THEN ledger[j] ELSE page[i]]
        /\ page' = Restrict(page, DOMAIN page \ {i})
        /\ UNCHANGED fileVars /\ UNCHANGED <<copying, offset, expects, target>>
        /\ page # NoRows
    BY <1>9 DEF CopyRow
  <2>2. DOMAIN page \in SUBSET Nat /\ DOMAIN page # {}
    <3>1. ASSUME DOMAIN page = {} PROVE page = NoRows
      <4>1. page = [j \in {} |-> page[j]]
        BY <1>1, <3>1
      <4> QED
        BY <4>1 DEF NoRows
    <3>2. \A k \in DOMAIN page : k \in Nat
      BY <1>1, LedgerAssumption DEF Fits
    <3> QED
      BY <2>1, <3>1, <3>2, Zenon
  <2>3. i \in DOMAIN page
    BY <2>2, MinIs
  <2> HIDE DEF i
  <2>4. Fits(ledger', Committed)
    <3>1. page[i] \in Range(page)
      BY <2>3 DEF Range
    <3> QED
      BY <1>1, <2>1, <2>3, <3>1, SMTT(30) DEF Fits, Range
  <2>5. Fits(page', Committed) /\ page' = [j \in DOMAIN page' |-> page'[j]]
    BY <1>1, <2>1 DEF Fits, Range, Restrict
  <2> QED
    BY <1>1, <1>4, <2>1, <2>4, <2>5 DEF fileVars
<1>10. CASE StartCopy \/ CopyEnds \/ UNCHANGED vars
  <2>1. 0 \in 0..LastEvent
    BY LedgerAssumption
  <2>2. Range(events) \subseteq Committed
    BY <1>1 DEF Fits
  <2> QED
    BY <1>1, <1>3, <1>4, <1>10, <2>1, <2>2
       DEF StartCopy, CopyEnds, vars, fileVars, copyVars, Column, NoRows
<1>11. ASSUME Committed \subseteq Committed', UNCHANGED copyVars
       PROVE  /\ Fits(ledger', Committed') /\ Fits(page', Committed')
              /\ copying' \in {"idle", "read", "done"} /\ offset' \in 0..LastEvent
              /\ expects' \in Column /\ target' \subseteq Committed'
              /\ Fits(backup, Committed') /\ Fits(events, Committed')
              /\ Fits(NoRows, Committed')
              /\ page' = [j \in DOMAIN page' |-> page'[j]]
  BY <1>1, <1>3, <1>11 DEF copyVars, Fits
<1> QED
  BY <1>1, <1>4, <1>5, <1>6, <1>7, <1>8, <1>9, <1>10, <1>11 DEF Next

(***************************************************************************)
(* The ledger, its backup and its copy have the types they should have,    *)
(* and hold nothing but committed events.                                  *)
(***************************************************************************)
THEOREM TypeInvariant == Spec => []TypeOK
<1>1. TypesInv => TypeOK
  BY DEF TypesInv
<1> QED
  BY <1>1, TypesInit, TypesStep, PTL DEF Spec
-----------------------------------------------------------------------------
(***************************************************************************)
(* The ledger of processes that take turns.                                *)
(***************************************************************************)
Calm == TakeTurns /\ RebuildIsWhole /\ RowsInOrder /\ CopyIsPrefix /\ CopyIsSound

SameRows ==
  /\ DOMAIN Rows' = DOMAIN Rows
  /\ \A i \in DOMAIN Rows : Rows'[i] = Rows[i]

\* The one process that is not down decides who rebuilds.
LEMMA OneMoves ==
  ASSUME pc \in [Opener -> Progress], NEW p \in Opener, NEW label, Goto(p, label),
         \A q \in Opener : q # p => pc[q] = "down"
  PROVE  /\ TakeTurns' /\ pc'[p] = label
         /\ \A q \in Opener : q # p => pc'[q] = "down"
         /\ Rebuilding <=> pc[p] \in {"recreate", "copy"}
         /\ Rebuilding' <=> label \in {"recreate", "copy"}
<1>1. /\ pc'[p] = label
      /\ \A q \in Opener : q # p => pc'[q] = "down"
  BY DEF Goto
<1> QED
  BY <1>1 DEF TakeTurns, Rebuilding

\* The steps of the processes other than log_event leave the rows as they are.
LEMMA TurnStep ==
  ASSUME TypesInv, TakeTurns, RebuildIsWhole, CopyIsSound, orderly, NEW p \in Opener,
         \/ Open(p) \/ Inspect(p) \/ Rename(p) \/ Recreate(p) \/ Copy(p)
         \/ OpenFails(p) \/ Stop(p)
  PROVE  /\ TakeTurns' /\ RebuildIsWhole' /\ SameRows /\ UNCHANGED copyVars
         /\ expects = "event_type" => column' = "event_type"
<1>1. /\ FileInv /\ pc \in [Opener -> Progress] /\ column \in Column
      /\ column = "none" => events = NoRows
      /\ events = [i \in DOMAIN events |-> events[i]]
  BY TypesAre DEF FileInv
<1>2. \A q \in Opener : q # p => pc[q] = "down"
  BY DEF TakeTurns, Open, Inspect, Rename, Recreate, Copy, OpenFails, Stop
<1>3. CASE Open(p)
  <2>1. ~Rebuilding /\ ~Rebuilding' /\ TakeTurns'
    BY <1>1, <1>2, <1>3, OneMoves DEF Open
  <2>2. Rows = events /\ Rows' = events'
    BY <2>1 DEF Rows
  <2> QED
    BY <1>1, <1>2, <1>3, <2>1, <2>2, OneMoves
       DEF Open, RebuildIsWhole, SameRows, CopyIsSound, copyVars
<1>4. CASE Inspect(p) \/ Stop(p)
  <2>1. PICK label \in {"rename", "up", "down"} :
          /\ Goto(p, label)
          /\ label = "rename" => column = "eve_type"
          /\ pc[p] \in {"inspect", "up"}
          /\ UNCHANGED fileVars /\ UNCHANGED copyVars
    BY <1>4 DEF Inspect, Stop
  <2>2. /\ ~Rebuilding /\ ~Rebuilding' /\ TakeTurns' /\ pc'[p] = label
        /\ \A q \in Opener : q # p => pc'[q] = "down"
    BY <1>1, <1>2, <2>1, OneMoves
  <2>3. Rows = events /\ Rows' = events'
    BY <2>2 DEF Rows
  <2> QED
    BY <2>1, <2>2, <2>3 DEF fileVars, RebuildIsWhole, SameRows, CopyIsSound, copyVars
<1>5. CASE Rename(p)
  <2>1. column = "eve_type" /\ expects # "event_type"
    BY <1>5 DEF Rename, RebuildIsWhole, CopyIsSound
  <2>2. /\ ~Rebuilding /\ Rebuilding' /\ TakeTurns' /\ pc'[p] = "recreate"
        /\ \A q \in Opener : q # p => pc'[q] = "down"
    BY <1>1, <1>2, <1>5, OneMoves DEF Rename
  <2>3. Rows = events /\ Rows' = backup' /\ backup' = events
    BY <1>5, <2>2 DEF Rows, Rename
  <2> QED
    BY <1>5, <2>1, <2>2, <2>3 DEF Rename, RebuildIsWhole, SameRows, copyVars
<1>6. CASE Recreate(p)
  <2>1. column = "none" /\ events = NoRows /\ expects # "event_type"
    BY <1>6 DEF Recreate, RebuildIsWhole, CopyIsSound
  <2>2. /\ Rebuilding /\ Rebuilding' /\ TakeTurns' /\ pc'[p] = "copy"
        /\ \A q \in Opener : q # p => pc'[q] = "down"
    BY <1>1, <1>2, <1>6, OneMoves DEF Recreate
  <2>3. Rows = backup /\ Rows' = backup' /\ backup' = backup
    BY <1>6, <2>2 DEF Rows, Recreate
  <2> QED
    BY <1>6, <2>1, <2>2, <2>3 DEF Recreate, RebuildIsWhole, SameRows, copyVars
<1>7. CASE Copy(p)
  <2>1. column = "event_type" /\ events = NoRows
    BY <1>7 DEF Copy, RebuildIsWhole
  <2>2. /\ Rebuilding /\ ~Rebuilding' /\ TakeTurns' /\ pc'[p] = "up"
        /\ \A q \in Opener : q # p => pc'[q] = "down"
    BY <1>1, <1>2, <1>7, OneMoves DEF Copy
  <2>3. Rows = backup /\ Rows' = events' /\ backup' = backup
    BY <1>7, <2>2 DEF Rows, Copy
  <2>4. DOMAIN events' = DOMAIN backup /\ \A i \in DOMAIN backup : events'[i] = backup[i]
    <3>1. events' = [i \in DOMAIN events \cup DOMAIN backup |->
                       IF i \in DOMAIN backup THEN backup[i] ELSE events[i]]
      BY <1>7 DEF Copy
    <3> QED
      BY <2>1, <3>1 DEF NoRows
  <2>5. Range(backup') \subseteq Range(events')
    BY <2>3, <2>4 DEF Range
  <2>6. UNCHANGED <<column, copyVars>>
    BY <1>7 DEF Copy
  <2> QED
    BY <2>1, <2>2, <2>3, <2>4, <2>5, <2>6 DEF RebuildIsWhole, SameRows, copyVars
<1>8. CASE OpenFails(p)
  BY <1>8 DEF OpenFails, RebuildIsWhole, NoRows
<1> QED
  BY <1>3, <1>4, <1>5, <1>6, <1>7, <1>8

\* A copy that is left alone while the rows stay is as good as before.
LEMMA RowsStay ==
  ASSUME SameRows, UNCHANGED copyVars, RowsInOrder, CopyIsPrefix, CopyIsSound,
         expects = "event_type" => column' = "event_type"
  PROVE  RowsInOrder' /\ CopyIsPrefix' /\ CopyIsSound' /\ Range(Rows') = Range(Rows)
<1>1. Range(Rows') = Range(Rows)
  BY DEF SameRows, Range
<1>2. RowsInOrder'
  BY DEF RowsInOrder, SameRows
<1>3. \A i : Rank(i)' = Rank(i)
  BY DEF Rank, SameRows
<1>4. CopyIsPrefix'
  BY <1>3 DEF CopyIsPrefix, SameRows, copyVars
<1>5. CopyIsSound'
  BY <1>1 DEF CopyIsSound, copyVars
<1> QED
  BY <1>1, <1>2, <1>4, <1>5
\* The tables of the ledger are finite, and the rows are ranked among themselves.
LEMMA RowsAre ==
  ASSUME TypesInv
  PROVE  /\ DOMAIN Rows \in SUBSET Nat /\ IsFiniteSet(DOMAIN Rows)
         /\ Cardinality(DOMAIN Rows) \in Nat /\ Range(Rows) \subseteq 1..lastEvent
         /\ \A i : Rank(i) = RankIn(DOMAIN Rows, i)
         /\ \A i \in DOMAIN Rows : Rank(i) \in Nat /\ Rank(i) > 0
         /\ lastEvent \in Nat /\ offset \in Nat
<1>1. /\ Fits(events, Committed) /\ Fits(backup, Committed)
      /\ LastEvent \in Nat /\ offset \in Nat
  BY TypesAre, LedgerAssumption
<1>2. Committed \subseteq 1..lastEvent /\ lastEvent \in Nat
  BY TypesAre, CommittedIs
<1>3. DOMAIN Rows \in SUBSET (1..LastEvent) /\ Range(Rows) \subseteq 1..lastEvent
  BY <1>1, <1>2 DEF Rows, Fits
<1>4. DOMAIN Rows \in SUBSET Nat
  BY <1>1, <1>3
<1>5. IsFiniteSet(DOMAIN Rows) /\ Cardinality(DOMAIN Rows) \in Nat
  BY <1>1, <1>3, BoundedSet
<1>6. \A i : Rank(i) = RankIn(DOMAIN Rows, i)
  BY DEF Rank, RankIn
<1>7. \A i \in DOMAIN Rows : Rank(i) \in 1..Cardinality(DOMAIN Rows)
  BY <1>4, <1>5, <1>6, RankType
<1> QED
  BY <1>1, <1>2, <1>3, <1>4, <1>5, <1>6, <1>7

\* A new row comes last, by its id, by its event and by its rank.
LEMMA LogStep ==
  ASSUME TypesInv, Calm, NEW p \in Opener, LogEvent(p)
  PROVE  /\ Calm' /\ Range(Rows') = Range(Rows) \cup {lastEvent + 1}
         /\ \A e \in Range(Rows) : e < lastEvent + 1
<1> DEFINE D == DOMAIN events
<1>0. PICK n : n = sequence + 1
  OBVIOUS
<1>1. /\ pc[p] = "up" /\ UNCHANGED openVars /\ UNCHANGED copyVars
      /\ UNCHANGED <<column, backup>>
      /\ events' = [i \in D \cup {n} |-> IF i = n THEN lastEvent + 1 ELSE events[i]]
  BY <1>0 DEF LogEvent
<1>2. /\ ~Rebuilding /\ ~Rebuilding' /\ TakeTurns'
      /\ \A q \in Opener : pc'[q] = pc[q] /\ (q # p => pc[q] = "down")
  BY <1>1 DEF Calm, TakeTurns, Rebuilding, openVars
<1>3. Rows = events /\ Rows' = events'
  BY <1>2 DEF Rows
<1>4. /\ D \in SUBSET Nat /\ IsFiniteSet(D) /\ Cardinality(D) \in Nat
      /\ Range(events) \subseteq 1..lastEvent /\ lastEvent \in Nat /\ offset \in Nat
  BY <1>3, RowsAre
<1>5. n \in Nat /\ n \notin D /\ \A i \in D : i \in Nat /\ i < n
  <2>1. sequence \in Nat /\ D \subseteq 1..sequence
    BY DEF TypesInv, FileInv
  <2> QED
    BY <1>0, <2>1
<1>6. /\ DOMAIN events' = D \cup {n} /\ events'[n] = lastEvent + 1
      /\ \A i \in D : events'[i] = events[i]
  BY <1>1, <1>5
<1>7. /\ Range(events') = Range(events) \cup {lastEvent + 1}
      /\ \A i \in D : events[i] \in 1..lastEvent
  BY <1>4, <1>6 DEF Range
<1>8. Cardinality(D \cup {n}) = Cardinality(D) + 1
  BY <1>4, <1>5, FS_AddElement
<1> HIDE DEF D
<1>9. /\ \A i \in D : Rank(i)' = Rank(i)
      /\ Rank(n)' = Cardinality(D) + 1
  <2>1. ASSUME NEW i \in D
        PROVE  {j \in D \cup {n} : j <= i} = {j \in D : j <= i}
    BY <1>5
  <2>2. {j \in D \cup {n} : j <= n} = D \cup {n}
    <3>1. \A j \in D \cup {n} : j <= n
      BY <1>5
    <3> QED
      BY <3>1
  <2>3. \A i : Rank(i)' = Cardinality({j \in D \cup {n} : j <= i})
    BY <1>3, <1>6 DEF Rank
  <2>4. \A i : Rank(i) = Cardinality({j \in D : j <= i})
    BY <1>3 DEF Rank, D
  <2> QED
    BY <1>8, <2>1, <2>2, <2>3, <2>4
<1>10. RowsInOrder'
  <2> SUFFICES ASSUME NEW i \in D \cup {n}, NEW j \in D \cup {n}, i < j
               PROVE  events'[i] < events'[j]
    BY <1>3, <1>6 DEF RowsInOrder
  <2>1. i \in D
    BY <1>5
  <2>2. CASE j = n
    BY <1>4, <1>6, <1>7, <2>1, <2>2
  <2>3. CASE j \in D
    BY <1>3, <1>6, <2>1, <2>3 DEF Calm, RowsInOrder, D
  <2> QED
    BY <2>2, <2>3
<1>11. CopyIsPrefix'
  <2>1. offset <= Cardinality(D)
    BY <1>3 DEF Calm, CopyIsPrefix, D
  <2>2. ~(Cardinality(D) + 1 <= offset) /\ offset <= Cardinality(D) + 1
    BY <1>4, <2>1
  <2>3. ledger' = ledger /\ page' = page /\ offset' = offset
    BY <1>1 DEF copyVars
  <2>4. \A i \in D \cup {n} : Rank(i)' <= offset => i \in DOMAIN ledger \cup DOMAIN page
    <3>1. \A i \in D : Rank(i) <= offset => i \in DOMAIN ledger \cup DOMAIN page
      BY <1>3 DEF Calm, CopyIsPrefix, D
    <3> QED
      BY <1>9, <2>2, <3>1
  <2>5. \A part \in {ledger, page} :
          DOMAIN part \subseteq D \cup {n} /\ \A i \in DOMAIN part : part[i] = events'[i]
    BY <1>3, <1>6 DEF Calm, CopyIsPrefix, D
  <2>6. \A i \in DOMAIN page : Rank(i)' <= offset
    BY <1>3, <1>9 DEF Calm, CopyIsPrefix, D
  <2> QED
    BY <1>3, <1>6, <1>8, <2>2, <2>3, <2>4, <2>5, <2>6 DEF CopyIsPrefix
<1>12. CopyIsSound'
  BY <1>1, <1>3, <1>7 DEF Calm, CopyIsSound, copyVars
<1>13. RebuildIsWhole'
  BY <1>1, <1>2, <1>7 DEF Calm, RebuildIsWhole, openVars, copyVars
<1>14. \A e \in Range(events) : e < lastEvent + 1
  BY <1>4
<1> QED
  BY <1>2, <1>3, <1>7, <1>10, <1>11, <1>12, <1>13, <1>14 DEF Calm

\* Nobody has the ledger open at the start, and nothing is copied.
LEMMA CalmInit == Init => Calm
<1> SUFFICES ASSUME Init PROVE Calm
  OBVIOUS
<1>1. TypesInv /\ pc = [p \in Opener |-> "down"] /\ backup = NoRows
  BY TypesInit DEF Init
<1>2. ~Rebuilding
  BY <1>1 DEF Rebuilding
<1>3. Rows = events /\ events = [i \in LegacyIds |-> i]
  BY <1>2 DEF Rows, Init
<1>4. Range(backup) = {} /\ DOMAIN NoRows = {}
  BY <1>1 DEF NoRows, Range
<1>5. TakeTurns /\ RebuildIsWhole
  BY <1>1, <1>4 DEF TakeTurns, RebuildIsWhole
<1>6. RowsInOrder
  BY <1>3 DEF RowsInOrder
<1>7. ledger = NoRows /\ page = NoRows /\ offset = 0 /\ target = {}
      /\ copying = "idle" /\ expects = "none"
  BY DEF Init
<1>8. CopyIsPrefix
  BY <1>1, <1>4, <1>7, RowsAre DEF CopyIsPrefix
<1>9. CopyIsSound
  BY <1>7 DEF CopyIsSound
<1> QED
  BY <1>5, <1>6, <1>8, <1>9 DEF Calm
\* The beginning and the end of a copy: nothing is in hand, nothing is passed.
LEMMA RestartStep ==
  ASSUME TypesInv, Calm, StartCopy \/ CopyEnds
  PROVE  Calm' /\ Rows' = Rows /\ Range(ledger') = Range(ledger)
<1>1. /\ UNCHANGED fileVars /\ UNCHANGED openVars /\ ledger' = ledger
      /\ page' = NoRows /\ offset' = 0 /\ copying' # "done"
      /\ \/ expects' = column /\ column # "none" /\ target' = Range(events)
         \/ expects' = "none" /\ target' = {} /\ copying' = "idle"
  BY DEF StartCopy, CopyEnds
<1>2. (Rebuilding' <=> Rebuilding) /\ Rows' = Rows /\ TakeTurns'
  BY <1>1 DEF fileVars, openVars, Rows, Rebuilding, Calm, TakeTurns
<1>3. /\ \A i \in DOMAIN Rows : ~(Rank(i)' <= 0)
      /\ 0 <= Cardinality(DOMAIN Rows)
  <2>1. \A i : Rank(i)' = Rank(i)
    BY <1>2 DEF Rank
  <2> QED
    BY <2>1, RowsAre
<1>4. Range(NoRows) = {} /\ DOMAIN NoRows = {}
  BY DEF NoRows, Range
<1>5. target' \subseteq Range(Rows) /\ (events = NoRows => target' = {})
  <2>1. Rebuilding => events = NoRows
    BY DEF Rebuilding, Calm, RebuildIsWhole
  <2> QED
    BY <1>1, <1>4, <2>1 DEF Rows
<1>6. CopyIsPrefix'
  BY <1>1, <1>2, <1>3, <1>4 DEF Calm, CopyIsPrefix
<1>7. CopyIsSound'
  BY <1>1, <1>2, <1>5 DEF CopyIsSound, fileVars
<1>8. RebuildIsWhole'
  BY <1>1, <1>2, <1>5 DEF Calm, RebuildIsWhole, fileVars, openVars
<1>9. RowsInOrder'
  BY <1>2 DEF Calm, RowsInOrder
<1> QED
  BY <1>1, <1>2, <1>6, <1>7, <1>8, <1>9 DEF Calm

\* The next page continues where the offset is; the empty one ends the copy, and
\* what is not in it was copied.
LEMMA PageStep ==
  ASSUME TypesInv, Calm, ReadPage
  PROVE  Calm' /\ Rows' = Rows /\ Range(ledger') = Range(ledger)
<1> DEFINE D == DOMAIN Rows
           N == PageOf(D, offset, BatchSize)
<1>1. /\ UNCHANGED fileVars /\ UNCHANGED openVars
      /\ UNCHANGED <<ledger, expects, target>>
      /\ copying = "read" /\ page = NoRows /\ column = expects
      /\ page' = [i \in NextRows |-> events[i]]
      /\ offset' = offset + Cardinality(NextRows)
      /\ copying' = IF NextRows = {} THEN "done" ELSE "read"
  BY DEF ReadPage, OffsetAfter
<1>2. (Rebuilding' <=> Rebuilding) /\ Rows' = Rows /\ TakeTurns'
  BY <1>1 DEF fileVars, openVars, Rows, Rebuilding, Calm, TakeTurns
<1>3. /\ D \in SUBSET Nat /\ IsFiniteSet(D) /\ Cardinality(D) \in Nat
      /\ offset \in Nat /\ BatchSize \in Nat \ {0}
      /\ \A i \in D : Rank(i)' = RankIn(D, i)
      /\ \A i \in D : Rank(i) = RankIn(D, i) /\ RankIn(D, i) \in Nat
  <2>1. \A i : Rank(i)' = Rank(i)
    BY <1>2 DEF Rank
  <2> QED
    BY <2>1, RowsAre, LedgerAssumption
<1>4. /\ DOMAIN ledger \subseteq D /\ \A i \in DOMAIN ledger : ledger[i] = Rows[i]
      /\ \A i \in D : RankIn(D, i) <= offset => i \in DOMAIN ledger
      /\ offset <= Cardinality(D)
  <2>1. DOMAIN page = {}
    BY <1>1 DEF NoRows
  <2> QED
    BY <1>3, <2>1 DEF Calm, CopyIsPrefix
<1>5. RowsInOrder' /\ RebuildIsWhole'
  BY <1>1, <1>2 DEF Calm, RowsInOrder, RebuildIsWhole, fileVars, openVars
<1>6. CASE Rebuilding
  <2>1. PICK p \in Opener : pc[p] \in {"recreate", "copy"}
    BY <1>6 DEF Rebuilding
  <2>2. pc[p] = "copy" /\ events = NoRows /\ target = {}
    BY <1>1, <2>1 DEF Calm, RebuildIsWhole, CopyIsSound
  <2>3. NextRows = {}
    BY <2>2 DEF NextRows, NoRows
  <2>4. offset' = offset /\ DOMAIN page' = {}
    BY <1>1, <1>3, <2>3, FS_EmptySet
  <2>5. CopyIsPrefix'
    BY <1>1, <1>2, <1>3, <1>4, <2>4 DEF CopyIsPrefix
  <2>6. CopyIsSound'
    BY <1>1, <1>2, <2>2 DEF Calm, CopyIsSound, fileVars
  <2> QED
    BY <1>1, <1>2, <1>5, <2>5, <2>6 DEF Calm
<1>7. CASE ~Rebuilding
  <2>1. Rows = events /\ NextRows = N
    BY <1>7 DEF Rows, NextRows, PageOf, RankIn
  <2>2. N \in SUBSET D
    BY DEF PageOf
  <2> HIDE DEF D, N
  <2>3. /\ IsFiniteSet(N) /\ Cardinality(N) \in Nat
        /\ \A i \in D : RankIn(D, i) <= offset + Cardinality(N) =>
             RankIn(D, i) <= offset \/ i \in N
        /\ \A i \in N : RankIn(D, i) <= offset + Cardinality(N)
        /\ N # {} => offset + Cardinality(N) <= Cardinality(D)
    BY <1>3, PageIs DEF N
  <2>4. N = {} => Cardinality(N) = 0
    BY FS_EmptySet
  <2>5. offset' \in Nat /\ offset' <= Cardinality(D)
    BY <1>1, <1>3, <1>4, <2>1, <2>3, <2>4
  <2>6. DOMAIN page' = N /\ \A i \in N : page'[i] = Rows[i]
    BY <1>1, <2>1
  <2>7. \A i \in D : RankIn(D, i) <= offset' => i \in DOMAIN ledger \cup N
    BY <1>1, <1>4, <2>1, <2>3
  <2>8. \A i \in N : Rank(i)' <= offset'
    BY <1>1, <1>3, <2>1, <2>2, <2>3
  <2>9. CopyIsPrefix'
    <3>1. \A i \in D : Rank(i)' <= offset' => i \in DOMAIN ledger' \cup DOMAIN page'
      BY <1>1, <1>3, <2>6, <2>7
    <3>2. \A part \in {ledger', page'} :
            DOMAIN part \subseteq D /\ \A i \in DOMAIN part : part[i] = Rows[i]
      BY <1>1, <1>4, <2>2, <2>6
    <3> QED
      BY <1>2, <2>5, <2>6, <2>8, <3>1, <3>2 DEF CopyIsPrefix, D
  <2>10. N = {} => target \subseteq Range(ledger)
    <3> SUFFICES ASSUME N = {} PROVE Range(Rows) \subseteq Range(ledger)
      BY DEF Calm, CopyIsSound
    <3>1. \A i \in D : RankIn(D, i) <= offset
      BY <1>3, EmptyPage DEF N
    <3>2. \A i \in D : i \in DOMAIN ledger /\ ledger[i] = Rows[i]
      BY <1>4, <3>1
    <3> QED
      BY <3>2 DEF Range, D
  <2>11. CopyIsSound'
    BY <1>1, <1>2, <2>1, <2>10 DEF Calm, CopyIsSound, fileVars
  <2> QED
    BY <1>1, <1>2, <1>5, <2>9, <2>11 DEF Calm
<1> QED
  BY <1>6, <1>7

\* The row that is copied is the first that was not.
LEMMA RowStep ==
  ASSUME TypesInv, Calm, CopyRow
  PROVE  /\ Calm' /\ Rows' = Rows
         /\ \/ Range(ledger') = Range(ledger)
            \/ \E e \in Range(Rows) :
                 /\ Range(ledger') = Range(ledger) \cup {e}
                 /\ \A d \in Range(Rows) : d < e => d \in Range(ledger)
<1> DEFINE D == DOMAIN Rows
<1>0. PICK i : i = Min(DOMAIN page)
  OBVIOUS
<1>1. /\ UNCHANGED fileVars /\ UNCHANGED openVars
      /\ UNCHANGED <<copying, offset, expects, target>>
      /\ copying = "read" /\ page # NoRows
      /\ ledger' = [j \in DOMAIN ledger \cup {i} |->
                      IF j \in DOMAIN ledger THEN ledger[j] ELSE page[i]]
      /\ page' = [j \in DOMAIN page \ {i} |-> page[j]]
  BY <1>0 DEF CopyRow, Restrict
<1>2. (Rebuilding' <=> Rebuilding) /\ Rows' = Rows /\ TakeTurns'
  BY <1>1 DEF fileVars, openVars, Rows, Rebuilding, Calm, TakeTurns
<1>3. /\ D \in SUBSET Nat /\ IsFiniteSet(D)
      /\ Range(Rows) \subseteq 1..lastEvent /\ lastEvent \in Nat /\ offset \in Nat
      /\ \A j : Rank(j)' = Rank(j)
      /\ \A j \in D : Rank(j) = RankIn(D, j) /\ Rank(j) \in Nat
  <2>1. \A j : Rank(j)' = Rank(j)
    BY <1>2 DEF Rank
  <2> QED
    BY <2>1, RowsAre
<1>4. /\ DOMAIN ledger \subseteq D /\ \A j \in DOMAIN ledger : ledger[j] = Rows[j]
      /\ DOMAIN page \subseteq D /\ \A j \in DOMAIN page : page[j] = Rows[j]
      /\ \A j \in D : Rank(j) <= offset => j \in DOMAIN ledger \cup DOMAIN page
      /\ \A j \in DOMAIN page : Rank(j) <= offset
      /\ offset <= Cardinality(D)
  BY DEF Calm, CopyIsPrefix
<1>5. i \in DOMAIN page /\ \A j \in DOMAIN page : i <= j
  <2>1. ASSUME DOMAIN page = {} PROVE page = NoRows
    <3>1. page = [j \in {} |-> page[j]]
      BY <2>1 DEF TypesInv
    <3> QED
      BY <3>1 DEF NoRows
  <2>2. DOMAIN page \in SUBSET Nat /\ DOMAIN page # {}
    BY <1>1, <1>3, <1>4, <2>1
  <2> QED
    BY <1>0, <2>2, MinIs
<1>6. i \in D /\ page[i] = Rows[i] /\ Rank(i) <= offset
  BY <1>4, <1>5
<1> HIDE DEF D
<1>7. /\ DOMAIN ledger' = DOMAIN ledger \cup {i}
      /\ \A j \in DOMAIN ledger' : ledger'[j] = Rows[j]
      /\ DOMAIN page' = DOMAIN page \ {i}
      /\ \A j \in DOMAIN page' : page'[j] = Rows[j]
  BY <1>1, <1>4, <1>6
<1>8. CopyIsPrefix'
  <2>1. \A part \in {ledger', page'} :
          DOMAIN part \subseteq D /\ \A j \in DOMAIN part : part[j] = Rows[j]
    BY <1>4, <1>6, <1>7
  <2>2. \A j \in D : Rank(j)' <= offset => j \in DOMAIN ledger' \cup DOMAIN page'
    BY <1>3, <1>4, <1>7
  <2>3. \A j \in DOMAIN page' : Rank(j)' <= offset
    BY <1>3, <1>4, <1>7
  <2> QED
    BY <1>1, <1>2, <1>4, <2>1, <2>2, <2>3 DEF CopyIsPrefix, D
<1>9. RowsInOrder' /\ RebuildIsWhole' /\ CopyIsSound'
  BY <1>1, <1>2 DEF Calm, RowsInOrder, RebuildIsWhole, CopyIsSound, fileVars, openVars
<1>10. CASE i \in DOMAIN ledger
  <2>1. Range(ledger') = Range(ledger)
    BY <1>4, <1>7, <1>10 DEF Range
  <2> QED
    BY <1>2, <1>8, <1>9, <2>1 DEF Calm
<1>11. CASE i \notin DOMAIN ledger
  <2>1. Range(ledger') = Range(ledger) \cup {Rows[i]}
    BY <1>4, <1>7 DEF Range
  <2>2. Rows[i] \in Range(Rows)
    BY <1>6 DEF Range, D
  <2>3. ASSUME NEW d \in Range(Rows), d < Rows[i]
        PROVE  d \in Range(ledger)
    <3>1. PICK j \in D : Rows[j] = d
      BY DEF Range, D
    <3>2. i \in Nat /\ j \in Nat /\ d \in Nat /\ Rows[i] \in Nat
      BY <1>3, <1>6, <2>2, <3>1
    <3>3. i < j => Rows[i] < Rows[j]
      BY <1>6, <3>1 DEF Calm, RowsInOrder, D
    <3>4. j < i
      BY <2>3, <3>1, <3>2, <3>3
    <3>5. Rank(j) < Rank(i)
      BY <1>3, <1>6, <3>1, <3>4, RankIncreases
    <3>6. Rank(j) <= offset
      BY <1>3, <1>6, <3>1, <3>5
    <3>7. j \in DOMAIN ledger /\ ledger[j] = d
      BY <1>4, <1>5, <3>1, <3>2, <3>4, <3>6
    <3> QED
      BY <3>7 DEF Range
  <2> QED
    BY <1>2, <1>8, <1>9, <2>1, <2>2, <2>3 DEF Calm
<1> QED
  BY <1>10, <1>11
LogIsRows == orderly => Events \cup Range(backup) = Range(Rows)

\* The log of the refinement is what the rows of the ledger hold.
LEMMA AllRows == OrderlyInv => LogIsRows
<1> SUFFICES ASSUME RebuildIsWhole PROVE Events \cup Range(backup) = Range(Rows)
  BY DEF OrderlyInv, LogIsRows
<1>1. CASE Rebuilding
  <2>1. events = NoRows
    BY <1>1 DEF Rebuilding, RebuildIsWhole
  <2> QED
    BY <1>1, <2>1 DEF Events, NoRows, Range, Rows
<1>2. CASE ~Rebuilding
  BY <1>2 DEF Events, Rows, RebuildIsWhole
<1> QED
  BY <1>1, <1>2

\* Every step keeps the invariant, and lets the log and its replica grow in order.
LEMMA OrderlyStep ==
  ASSUME TypesInv, orderly, Calm, Next
  PROVE  /\ Calm'
         /\ \/ Range(Rows') = Range(Rows) /\ Range(ledger') = Range(ledger)
            \/ /\ Range(Rows') = Range(Rows) \cup {lastEvent + 1}
               /\ \A e \in Range(Rows) : e < lastEvent + 1
               /\ Range(ledger') = Range(ledger)
            \/ /\ Range(Rows') = Range(Rows)
               /\ \E e \in Range(Rows) :
                    /\ Range(ledger') = Range(ledger) \cup {e}
                    /\ \A d \in Range(Rows) : d < e => d \in Range(ledger)
<1>1. ASSUME NEW p \in Opener,
             \/ Open(p) \/ Inspect(p) \/ Rename(p) \/ Recreate(p) \/ Copy(p)
             \/ OpenFails(p) \/ Stop(p)
      PROVE  Calm' /\ Range(Rows') = Range(Rows) /\ Range(ledger') = Range(ledger)
  <2>1. /\ TakeTurns' /\ RebuildIsWhole' /\ SameRows /\ UNCHANGED copyVars
        /\ expects = "event_type" => column' = "event_type"
    BY <1>1, TurnStep DEF Calm
  <2>2. RowsInOrder' /\ CopyIsPrefix' /\ CopyIsSound' /\ Range(Rows') = Range(Rows)
    BY <2>1, RowsStay DEF Calm
  <2> QED
    BY <2>1, <2>2 DEF Calm, copyVars
<1>2. ASSUME NEW p \in Opener, LogEvent(p)
      PROVE  /\ Calm' /\ Range(Rows') = Range(Rows) \cup {lastEvent + 1}
             /\ \A e \in Range(Rows) : e < lastEvent + 1
             /\ Range(ledger') = Range(ledger)
  BY <1>2, LogStep DEF LogEvent, copyVars
<1> QED
  BY <1>1, <1>2, RestartStep, PageStep, RowStep DEF Next

\* The invariants of the types and of processes that take turns hold
\* throughout.
LEMMA OrderlyInvariant == Spec => [](TypesInv /\ OrderlyInv)
<1>1. Init => TypesInv /\ OrderlyInv
  BY TypesInit, CalmInit DEF OrderlyInv, Calm
<1>2. TypesInv /\ OrderlyInv /\ [Next]_vars => (TypesInv /\ OrderlyInv)'
  <2> SUFFICES ASSUME TypesInv, OrderlyInv, [Next]_vars, orderly'
               PROVE  Calm'
    BY TypesStep DEF OrderlyInv, Calm
  <2>1. orderly /\ Calm
    BY DEF Next, vars, OrderlyInv, Calm
  <2>2. CASE Next
    BY <2>1, <2>2, OrderlyStep
  <2>3. CASE UNCHANGED vars
    BY <2>1, <2>3 DEF vars, fileVars, openVars, copyVars, Calm, TakeTurns,
       RebuildIsWhole, RowsInOrder, CopyIsPrefix, CopyIsSound, Rows, Rank, Rebuilding
  <2> QED
    BY <2>2, <2>3
<1> QED
  BY <1>1, <1>2, PTL DEF Spec

(***************************************************************************)
(* Processes that take turns leave no event out of sight: whoever opens    *)
(* the ledger finds the whole of it, however often it was rebuilt.         *)
(***************************************************************************)
THEOREM EverythingVisible == Spec => []VisibleIfOrderly
<1>1. TypesInv /\ OrderlyInv => VisibleIfOrderly
  <2> SUFFICES ASSUME TypesInv, OrderlyInv, orderly,
                      \A p \in Opener : pc[p] \notin {"recreate", "copy"}
               PROVE  Committed \subseteq Events
    BY DEF VisibleIfOrderly, EventsAreVisible
  <2>1. RebuildIsWhole /\ ~Rebuilding /\ NothingDestroyed
    BY DEF OrderlyInv, Rebuilding, TypesInv, FileInv
  <2> QED
    BY <2>1 DEF RebuildIsWhole, NothingDestroyed, Events
<1> QED
  BY <1>1, OrderlyInvariant, PTL

(***************************************************************************)
(* A copy that ran while they took turns has every row under its id, and   *)
(* at its end all the rows that it found.                                  *)
(***************************************************************************)
THEOREM FaithfulCopy == Spec => []CopyIsFaithful
<1>1. OrderlyInv => CopyIsFaithful
  <2> SUFFICES ASSUME OrderlyInv, orderly PROVE CopyIsFaithful
    BY DEF CopyIsFaithful, CopiedUnderItsId, CopyIsComplete
  <2>1. RebuildIsWhole /\ CopyIsPrefix /\ CopyIsSound
    BY DEF OrderlyInv
  <2>2. ASSUME NEW i \in DOMAIN ledger \cap DOMAIN events
        PROVE  ledger[i] = events[i]
    <3>1. events # NoRows
      BY DEF NoRows
    <3>2. ~Rebuilding
      BY <2>1, <3>1 DEF RebuildIsWhole, Rebuilding
    <3> QED
      BY <2>1, <3>2 DEF Rows, CopyIsPrefix
  <2> QED
    BY <2>1, <2>2 DEF CopyIsFaithful, CopiedUnderItsId, CopyIsComplete, CopyIsSound
<1> QED
  BY <1>1, OrderlyInvariant, PTL

(***************************************************************************)
(* The ledger implements the log that only grows, and its copy the replica *)
(* that follows it in order.                                               *)
(***************************************************************************)
THEOREM LedgerIsALog == Spec => ImplementsLog
<1> DEFINE log == IF orderly THEN Events \cup Range(backup) ELSE {}
           replica == IF orderly THEN Range(ledger) ELSE {}
<1>1. Init => Log!Init
  <2> SUFFICES ASSUME Init PROVE log \in SUBSET Nat /\ replica = {}
    BY DEF Log!Init
  <2>1. replica = {}
    BY DEF Init, NoRows, Range
  <2>2. TypesInv /\ LogIsRows
    BY TypesInit, CalmInit, AllRows DEF Calm, OrderlyInv
  <2>3. Range(Rows) \subseteq Nat
    BY <2>2, RowsAre
  <2> QED
    BY <2>1, <2>2, <2>3 DEF LogIsRows
<1>2. TypesInv /\ OrderlyInv /\ LogIsRows /\ LogIsRows' /\ [Next]_vars
      => [Log!Append \/ Log!Replicate]_<<log, replica>>
  <2> SUFFICES ASSUME TypesInv, OrderlyInv, LogIsRows, LogIsRows', [Next]_vars
               PROVE  [Log!Append \/ Log!Replicate]_<<log, replica>>
    OBVIOUS
  <2>1. orderly' = orderly
    BY DEF Next, vars
  <2>2. CASE ~orderly
    BY <2>1, <2>2
  <2>3. CASE orderly /\ UNCHANGED vars
    BY <2>1, <2>3 DEF vars, fileVars, copyVars, Events
  <2>4. CASE orderly /\ Next
    <3>1. Calm
      BY <2>4 DEF OrderlyInv, Calm
    <3>2. log = Range(Rows) /\ replica = Range(ledger)
      BY <2>4 DEF LogIsRows
    <3>3. log' = Range(Rows') /\ replica' = Range(ledger')
      BY <2>1, <2>4 DEF LogIsRows
    <3> HIDE DEF log, replica
    <3>4. CASE Range(Rows') = Range(Rows) /\ Range(ledger') = Range(ledger)
      BY <3>2, <3>3, <3>4
    <3>5. CASE /\ Range(Rows') = Range(Rows) \cup {lastEvent + 1}
               /\ \A e \in Range(Rows) : e < lastEvent + 1
               /\ Range(ledger') = Range(ledger)
      <4>1. Log!Append
        BY <3>2, <3>3, <3>5 DEF Log!Append, log, replica
      <4> QED
        BY <4>1
    <3>6. CASE /\ Range(Rows') = Range(Rows)
               /\ \E e \in Range(Rows) :
                    /\ Range(ledger') = Range(ledger) \cup {e}
                    /\ \A d \in Range(Rows) : d < e => d \in Range(ledger)
      <4>1. Log!Replicate
        BY <3>2, <3>3, <3>6 DEF Log!Replicate, log, replica
      <4> QED
        BY <4>1
    <3> QED
      BY <2>4, <3>1, <3>4, <3>5, <3>6, OrderlyStep
  <2> QED
    BY <2>2, <2>3, <2>4
<1> QED
  BY <1>1, <1>2, AllRows, OrderlyInvariant, PTL DEF Spec, ImplementsLog, Log!Spec
=============================================================================
