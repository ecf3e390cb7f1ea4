------------------------- MODULE ReasoningRunProofs -------------------------
(***************************************************************************)
(* Proofs about ReasoningRun, whatever the setups, the contexts, the       *)
(* scenarios, the rewards and the limits, however many runners take the    *)
(* run up and wherever they end.                                           *)
(*                                                                         *)
(* What the selector knows is what the ledger has: bags are compared by    *)
(* the copies they hold, and the copies of a sequence are its places.      *)
(*                                                                         *)
(* What an episode plans and runs is what the validator lets through: each *)
(* family has a place in the validated order, putting an overlay in after  *)
(* its anchor keeps that order, what is kept of a pool has room in the     *)
(* steps, and so the first correction passes.                              *)
(***************************************************************************)
EXTENDS ReasoningRun, FiniteSetTheorems, FunctionTheorems, SequenceTheorems,
        WellFoundedInduction, TLAPS

Copies(x, B) == IF x \in DOMAIN B THEN B[x] ELSE 0
Places(x, s) == {i \in 1..Len(s) : s[i] = x}

-----------------------------------------------------------------------------
(* Bags, by the copies they hold.                                          *)

\* A bag holds a natural number of copies, none of what it does not have.
LEMMA CopiesType ==
  ASSUME NEW B, IsABag(B)
  PROVE  \A x : /\ Copies(x, B) \in Nat
                /\ Copies(x, B) > 0 <=> x \in DOMAIN B
BY DEF IsABag, Copies

\* The sum of two bags has the copies of both.
LEMMA Joined ==
  ASSUME NEW A, NEW B, IsABag(A), IsABag(B)
  PROVE  /\ IsABag(A (+) B)
         /\ \A x : Copies(x, A (+) B) = Copies(x, A) + Copies(x, B)
<1>1. DOMAIN (A (+) B) = DOMAIN A \cup DOMAIN B
  BY DEF (+)
<1>2. \A x \in DOMAIN (A (+) B) : (A (+) B)[x] = Copies(x, A) + Copies(x, B)
  BY <1>1 DEF (+), Copies
<1>3. \A x : Copies(x, A) \in Nat /\ Copies(x, B) \in Nat
  BY CopiesType
<1>4. ASSUME NEW x \in DOMAIN (A (+) B)
      PROVE  (A (+) B)[x] \in {n \in Nat : n > 0}
  <2>1. Copies(x, A) > 0 \/ Copies(x, B) > 0
    BY <1>1, <1>4, CopiesType
  <2> QED BY <1>2, <1>3, <1>4, <2>1
<1>5. IsABag(A (+) B)
  <2>1. A (+) B = [x \in DOMAIN (A (+) B) |-> (A (+) B)[x]]
    BY DEF (+)
  <2> QED BY <1>4, <2>1 DEF IsABag
<1>6. ASSUME NEW x PROVE Copies(x, A (+) B) = Copies(x, A) + Copies(x, B)
  <2>1. CASE x \in DOMAIN (A (+) B)
    BY <1>2, <2>1 DEF Copies
  <2>2. CASE x \notin DOMAIN (A (+) B)
    BY <1>1, <2>2 DEF Copies
  <2> QED BY <2>1, <2>2
<1> QED BY <1>5, <1>6

\* Bags of one thing and of nothing.
LEMMA Single ==
  /\ IsABag(EmptyBag) /\ \A x : Copies(x, EmptyBag) = 0
  /\ \A w : /\ IsABag(SetToBag({w}))
            /\ \A x : Copies(x, SetToBag({w})) = IF x = w THEN 1 ELSE 0
<1>1. IsABag(EmptyBag) /\ \A x : Copies(x, EmptyBag) = 0
  BY DEF EmptyBag, SetToBag, IsABag, Copies
<1>2. ASSUME NEW w
      PROVE  /\ IsABag(SetToBag({w}))
             /\ \A x : Copies(x, SetToBag({w})) = IF x = w THEN 1 ELSE 0
  BY DEF SetToBag, IsABag, Copies
<1> QED BY <1>1, <1>2
-----------------------------------------------------------------------------
(* The bag of a sequence.                                                  *)

\* A sequence has finitely many places of anything.
LEMMA PlacesType ==
  ASSUME NEW S, NEW s \in Seq(S), NEW x
  PROVE  IsFiniteSet(Places(x, s)) /\ Cardinality(Places(x, s)) \in Nat
<1>1. Len(s) \in Int /\ Places(x, s) \in SUBSET (1..Len(s))
  BY DEF Places
<1>2. IsFiniteSet(1..Len(s))
  BY <1>1, FS_Interval
<1> QED BY <1>1, <1>2, FS_Subset, FS_CardinalityType

\* The copies in the bag of a sequence are the places in the sequence.
LEMMA Sown ==
  ASSUME NEW S, NEW s \in Seq(S)
  PROVE  /\ IsABag(ToBag(s))
         /\ \A x : Copies(x, ToBag(s)) = Cardinality(Places(x, s))
<1>1. DOMAIN s = 1..Len(s)
  OBVIOUS
<1>2. DOMAIN ToBag(s) = {s[i] : i \in 1..Len(s)}
  BY <1>1 DEF ToBag, Range
<1>3. \A x \in DOMAIN ToBag(s) : ToBag(s)[x] = Cardinality(Places(x, s))
  BY <1>1, <1>2 DEF ToBag, Range, Places
<1>4. \A x : x \in DOMAIN ToBag(s) <=> Places(x, s) # {}
  BY <1>2 DEF Places
<1>5. \A x : /\ Cardinality(Places(x, s)) \in Nat
             /\ Cardinality(Places(x, s)) = 0 <=> Places(x, s) = {}
  BY PlacesType, FS_EmptySet
<1>6. IsABag(ToBag(s))
  <2>1. ToBag(s) = [x \in DOMAIN ToBag(s) |-> ToBag(s)[x]]
    BY DEF ToBag
  <2>2. \A x \in DOMAIN ToBag(s) : ToBag(s)[x] \in {n \in Nat : n > 0}
    BY <1>3, <1>4, <1>5
  <2> QED BY <2>1, <2>2 DEF IsABag
<1>7. \A x : Copies(x, ToBag(s)) = Cardinality(Places(x, s))
  BY <1>3, <1>4, <1>5 DEF Copies
<1> QED BY <1>6, <1>7

\* One more element is one more copy of it.
LEMMA OneMore ==
  ASSUME NEW S, NEW s \in Seq(S), NEW w \in S
  PROVE  \A x : Copies(x, ToBag(Append(s, w)))
                  = Copies(x, ToBag(s)) + Copies(x, SetToBag({w}))
<1> DEFINE t == Append(s, w)
<1>1. t \in Seq(S) /\ Len(t) = Len(s) + 1 /\ Len(s) \in Nat
      /\ t[Len(s) + 1] = w /\ \A i \in 1..Len(s) : t[i] = s[i]
  OBVIOUS
<1> SUFFICES ASSUME NEW x
             PROVE  Cardinality(Places(x, t))
                      = Cardinality(Places(x, s)) + IF x = w THEN 1 ELSE 0
  <2>1. \A x : Copies(x, ToBag(t)) = Cardinality(Places(x, t))
    BY <1>1, Sown
  <2>2. \A x : Copies(x, ToBag(s)) = Cardinality(Places(x, s))
    BY Sown
  <2> QED BY <2>1, <2>2, Single
<1> HIDE DEF t
<1>2. IsFiniteSet(Places(x, s)) /\ Cardinality(Places(x, s)) \in Nat
  BY PlacesType
<1>5. Len(s) + 1 \notin Places(x, s)
  BY <1>1 DEF Places
<1>3. CASE x = w
  <2>1. Places(x, t) = Places(x, s) \cup {Len(s) + 1}
    BY <1>1, <1>3 DEF Places
  <2> QED BY <1>2, <1>3, <1>5, <2>1, FS_AddElement
<1>4. CASE x # w
  <2>1. Places(x, t) = Places(x, s)
    BY <1>1, <1>4 DEF Places
  <2> QED BY <1>2, <1>4, <2>1
<1> QED BY <1>3, <1>4
-----------------------------------------------------------------------------
(* Stretches of a ledger.                                                  *)

\* A bag is known by its copies.
LEMMA SameBag ==
  ASSUME NEW A, NEW B, IsABag(A), IsABag(B), \A x : Copies(x, A) = Copies(x, B)
  PROVE  A = B
<1>1. \A x : /\ Copies(x, A) > 0 <=> x \in DOMAIN A
             /\ Copies(x, B) > 0 <=> x \in DOMAIN B
  BY CopiesType
<1>2. DOMAIN A = DOMAIN B
  BY <1>1
<1>3. \A x \in DOMAIN A : A[x] = B[x]
  BY <1>2 DEF Copies
<1>4. A = [x \in DOMAIN A |-> A[x]] /\ B = [x \in DOMAIN B |-> B[x]]
  BY DEF IsABag
<1> QED BY <1>2, <1>3, <1>4

\* A stretch of a sequence is a sequence of its elements.
LEMMA Stretching ==
  ASSUME NEW S, NEW s \in Seq(S), NEW a \in Nat, NEW b \in Nat,
         a >= 1, a <= b + 1, b <= Len(s)
  PROVE  /\ SubSeq(s, a, b) \in Seq(S) /\ Len(SubSeq(s, a, b)) = b - a + 1
         /\ \A i \in 1..(b - a + 1) : SubSeq(s, a, b)[i] = s[a + i - 1]
<1>1. \A i \in a..b : s[i] \in S
  OBVIOUS
<1>2. /\ SubSeq(s, a, b) \in Seq(S)
      /\ Len(SubSeq(s, a, b)) = IF a <= b THEN b - a + 1 ELSE 0
      /\ \A i \in 1..(b - a + 1) : SubSeq(s, a, b)[i] = s[a + i - 1]
  BY <1>1, SubSeqProperties
<1> QED BY <1>2

\* A stretch stays as it is when the sequence grows, and one that goes to the
\* end grows with it.
LEMMA StretchGoesOn ==
  ASSUME NEW S, NEW s \in Seq(S), NEW w \in S
  PROVE  \A a, b \in Nat :
           a >= 1 /\ a <= b + 1 /\ b <= Len(s) =>
             /\ SubSeq(Append(s, w), a, b) = SubSeq(s, a, b)
             /\ b = Len(s) =>
                  SubSeq(Append(s, w), a, b + 1) = Append(SubSeq(s, a, b), w)
<1>0. SUFFICES ASSUME NEW a \in Nat, NEW b \in Nat, a >= 1, a <= b + 1, b <= Len(s),
                      NEW t \in Seq(S), t = Append(s, w)
               PROVE  /\ SubSeq(t, a, b) = SubSeq(s, a, b)
                      /\ b = Len(s) => SubSeq(t, a, b + 1) = Append(SubSeq(s, a, b), w)
  <2>1. Append(s, w) \in Seq(S)
    BY AppendProperties
  <2> QED BY <2>1
<1>1. /\ Len(s) \in Nat /\ Len(t) = Len(s) + 1 /\ t[Len(s) + 1] = w
      /\ \A i \in 1..Len(s) : t[i] = s[i]
  BY <1>0
<1>2. /\ SubSeq(s, a, b) \in Seq(S) /\ Len(SubSeq(s, a, b)) = b - a + 1
      /\ \A i \in 1..(b - a + 1) : SubSeq(s, a, b)[i] = s[a + i - 1]
  BY <1>0, Stretching
<1>3. PICK p \in Seq(S) : /\ p = SubSeq(s, a, b) /\ Len(p) = b - a + 1
                          /\ \A i \in 1..(b - a + 1) : p[i] = s[a + i - 1]
  BY <1>0, <1>2
<1>4. /\ SubSeq(t, a, b) \in Seq(S) /\ Len(SubSeq(t, a, b)) = b - a + 1
      /\ \A i \in 1..(b - a + 1) : SubSeq(t, a, b)[i] = t[a + i - 1]
  BY <1>0, <1>1, Stretching
<1>5. PICK q \in Seq(S) : /\ q = SubSeq(t, a, b) /\ Len(q) = b - a + 1
                          /\ \A i \in 1..(b - a + 1) : q[i] = t[a + i - 1]
  BY <1>4
<1>6. \A i \in 1..(b - a + 1) : a + i - 1 \in 1..Len(s)
  BY <1>0, <1>1
<1>7. q = p
  <2>1. \A i \in 1..(b - a + 1) : q[i] = p[i]
    BY <1>0, <1>1, <1>3, <1>5, <1>6
  <2> QED BY <1>3, <1>5, <2>1, SeqEqual
<1>8. ASSUME b = Len(s) PROVE SubSeq(t, a, b + 1) = Append(p, w)
  <2>1. PICK m \in Nat : m = b + 1 /\ m = Len(t) /\ m <= Len(t) /\ a <= m + 1 /\ a >= 1
    BY <1>0, <1>1, <1>8
  <2>2. /\ SubSeq(t, a, m) \in Seq(S) /\ Len(SubSeq(t, a, m)) = m - a + 1
        /\ \A i \in 1..(m - a + 1) : SubSeq(t, a, m)[i] = t[a + i - 1]
    BY <1>0, <2>1, Stretching, Zenon
  <2>3. PICK r \in Seq(S) : /\ r = SubSeq(t, a, m) /\ Len(r) = m - a + 1
                            /\ \A i \in 1..(m - a + 1) : r[i] = t[a + i - 1]
    BY <2>2
  <2>4. /\ Append(p, w) \in Seq(S) /\ Len(Append(p, w)) = Len(p) + 1
        /\ Append(p, w)[Len(p) + 1] = w
        /\ \A i \in 1..Len(p) : Append(p, w)[i] = p[i]
    BY AppendProperties
  <2>5. PICK c \in Seq(S) : /\ c = Append(p, w) /\ Len(c) = Len(p) + 1
                            /\ c[Len(p) + 1] = w /\ \A i \in 1..Len(p) : c[i] = p[i]
    BY <2>4
  <2>6. ASSUME NEW i \in 1..(m - a + 1) PROVE r[i] = c[i]
    <3>1. CASE i \in 1..(b - a + 1)
      BY <1>0, <1>1, <1>3, <1>6, <2>3, <2>5, <2>6, <3>1
    <3>2. CASE i = (b - a + 1) + 1
      <4>1. a + i - 1 = Len(s) + 1
        BY <1>0, <1>8, <3>2
      <4>2. r[i] = w
        BY <1>0, <1>1, <2>3, <2>6, <4>1
      <4>3. c[i] = w
        BY <1>3, <2>5, <3>2
      <4> QED BY <4>2, <4>3
    <3> QED BY <2>1, <2>6, <3>1, <3>2
  <2>7. Len(c) = m - a + 1
    BY <1>3, <2>1, <2>5
  <2> QED BY <2>1, <2>3, <2>5, <2>6, <2>7, SeqEqual
<1> QED BY <1>3, <1>5, <1>7, <1>8
-----------------------------------------------------------------------------
(* The evidence of the selector and the ledger.                            *)

Part(l, r) == SubSeq(l, r.first, r.last)
Since(l, r) == SubSeq(l, r.held + 1, Len(l))

\* A stretch of what the ledger held, and it holds that still.
Placed(l, r) ==
  /\ r.first \in Nat /\ r.last \in Nat /\ r.held \in Nat
  /\ r.first >= 1 /\ r.first <= r.last + 1 /\ r.last <= r.held /\ r.held <= Len(l)

\* Evidence has one copy for each one of the stretch, of what the ledger got
\* since, and of what is pending.
Counted(e, l, r, u) ==
  /\ IsABag(e)
  /\ \A x : Copies(x, e) = Copies(x, ToBag(Part(l, r))) + Copies(x, ToBag(Since(l, r)))
                             + Copies(x, u)

\* The observation that is not in the ledger yet.
Pending == IF pc = "report" THEN SetToBag({Worth(reward)}) ELSE EmptyBag

\* The ledger is a sequence of what it has, and counted in the evidence.
SelectorInv ==
  /\ ledger \in Seq(ToSet(ledger))
  /\ Placed(ledger, reading)
  /\ seeded => Counted(evidence, ledger, reading, Pending)

\* What may be read is a stretch of the ledger.
LEMMA ReadingIsPlaced ==
  ASSUME NEW S, ledger \in Seq(S), NEW r \in Readings
  PROVE  Placed(ledger, r) /\ r.held = Len(ledger)
<1>1. PICK k \in Nat : k = Len(ledger)
  OBVIOUS
<1>2. PICK n \in {Smaller(size, k) : size \in SeedSizes \union {0}} :
        r \in {[first |-> 1, last |-> n, held |-> k],
               [first |-> k - n + 1, last |-> k, held |-> k]}
  BY <1>1 DEF Readings
<1>3. SeedSizes \subseteq Nat
  BY ReasoningAssumption
<1>4. n \in Nat /\ n <= k
  BY <1>2, <1>3 DEF Smaller
<1>5. CASE r = [first |-> 1, last |-> n, held |-> k]
  BY <1>1, <1>4, <1>5 DEF Placed
<1>6. CASE r = [first |-> k - n + 1, last |-> k, held |-> k]
  BY <1>1, <1>4, <1>6 DEF Placed
<1> QED BY <1>2, <1>5, <1>6

\* The bags of the two stretches are bags.
LEMMA PartsAreBags ==
  ASSUME NEW S, NEW l \in Seq(S), NEW r, Placed(l, r)
  PROVE  /\ Part(l, r) \in Seq(S) /\ Since(l, r) \in Seq(S)
         /\ IsABag(ToBag(Part(l, r))) /\ IsABag(ToBag(Since(l, r)))
<1>1. PICK n \in Nat : n = Len(l)
  OBVIOUS
<1>2. PICK a \in Nat, b \in Nat, h \in Nat :
        /\ a = r.first /\ b = r.last /\ h = r.held
        /\ a >= 1 /\ a <= b + 1 /\ b <= h /\ h <= n
  BY <1>1 DEF Placed
<1>3. SubSeq(l, a, b) \in Seq(S)
  BY <1>1, <1>2, Stretching
<1>4. PICK m \in Nat : m = h + 1 /\ m >= 1 /\ m <= n + 1
  BY <1>2
<1>5. SubSeq(l, m, n) \in Seq(S)
  BY <1>1, <1>4, Stretching
<1>6. Part(l, r) \in Seq(S) /\ Since(l, r) \in Seq(S)
  BY <1>1, <1>2, <1>3, <1>4, <1>5 DEF Part, Since
<1> QED BY <1>6, Sown

\* Evidence that is so counted is the sum of the bags.
LEMMA CountedIsTheSum ==
  ASSUME NEW S, NEW l \in Seq(S), NEW r, Placed(l, r), NEW u, IsABag(u), NEW e,
         Counted(e, l, r, u)
  PROVE  e = (ToBag(Part(l, r)) (+) ToBag(Since(l, r))) (+) u
<1>1. PICK p : p = ToBag(Part(l, r))
  OBVIOUS
<1>2. PICK q : q = ToBag(Since(l, r))
  OBVIOUS
<1>3. IsABag(p) /\ IsABag(q)
  BY <1>1, <1>2, PartsAreBags
<1>4. /\ IsABag(p (+) q)
      /\ \A x : Copies(x, p (+) q) = Copies(x, p) + Copies(x, q)
  BY <1>3, Joined
<1>5. /\ IsABag((p (+) q) (+) u)
      /\ \A x : Copies(x, (p (+) q) (+) u) = Copies(x, p (+) q) + Copies(x, u)
  BY <1>4, Joined
<1>6. IsABag(e) /\ \A x : Copies(x, e) = Copies(x, p) + Copies(x, q) + Copies(x, u)
  BY <1>1, <1>2 DEF Counted
<1>7. \A x : Copies(x, e) = Copies(x, (p (+) q) (+) u)
  BY <1>4, <1>5, <1>6
<1>8. e = (p (+) q) (+) u
  BY <1>5, <1>6, <1>7, SameBag
<1> QED BY <1>1, <1>2, <1>8

\* What is pending is a bag.
LEMMA PendingIsABag == IsABag(Pending)
BY Single DEF Pending

\* The episode that begins reads the ledger, or keeps what it knows.
LEMMA BeginKeeps ==
  ASSUME SelectorInv, Begin
  PROVE  SelectorInv'
<1>1. /\ ledger' = ledger /\ seeded' = TRUE /\ pc = "idle" /\ pc' = "reason"
      /\ reading' \in IF seeded THEN {reading} ELSE Readings
      /\ evidence' = IF seeded THEN evidence ELSE ToBag(Listed(reading'))
  BY DEF Begin, Known
<1>2. Pending = EmptyBag /\ Pending' = EmptyBag
  BY <1>1 DEF Pending
<1>3. CASE seeded
  <2>1. /\ reading' = reading /\ evidence' = evidence /\ Pending' = Pending
    BY <1>1, <1>2, <1>3
  <2>2. ledger \in Seq(ToSet(ledger)) /\ ledger' \in Seq(ToSet(ledger'))
    BY <1>1 DEF SelectorInv
  <2>3. Placed(ledger', reading')
    BY <1>1, <2>1 DEF SelectorInv, Placed
  <2>4. Counted(evidence', ledger', reading', Pending')
    BY <1>1, <1>3, <2>1 DEF SelectorInv, Counted, Part, Since
  <2> QED BY <2>2, <2>3, <2>4 DEF SelectorInv
<1>4. CASE ~ seeded
  <2>1. PICK l : l = ledger /\ l \in Seq(ToSet(l))
    BY DEF SelectorInv
  <2>2. PICK r \in Readings : r = reading'
    BY <1>1, <1>4
  <2>3. Placed(l, r) /\ r.held = Len(l)
    BY <2>1, ReadingIsPlaced
  <2>4. PICK e : e = ToBag(Part(l, r)) /\ evidence' = e
    BY <1>1, <1>4, <2>1, <2>2 DEF Listed, Part
  <2>5. IsABag(e)
    BY <2>1, <2>3, <2>4, PartsAreBags
  <2>6. \A x : Copies(x, ToBag(Since(l, r))) = 0
    <3>1. PICK q \in Seq(ToSet(l)) : q = Since(l, r)
      BY <2>1, <2>3, PartsAreBags
    <3>2. PICK n \in Nat : n = Len(l)
      BY <2>1
    <3>3. PICK m \in Nat : m = n + 1
      BY <3>2
    <3>4. Len(SubSeq(l, m, n)) = n - m + 1
      BY <2>1, <3>2, <3>3, Stretching
    <3>5. Len(q) = 0
      BY <2>3, <3>1, <3>2, <3>3, <3>4 DEF Since
    <3>6. \A x : Places(x, q) = {}
      BY <3>5 DEF Places
    <3>7. \A x : Copies(x, ToBag(q)) = Cardinality(Places(x, q))
      BY <3>1, Sown
    <3> QED BY <3>1, <3>6, <3>7, FS_EmptySet
  <2>7. Counted(e, l, r, EmptyBag)
    <3>1. \A x : Copies(x, e) \in Nat /\ Copies(x, EmptyBag) = 0
      BY <2>5, CopiesType, Single
    <3> QED BY <2>4, <2>5, <2>6, <3>1 DEF Counted
  <2>8. ledger' = l /\ reading' = r /\ evidence' = e /\ Pending' = EmptyBag
    BY <1>1, <1>2, <2>1, <2>2, <2>4
  <2>9. ledger' \in Seq(ToSet(ledger'))
    BY <2>1, <2>8
  <2>10. Placed(ledger', reading') /\ Counted(evidence', ledger', reading', Pending')
    BY <2>3, <2>7, <2>8
  <2> QED BY <2>9, <2>10 DEF SelectorInv
<1> QED BY <1>3, <1>4

\* The reward goes to the evidence, and is what is pending.
LEMMA ObserveKeeps ==
  ASSUME SelectorInv, Observe
  PROVE  SelectorInv'
<1>1. /\ UNCHANGED <<ledger, seeded, reading, executed, scenario>>
      /\ pc = "close" /\ pc' = "report"
      /\ evidence' = evidence (+) SetToBag({Worth(reward')})
  BY DEF Observe
<1>2. PICK w : w = Worth(reward')
  OBVIOUS
<1>3. PICK u : u = SetToBag({w}) /\ IsABag(u)
  BY Single
<1>4. Pending' = u /\ Pending = EmptyBag
  BY <1>1, <1>2, <1>3 DEF Pending, Worth, Overlays
<1>5. PICK l : l = ledger
  OBVIOUS
<1>6. PICK r : r = reading
  OBVIOUS
<1>7. l \in Seq(ToSet(l)) /\ Placed(l, r)
  BY <1>5, <1>6 DEF SelectorInv
<1>8. ASSUME seeded PROVE Counted(evidence', ledger', reading', Pending')
  <2>1. PICK e : e = evidence /\ Counted(e, l, r, EmptyBag)
    BY <1>4, <1>5, <1>6, <1>8 DEF SelectorInv
  <2>2. IsABag(e)
    BY <2>1 DEF Counted
  <2>3. /\ IsABag(e (+) u)
        /\ \A x : Copies(x, e (+) u) = Copies(x, e) + Copies(x, u)
    BY <1>3, <2>2, Joined
  <2>4. \A x : /\ Copies(x, ToBag(Part(l, r))) \in Nat
               /\ Copies(x, ToBag(Since(l, r))) \in Nat
               /\ Copies(x, EmptyBag) = 0
    BY <1>7, PartsAreBags, CopiesType, Single
  <2>5. \A x : Copies(x, e) = Copies(x, ToBag(Part(l, r)))
                                + Copies(x, ToBag(Since(l, r))) + Copies(x, EmptyBag)
    BY <2>1 DEF Counted
  <2>6. \A x : Copies(x, e) = Copies(x, ToBag(Part(l, r)))
                                + Copies(x, ToBag(Since(l, r)))
    BY <2>4, <2>5
  <2>7. \A x : Copies(x, e (+) u) = Copies(x, ToBag(Part(l, r)))
                                      + Copies(x, ToBag(Since(l, r))) + Copies(x, u)
    BY <2>3, <2>6
  <2>8. Counted(e (+) u, l, r, u)
    BY <2>3, <2>7 DEF Counted
  <2>9. /\ evidence' = e (+) u /\ ledger' = l /\ reading' = r /\ Pending' = u
    BY <1>1, <1>2, <1>3, <1>4, <1>5, <1>6, <2>1
  <2> QED BY <2>8, <2>9
<1>9. ledger' \in Seq(ToSet(ledger')) /\ Placed(ledger', reading')
  <2>1. ledger' = l /\ reading' = r
    BY <1>1, <1>5, <1>6
  <2> QED BY <1>7, <2>1
<1> QED BY <1>1, <1>8, <1>9 DEF SelectorInv

\* A sequence is one of the things it has.
LEMMA OwnThings ==
  ASSUME NEW S, NEW s \in Seq(S)
  PROVE  s \in Seq(ToSet(s))
<1>1. /\ Len(s) \in Nat /\ DOMAIN s = 1..Len(s)
      /\ s = [i \in 1..Len(s) |-> s[i]]
  OBVIOUS
<1>2. \A i \in 1..Len(s) : s[i] \in ToSet(s)
  BY <1>1 DEF ToSet
<1>3. s \in [1..Len(s) -> ToSet(s)]
  BY <1>1, <1>2
<1> QED BY <1>1, <1>3, SeqDef

\* What was pending is in the ledger, after what was read.
LEMMA ReportKeeps ==
  ASSUME SelectorInv, Report
  PROVE  SelectorInv'
<1>1. /\ ledger' = Append(ledger, Worth(reward)) /\ pc = "report" /\ pc' = "idle"
      /\ UNCHANGED <<seeded, evidence, reading>>
  BY DEF Report, selector
<1>2. PICK w : w = Worth(reward)
  OBVIOUS
<1>3. PICK S : S = ToSet(ledger) \cup {w}
  OBVIOUS
<1>4. ledger \in Seq(S)
  <2>1. ledger \in Seq(ToSet(ledger)) /\ ToSet(ledger) \subseteq S
    BY <1>3 DEF SelectorInv
  <2> QED BY <2>1, SeqMonotonic
<1>5. PICK l \in Seq(S) : l = ledger
  BY <1>4
<1>6. w \in S
  BY <1>3
<1>7. PICK m \in Seq(S) : m = Append(l, w)
  <2>1. Append(l, w) \in Seq(S)
    BY <1>6
  <2> QED BY <2>1
<1>8. ledger' = m
  BY <1>1, <1>2, <1>5, <1>7
<1>9. ledger' \in Seq(ToSet(ledger'))
  BY <1>8, OwnThings
<1>10. PICK r : r = reading /\ Placed(l, r)
  BY <1>5 DEF SelectorInv
<1>11. PICK n \in Nat : n = Len(l) /\ Len(m) = n + 1
  BY <1>6, <1>7
<1>12. PICK a \in Nat, b \in Nat, h \in Nat :
         /\ a = r.first /\ b = r.last /\ h = r.held
         /\ a >= 1 /\ a <= b + 1 /\ b <= h /\ h <= n
  BY <1>10, <1>11 DEF Placed
<1>13. Placed(m, r)
  BY <1>11, <1>12 DEF Placed
<1>13a. \A x, y \in Nat :
         x >= 1 /\ x <= y + 1 /\ y <= Len(l) =>
           /\ SubSeq(m, x, y) = SubSeq(l, x, y)
           /\ y = Len(l) => SubSeq(m, x, y + 1) = Append(SubSeq(l, x, y), w)
  <2>1. \A x, y \in Nat :
          x >= 1 /\ x <= y + 1 /\ y <= Len(l) =>
            /\ SubSeq(Append(l, w), x, y) = SubSeq(l, x, y)
            /\ y = Len(l) =>
                 SubSeq(Append(l, w), x, y + 1) = Append(SubSeq(l, x, y), w)
    BY <1>6, StretchGoesOn
  <2>2. m = Append(l, w)
    BY <1>7
  <2> QED BY ONLY <2>1, <2>2
<1>14. Part(m, r) = Part(l, r)
  <2>1. b <= Len(l)
    BY <1>11, <1>12
  <2>2. SubSeq(m, a, b) = SubSeq(l, a, b)
    BY <1>12, <1>13a, <2>1, Zenon
  <2> QED BY <1>12, <2>2 DEF Part
<1>15. Since(m, r) = Append(Since(l, r), w)
  <2>1. PICK c \in Nat : c = h + 1 /\ c >= 1 /\ c <= n + 1
    BY <1>12
  <2>2. n <= Len(l) /\ n = Len(l)
    BY <1>11
  <2>3. SubSeq(m, c, n + 1) = Append(SubSeq(l, c, n), w)
    BY <1>13a, <2>1, <2>2, Zenon
  <2> QED BY <1>11, <1>12, <2>1, <2>3 DEF Since
<1>16. ASSUME seeded PROVE Counted(evidence', ledger', reading', Pending')
  <2>1. PICK u : u = SetToBag({w}) /\ IsABag(u)
    BY Single
  <2>2. PICK e : e = evidence /\ Counted(e, l, r, u)
    BY <1>1, <1>2, <1>5, <1>10, <1>16, <2>1 DEF SelectorInv, Pending
  <2>3. PICK q \in Seq(S) : q = Since(l, r)
    BY <1>10, PartsAreBags
  <2>4. \A x : Copies(x, ToBag(Since(m, r))) = Copies(x, ToBag(q)) + Copies(x, u)
    BY <1>6, <1>15, <2>1, <2>3, OneMore
  <2>5. \A x : /\ Copies(x, ToBag(Part(l, r))) \in Nat /\ Copies(x, ToBag(q)) \in Nat
               /\ Copies(x, u) \in Nat /\ Copies(x, EmptyBag) = 0
    BY <1>10, <2>1, <2>3, PartsAreBags, CopiesType, Single
  <2>6. /\ IsABag(e)
        /\ \A x : Copies(x, e) = Copies(x, ToBag(Part(l, r))) + Copies(x, ToBag(q))
                                   + Copies(x, u)
    BY <2>2, <2>3 DEF Counted
  <2>7. \A x : Copies(x, e) = Copies(x, ToBag(Part(m, r)))
                                + Copies(x, ToBag(Since(m, r))) + Copies(x, EmptyBag)
    BY <1>14, <2>4, <2>5, <2>6
  <2>8. Counted(e, m, r, EmptyBag)
    BY <2>6, <2>7 DEF Counted
  <2>9. evidence' = e /\ reading' = r /\ Pending' = EmptyBag
    BY <1>1, <1>10, <2>2 DEF Pending
  <2> QED BY <1>8, <2>8, <2>9
<1>17. Placed(ledger', reading')
  BY <1>1, <1>8, <1>10, <1>13
<1> QED BY <1>1, <1>9, <1>16, <1>17 DEF SelectorInv

\* The rest of the steps leave all of it, or forget what was read.
LEMMA SelectorKept ==
  ASSUME SelectorInv, [Next]_vars
  PROVE  SelectorInv'
<1>0. ASSUME UNCHANGED <<seeded, evidence, reading, ledger>>, Pending' = Pending
      PROVE  SelectorInv'
  <2>1. ledger' \in Seq(ToSet(ledger'))
    BY <1>0 DEF SelectorInv
  <2>2. Placed(ledger', reading')
    BY <1>0 DEF SelectorInv
  <2>3. seeded' => Counted(evidence', ledger', reading', Pending')
    BY <1>0 DEF SelectorInv
  <2> QED BY <2>1, <2>2, <2>3 DEF SelectorInv
<1>1. CASE Begin
  BY <1>1, BeginKeeps
<1>2. CASE RunFamily
  <2>1. /\ UNCHANGED <<seeded, evidence, reading, ledger>>
        /\ pc # "report" /\ pc' # "report"
    BY <1>2 DEF RunFamily, selector
  <2>2. Pending' = Pending
    BY <2>1 DEF Pending
  <2> QED BY <1>0, <2>1, <2>2
<1>3. CASE Observe
  BY <1>3, ObserveKeeps
<1>4. CASE Report
  BY <1>4, ReportKeeps
<1>5. CASE Replace
  <2>1. seeded' = FALSE /\ ledger' = ledger /\ reading' = NoReading
    BY <1>5 DEF Replace, NoReading
  <2>2. ledger' \in Seq(ToSet(ledger')) /\ Len(ledger') \in Nat
    BY <2>1 DEF SelectorInv
  <2>3. Placed(ledger', reading')
    BY <2>1, <2>2 DEF Placed, NoReading
  <2> QED BY <2>1, <2>2, <2>3 DEF SelectorInv
<1>6. CASE UNCHANGED vars
  <2>1. /\ UNCHANGED <<seeded, evidence, reading, ledger>>
        /\ UNCHANGED <<pc, reward, executed, scenario>>
    BY <1>6 DEF vars, selector, episode
  <2>2. Pending' = Pending
    BY <2>1 DEF Pending, Worth, Overlays
  <2> QED BY <1>0, <2>1, <2>2
<1> QED BY <1>1, <1>2, <1>3, <1>4, <1>5, <1>6 DEF Next

\* At the beginning there is nothing to count.
LEMMA SelectorBegins == Init => SelectorInv
<1> SUFFICES ASSUME Init PROVE SelectorInv
  OBVIOUS
<1>1. ledger = <<>> /\ seeded = FALSE /\ reading = NoReading
  BY DEF Init
<1>2. ledger \in Seq(ToSet(ledger)) /\ Len(ledger) = 0
  BY <1>1
<1>3. Placed(ledger, reading)
  BY <1>1, <1>2 DEF Placed, NoReading
<1> QED BY <1>1, <1>2, <1>3 DEF SelectorInv

\* In every state the evidence is counted.
LEMMA SelectorAlways == Spec => []SelectorInv
BY SelectorBegins, SelectorKept, PTL DEF Spec

\* The evidence so counted is what the property says.
LEMMA Counting == SelectorInv => EvidenceIsTheLedger
<1> SUFFICES ASSUME SelectorInv, seeded
             PROVE  evidence = (ToBag(Listed(reading))
                                  (+) ToBag(SubSeq(ledger, reading.held + 1, Len(ledger))))
                               (+) Pending
  BY DEF EvidenceIsTheLedger, Pending
<1>1. ledger \in Seq(ToSet(ledger)) /\ Placed(ledger, reading)
      /\ Counted(evidence, ledger, reading, Pending)
  BY DEF SelectorInv
<1>2. evidence = (ToBag(Part(ledger, reading)) (+) ToBag(Since(ledger, reading)))
                   (+) Pending
  BY <1>1, PendingIsABag, CountedIsTheSum
<1> QED BY <1>2 DEF Part, Since, Listed

\* The selector counts every episode of the run once: what the ledger gave when
\* it was read, in either order and however little, and every episode since,
\* whichever runners reported them and wherever they ended.
THEOREM EvidenceCounted == Spec => []EvidenceIsTheLedger
BY SelectorAlways, Counting, PTL

-----------------------------------------------------------------------------
(* Sequences: indices, and what is in them and how often.                  *)

\* A set of naturals has a least member.
LEMMA LeastIs ==
  ASSUME NEW S \in SUBSET Nat, S # {}
  PROVE  \E x \in S : \A y \in S : x <= y
<1> DEFINE R == OpToRel(<, Nat)
<1>1. IsWellFoundedOn(R, Nat)
  BY NatLessThanWellFounded, Zenon
<1>2. \A x, y \in Nat : y < x => <<y, x>> \in R
  BY Zenon DEF OpToRel
<1> HIDE DEF R
<1>3. PICK x \in S : \A y \in S : ~(<<y, x>> \in R)
  BY <1>1, WFMin
<1>4. \A y \in S : ~(y < x)
  BY <1>2, <1>3
<1>5. \A y \in S : x \in Nat /\ y \in Nat
  OBVIOUS
<1> QED
  BY <1>3, <1>4, <1>5

\* The index of a member of a sequence is its first place.
LEMMA IndexIs ==
  ASSUME NEW S, NEW s \in Seq(S), NEW f \in ToSet(s)
  PROVE  /\ Index(s, f) \in 1..Len(s) /\ s[Index(s, f)] = f
         /\ \A j \in 1..Len(s) : s[j] = f => Index(s, f) <= j
<1> DEFINE I == {i \in 1..Len(s) : s[i] = f}
<1>1. I # {} /\ I \in SUBSET Nat
  BY DEF ToSet
<1>2. Index(s, f) = Min(I)
  BY <1>1 DEF Index, SelectInSeq
<1>3. Min(I) \in I /\ \A j \in I : Min(I) <= j
  BY <1>1, LeastIs DEF Min
<1> QED BY <1>2, <1>3

\* What is not in a sequence has the index zero.
LEMMA IndexType ==
  ASSUME NEW S, NEW s \in Seq(S), NEW f
  PROVE  Index(s, f) \in Nat
<1>1. CASE f \in ToSet(s)
  BY <1>1, IndexIs
<1>2. CASE f \notin ToSet(s)
  <2>1. {i \in 1..Len(s) : s[i] = f} = {}
    BY <1>2 DEF ToSet
  <2> QED BY <2>1 DEF Index, SelectInSeq
<1> QED BY <1>1, <1>2

\* The sequence has nothing twice.
Distinct(s) == \A i, j \in 1..Len(s) : s[i] = s[j] => i = j

\* What is in a sequence is at one of its places.
LEMMA Members ==
  ASSUME NEW S, NEW s \in Seq(S)
  PROVE  /\ ToSet(s) = {s[i] : i \in 1..Len(s)} /\ ToSet(s) \in SUBSET S
         /\ Len(s) \in Nat /\ s \in Seq(ToSet(s))
<1>1. /\ Len(s) \in Nat /\ DOMAIN s = 1..Len(s) /\ s \in [1..Len(s) -> S]
      /\ s = [i \in 1..Len(s) |-> s[i]]
  BY LenProperties
<1>2. ToSet(s) = {s[i] : i \in 1..Len(s)}
  BY <1>1 DEF ToSet
<1>3. s \in [1..Len(s) -> ToSet(s)]
  BY <1>1, <1>2
<1>4. s \in Seq(ToSet(s))
  BY <1>1, <1>3, SeqDef
<1> QED BY <1>1, <1>2, <1>4

\* A sequence that has nothing twice is as long as what it has is many.
LEMMA LenIsCard ==
  ASSUME NEW S, NEW s \in Seq(S), Distinct(s)
  PROVE  IsFiniteSet(ToSet(s)) /\ Cardinality(ToSet(s)) = Len(s)
<1>1. Len(s) \in Nat /\ s \in [1..Len(s) -> ToSet(s)] /\ DOMAIN s = 1..Len(s)
  BY Members, LenProperties
<1>2. s \in Bijection(1..Len(s), ToSet(s))
  BY <1>1, Members DEF Bijection, Injection, Surjection, Distinct, IsInjective
<1>3. IsFiniteSet(1..Len(s)) /\ Cardinality(1..Len(s)) = Len(s)
  BY <1>1, FS_Interval
<1> QED BY <1>2, <1>3, FS_Bijection DEF ExistsBijection

\* Two sequences that share nothing, one after the other.
LEMMA Joint ==
  ASSUME NEW S, NEW s \in Seq(S), NEW t \in Seq(S)
  PROVE  /\ s \o t \in Seq(S) /\ Len(s \o t) = Len(s) + Len(t)
         /\ ToSet(s \o t) = ToSet(s) \union ToSet(t)
         /\ Distinct(s) /\ Distinct(t) /\ ToSet(s) \intersect ToSet(t) = {} => Distinct(s \o t)
<1>1. /\ s \o t \in Seq(S) /\ Len(s) \in Nat /\ Len(t) \in Nat
      /\ Len(s \o t) = Len(s) + Len(t)
      /\ \A i \in 1..(Len(s) + Len(t)) :
           (s \o t)[i] = IF i <= Len(s) THEN s[i] ELSE t[i - Len(s)]
  BY ConcatProperties, LenProperties
<1>2. /\ \A i \in 1..Len(s) : i \in 1..(Len(s) + Len(t)) /\ (s \o t)[i] = s[i]
      /\ \A i \in 1..Len(t) : /\ i + Len(s) \in 1..(Len(s) + Len(t))
                              /\ (s \o t)[i + Len(s)] = t[i]
  <2>1. ASSUME NEW i \in 1..Len(s)
        PROVE  i \in 1..(Len(s) + Len(t)) /\ (s \o t)[i] = s[i]
    BY <1>1
  <2>2. ASSUME NEW i \in 1..Len(t)
        PROVE  i + Len(s) \in 1..(Len(s) + Len(t)) /\ (s \o t)[i + Len(s)] = t[i]
    <3>1. /\ i + Len(s) \in 1..(Len(s) + Len(t)) /\ ~(i + Len(s) <= Len(s))
          /\ i + Len(s) - Len(s) = i
      BY <1>1
    <3>2. (s \o t)[i + Len(s)] = t[i + Len(s) - Len(s)]
      BY <1>1, <3>1
    <3> QED BY <3>1, <3>2
  <2> QED BY <2>1, <2>2
<1>3. \A i \in 1..(Len(s) + Len(t)) :
        \/ i \in 1..Len(s)
        \/ \E k \in 1..Len(t) : i = k + Len(s)
  <2> SUFFICES ASSUME NEW i \in 1..(Len(s) + Len(t)), i \notin 1..Len(s)
               PROVE  \E k \in 1..Len(t) : i = k + Len(s)
    OBVIOUS
  <2>1. i - Len(s) \in 1..Len(t) /\ i = (i - Len(s)) + Len(s)
    BY <1>1
  <2> QED BY <2>1
<1>4. /\ ToSet(s \o t) = {(s \o t)[i] : i \in 1..(Len(s) + Len(t))}
      /\ ToSet(s) = {s[i] : i \in 1..Len(s)}
      /\ ToSet(t) = {t[i] : i \in 1..Len(t)}
  <2>1. ToSet(s \o t) = {(s \o t)[i] : i \in 1..Len(s \o t)}
    BY <1>1, Members
  <2>2. ToSet(s) = {s[i] : i \in 1..Len(s)}
    BY Members
  <2>3. ToSet(t) = {t[i] : i \in 1..Len(t)}
    BY Members
  <2> QED BY <1>1, <2>1, <2>2, <2>3
<1>5. ToSet(s \o t) \subseteq ToSet(s) \union ToSet(t)
  <2>1. ASSUME NEW i \in 1..(Len(s) + Len(t))
        PROVE  (s \o t)[i] \in ToSet(s) \union ToSet(t)
    <3>1. CASE i \in 1..Len(s)
      <4>1. (s \o t)[i] = s[i] /\ s[i] \in ToSet(s)
        BY <1>2, <1>4, <3>1
      <4> QED BY <4>1
    <3>2. CASE i \notin 1..Len(s)
      <4>1. PICK k \in 1..Len(t) : i = k + Len(s)
        BY <1>3, <3>2
      <4>2. (s \o t)[i] = t[k] /\ t[k] \in ToSet(t)
        BY <1>2, <1>4, <4>1
      <4> QED BY <4>2
    <3> QED BY <3>1, <3>2
  <2> QED BY <1>4, <2>1
<1>6. ToSet(s) \union ToSet(t) \subseteq ToSet(s \o t)
  <2>2. ASSUME NEW i \in 1..Len(s) PROVE s[i] \in ToSet(s \o t)
    BY <1>2, <1>4
  <2>3. ASSUME NEW i \in 1..Len(t) PROVE t[i] \in ToSet(s \o t)
    BY <1>2, <1>4
  <2> QED BY <1>4, <2>2, <2>3
<1>7. ASSUME Distinct(s), Distinct(t), ToSet(s) \intersect ToSet(t) = {}
      PROVE  Distinct(s \o t)
  <2> SUFFICES ASSUME NEW i \in 1..(Len(s) + Len(t)), NEW j \in 1..(Len(s) + Len(t)),
                      (s \o t)[i] = (s \o t)[j]
               PROVE  i = j
    BY <1>1 DEF Distinct
  <2>1. ASSUME NEW k \in 1..Len(s), NEW l \in 1..Len(t) PROVE s[k] # t[l]
    <3>1. s[k] \in ToSet(s) /\ t[l] \in ToSet(t)
      BY <1>4
    <3> QED BY <1>7, <3>1
  <2>2. \A k, l \in 1..Len(s) : s[k] = s[l] => k = l
    BY <1>7 DEF Distinct
  <2>3. \A k, l \in 1..Len(t) : t[k] = t[l] => k = l
    BY <1>7 DEF Distinct
  <2>4. CASE i \in 1..Len(s) /\ j \in 1..Len(s)
    BY <1>2, <2>2, <2>4
  <2>5. CASE i \notin 1..Len(s) /\ j \notin 1..Len(s)
    <3>1. PICK k \in 1..Len(t), l \in 1..Len(t) : i = k + Len(s) /\ j = l + Len(s)
      BY <1>3, <2>5
    <3> QED BY <1>2, <2>3, <3>1
  <2>6. CASE i \in 1..Len(s) /\ j \notin 1..Len(s)
    BY <1>2, <1>3, <2>1, <2>6
  <2>7. CASE i \notin 1..Len(s) /\ j \in 1..Len(s)
    BY <1>2, <1>3, <2>1, <2>7
  <2> QED BY <2>4, <2>5, <2>6, <2>7
<1> QED BY <1>1, <1>5, <1>6, <1>7

\* A beginning of a sequence, and the rest.
LEMMA Beginning ==
  ASSUME NEW S, NEW s \in Seq(S), NEW k \in 0..Len(s)
  PROVE  LET a == SubSeq(s, 1, k)
             b == SubSeq(s, k + 1, Len(s))
         IN /\ a \in Seq(S) /\ Len(a) = k /\ \A i \in 1..k : a[i] = s[i]
            /\ b \in Seq(S) /\ Len(b) = Len(s) - k
            /\ \A i \in 1..(Len(s) - k) : b[i] = s[k + i]
<1>1. Len(s) \in Nat /\ k \in Nat /\ k <= Len(s) /\ \A i \in 1..Len(s) : s[i] \in S
  BY LenProperties, ElementOfSeq
<1> DEFINE a == SubSeq(s, 1, k)
           b == SubSeq(s, k + 1, Len(s))
<1>2. a \in Seq(S) /\ Len(a) = k /\ \A i \in 1..k : a[i] = s[i]
  <2>1. \A i \in 1..k : s[i] \in S
    BY <1>1
  <2>2. /\ SubSeq(s, 1, k) \in Seq(S)
        /\ Len(SubSeq(s, 1, k)) = IF 1 <= k THEN k - 1 + 1 ELSE 0
        /\ \A i \in 1..(k - 1 + 1) : SubSeq(s, 1, k)[i] = s[1 + i - 1]
    BY <1>1, <2>1, SubSeqProperties
  <2>3. Len(a) = k
    BY <1>1, <2>2
  <2>4. ASSUME NEW i \in 1..k PROVE a[i] = s[i]
    <3>1. i \in 1..(k - 1 + 1) /\ 1 + i - 1 = i
      BY <1>1
    <3>2. a[i] = s[1 + i - 1]
      BY <2>2, <3>1
    <3> QED BY <3>1, <3>2
  <2> QED BY <2>2, <2>3, <2>4
<1>3. b \in Seq(S) /\ Len(b) = Len(s) - k /\ \A i \in 1..(Len(s) - k) : b[i] = s[k + i]
  <2>1. \A i \in (k + 1)..Len(s) : s[i] \in S
    BY <1>1
  <2>2. /\ SubSeq(s, k + 1, Len(s)) \in Seq(S)
        /\ Len(SubSeq(s, k + 1, Len(s))) = IF k + 1 <= Len(s) THEN Len(s) - (k + 1) + 1 ELSE 0
        /\ \A i \in 1..(Len(s) - (k + 1) + 1) : SubSeq(s, k + 1, Len(s))[i] = s[k + 1 + i - 1]
    BY <1>1, <2>1, SubSeqProperties
  <2>3. Len(b) = Len(s) - k
    BY <1>1, <2>2
  <2>4. ASSUME NEW i \in 1..(Len(s) - k) PROVE b[i] = s[k + i]
    <3>1. i \in 1..(Len(s) - (k + 1) + 1) /\ k + 1 + i - 1 = k + i
      BY <1>1
    <3>2. b[i] = s[k + 1 + i - 1]
      BY <2>2, <3>1
    <3> QED BY <3>1, <3>2
  <2> QED BY <2>2, <2>3, <2>4
<1> QED BY <1>2, <1>3

-----------------------------------------------------------------------------
(* The families and their places in the validated order.                   *)

\* The families of the core, and all families.
Backbone == {"abd", "ana", "cau", "ctf", "ded", "prob"}
Family == Backbone \union Optional

\* The core, place by place.
LEMMA CoreIs ==
  /\ Core \in Seq(Backbone) /\ Len(Core) = 6 /\ ToSet(Core) = Backbone
  /\ Core[1] = "abd" /\ Core[2] = "ana" /\ Core[3] = "cau" /\ Core[4] = "ctf"
  /\ Core[5] = "ded" /\ Core[6] = "prob"
<1>1. Core \in Seq(Backbone) /\ Len(Core) = 6
  BY DEF Core, Backbone
<1>2. /\ Core[1] = "abd" /\ Core[2] = "ana" /\ Core[3] = "cau" /\ Core[4] = "ctf"
      /\ Core[5] = "ded" /\ Core[6] = "prob"
  BY DEF Core
<1>3. DOMAIN Core = {1, 2, 3, 4, 5, 6}
  BY <1>1
<1>4. ToSet(Core) = {Core[1], Core[2], Core[3], Core[4], Core[5], Core[6]}
  BY <1>3 DEF ToSet
<1> QED BY <1>1, <1>2, <1>4 DEF Backbone

\* The optional families.
LEMMA OptionalIs ==
  Optional = {"heur", "dia_adv", "fal_guard", "ind", "eml_sr", "plan", "opt"}
<1>1. ToSet(Shadows) = {"ind", "eml_sr"}
  <2>1. Shadows[1] = "ind" /\ Shadows[2] = "eml_sr" /\ DOMAIN Shadows = {1, 2}
    BY DEF Shadows
  <2>2. ToSet(Shadows) = {Shadows[1], Shadows[2]}
    BY <2>1 DEF ToSet
  <2> QED BY <2>1, <2>2
<1>2. ToSet(Deliberative) = {"plan", "opt"}
  <2>1. Deliberative[1] = "plan" /\ Deliberative[2] = "opt"
        /\ DOMAIN Deliberative = {1, 2}
    BY DEF Deliberative
  <2>2. ToSet(Deliberative) = {Deliberative[1], Deliberative[2]}
    BY <2>1 DEF ToSet
  <2> QED BY <2>1, <2>2
<1> QED BY <1>1, <1>2 DEF Optional, Augmenters

\* The place of every family in the validated order.
Place ==
  [abd |-> 1, heur |-> 2, ind |-> 3, ana |-> 4, dia_adv |-> 5, cau |-> 6,
   ctf |-> 7, eml_sr |-> 8, plan |-> 9, opt |-> 10, ded |-> 11,
   fal_guard |-> 12, prob |-> 13]

\* There are thirteen places.
LEMMA PlaceType == \A f \in Family : Place[f] \in 1..13
<1> SUFFICES ASSUME NEW f \in Family PROVE Place[f] \in 1..13
  OBVIOUS
<1>1. f \in {"abd", "ana", "cau", "ctf", "ded", "prob", "heur", "dia_adv",
             "fal_guard", "ind", "eml_sr", "plan", "opt"}
  BY OptionalIs DEF Family, Backbone
<1> QED BY <1>1 DEF Place

\* A sequence of given families by growing place.
InOrder(seq, P) ==
  /\ seq \in Seq(P) /\ ToSet(seq) = P
  /\ \A i, j \in 1..Len(seq) : i < j => Place[seq[i]] < Place[seq[j]]

\* The core is in order.
LEMMA CoreInOrder == InOrder(Core, Backbone)
<1>1. \A i \in 1..6 : i \in {1, 2, 3, 4, 5, 6}
  OBVIOUS
<1>2. /\ Place[Core[1]] = 1 /\ Place[Core[2]] = 4 /\ Place[Core[3]] = 6
      /\ Place[Core[4]] = 7 /\ Place[Core[5]] = 11 /\ Place[Core[6]] = 13
  BY CoreIs DEF Place
<1>3. \A i, j \in 1..6 : i < j => Place[Core[i]] < Place[Core[j]]
  BY <1>1, <1>2
<1> QED BY <1>3, CoreIs DEF InOrder

\* What goes in behind an anchor, when nothing has a place between.
LEMMA PutIn ==
  ASSUME NEW P \in SUBSET Family, NEW seq, InOrder(seq, P),
         NEW a \in P, NEW f \in Family \ P, Place[a] < Place[f],
         \A g \in P : Place[g] <= Place[a] \/ Place[f] < Place[g]
  PROVE  InOrder(InsertAt(seq, Index(seq, a) + 1, f), P \union {f})
<1>1. seq \in Seq(P) /\ ToSet(seq) = P /\ Len(seq) \in Nat
  BY Members DEF InOrder
<1> DEFINE k == Index(seq, a)
           n == Len(seq)
           Q == P \union {f}
           front == SubSeq(seq, 1, k)
           back == SubSeq(seq, k + 1, n)
           t == (front \o <<f>>) \o back
<1>2. k \in 1..n /\ seq[k] = a /\ k \in 0..n /\ k \in Nat
  BY <1>1, IndexIs
<1>3. InsertAt(seq, k + 1, f) = t
  <2>1. (k + 1) - 1 = k
    BY <1>2
  <2>2. InsertAt(seq, k + 1, f)
          = (SubSeq(seq, 1, (k + 1) - 1) \o <<f>>) \o SubSeq(seq, k + 1, n)
    BY Zenon DEF InsertAt
  <2>3. SubSeq(seq, 1, (k + 1) - 1) = front
    BY <2>1, Zenon
  <2> QED BY <2>2, <2>3, Zenon
<1>4. seq \in Seq(Q) /\ <<f>> \in Seq(Q) /\ Len(<<f>>) = 1
  <2>1. P \subseteq Q
    OBVIOUS
  <2> QED BY <1>1, <2>1, SeqMonotonic
<1>5. /\ front \in Seq(Q) /\ Len(front) = k /\ \A i \in 1..k : front[i] = seq[i]
      /\ back \in Seq(Q) /\ Len(back) = n - k
      /\ \A i \in 1..(n - k) : back[i] = seq[k + i]
  BY <1>2, <1>4, Beginning
<1>6. /\ front \o <<f>> \in Seq(Q) /\ Len(front \o <<f>>) = k + 1
      /\ \A i \in 1..(k + 1) : (front \o <<f>>)[i] = IF i <= k THEN front[i] ELSE <<f>>[i - k]
  BY <1>4, <1>5, ConcatProperties
<1>7. t \in Seq(Q) /\ Len(t) = n + 1
  <2>1. t \in Seq(Q) /\ Len(t) = Len(front \o <<f>>) + Len(back)
    BY <1>5, <1>6, ConcatProperties
  <2> QED BY <1>1, <1>2, <1>5, <1>6, <2>1
<1>8. \A i \in 1..(n + 1) : t[i] = IF i <= k + 1 THEN (front \o <<f>>)[i] ELSE back[i - (k + 1)]
  <2>1. \A i \in 1..(Len(front \o <<f>>) + Len(back)) :
          t[i] = IF i <= Len(front \o <<f>>) THEN (front \o <<f>>)[i]
                 ELSE back[i - Len(front \o <<f>>)]
    <3>1. PICK p \in Seq(Q) : p = front \o <<f>>
      BY <1>6
    <3>2. PICK q \in Seq(Q) : q = back
      BY <1>5
    <3>3. \A i \in 1..(Len(p) + Len(q)) :
            (p \o q)[i] = IF i <= Len(p) THEN p[i] ELSE q[i - Len(p)]
      BY ConcatProperties
    <3> HIDE DEF front, back, Q
    <3> QED BY <3>1, <3>2, <3>3
  <2>2. Len(front \o <<f>>) + Len(back) = n + 1
    BY <1>1, <1>2, <1>5, <1>6
  <2> QED BY <1>6, <2>1, <2>2
<1> HIDE DEF t, front, back, k, n
<1>9. ASSUME NEW i \in 1..k PROVE t[i] = seq[i]
  <2>1. i \in 1..(n + 1) /\ i \in 1..(k + 1) /\ i <= k + 1 /\ i <= k
    BY <1>1, <1>2 DEF n
  <2> QED BY <1>5, <1>6, <1>8, <2>1
<1>10. t[k + 1] = f
  <2>1. k + 1 \in 1..(n + 1) /\ k + 1 \in 1..(k + 1) /\ k + 1 <= k + 1
        /\ ~(k + 1 <= k) /\ (k + 1) - k = 1
    BY <1>1, <1>2 DEF n
  <2>2. t[k + 1] = (front \o <<f>>)[k + 1]
    BY <1>8, <2>1
  <2>3. (front \o <<f>>)[k + 1] = <<f>>[(k + 1) - k]
    BY <1>6, <2>1
  <2>4. <<f>>[(k + 1) - k] = f
    BY <2>1
  <2> QED BY <2>2, <2>3, <2>4
<1>11. ASSUME NEW i \in (k + 2)..(n + 1)
       PROVE  i - 1 \in (k + 1)..n /\ t[i] = seq[i - 1]
  <2>1. /\ i \in 1..(n + 1) /\ ~(i <= k + 1) /\ i - (k + 1) \in 1..(n - k)
        /\ k + (i - (k + 1)) = i - 1 /\ i - 1 \in (k + 1)..n
    BY <1>1, <1>2 DEF n
  <2>2. t[i] = back[i - (k + 1)]
    BY <1>8, <2>1
  <2>3. back[i - (k + 1)] = seq[k + (i - (k + 1))]
    BY <1>5, <2>1
  <2> QED BY <2>1, <2>2, <2>3
<1>12. \A i \in 1..(n + 1) : i \in 1..k \/ i = k + 1 \/ i \in (k + 2)..(n + 1)
  BY <1>1, <1>2 DEF n
<1>13. ToSet(t) = Q
  <2>1. /\ ToSet(t) = {t[i] : i \in 1..(n + 1)} /\ ToSet(t) \in SUBSET Q
    <3>1. ToSet(t) = {t[i] : i \in 1..Len(t)} /\ ToSet(t) \in SUBSET Q
      BY <1>7, Members
    <3> QED BY <1>7, <3>1
  <2>2. f \in ToSet(t)
    <3>1. k + 1 \in 1..(n + 1)
      BY <1>1, <1>2 DEF n
    <3> QED BY <1>10, <2>1, <3>1
  <2>3. ASSUME NEW g \in P PROVE g \in ToSet(t)
    <3>1. PICK i \in 1..n : g = seq[i]
      BY <1>1, Members DEF n
    <3>2. CASE i \in 1..k
      <4>1. i \in 1..(n + 1) /\ t[i] = g
        BY <1>1, <1>2, <1>9, <3>1, <3>2 DEF n
      <4> QED BY <2>1, <4>1
    <3>3. CASE i \notin 1..k
      <4>1. i + 1 \in (k + 2)..(n + 1) /\ i + 1 - 1 = i /\ i + 1 \in 1..(n + 1)
        BY <1>1, <1>2, <3>3 DEF n
      <4>2. t[i + 1] = seq[i + 1 - 1]
        BY <1>11, <4>1
      <4> QED BY <2>1, <3>1, <4>1, <4>2
    <3> QED BY <3>2, <3>3
  <2> QED BY <2>1, <2>2, <2>3
<1>14. \A i, j \in 1..n : i < j => Place[seq[i]] < Place[seq[j]]
  BY DEF InOrder, n
<1>15. \A i \in 1..n : seq[i] \in P /\ Place[seq[i]] \in Int
  <2>1. \A i \in 1..n : seq[i] \in P
    BY <1>1, ElementOfSeq DEF n
  <2>2. \A g \in P : Place[g] \in Int
    BY PlaceType
  <2> QED BY <2>1, <2>2
<1>16. Place[a] \in Int /\ Place[f] \in Int
  BY PlaceType
<1>17. \A i \in 1..k : i \in 1..n /\ Place[seq[i]] < Place[f]
  <2> SUFFICES ASSUME NEW i \in 1..k PROVE i \in 1..n /\ Place[seq[i]] < Place[f]
    OBVIOUS
  <2>1. i \in 1..n /\ (i = k \/ i < k)
    BY <1>1, <1>2 DEF n
  <2>2. i < k => Place[seq[i]] < Place[seq[k]]
    BY <1>2, <1>14, <2>1
  <2>3. Place[seq[i]] <= Place[a]
    BY <1>2, <1>15, <1>16, <2>1, <2>2
  <2> QED BY <1>15, <1>16, <2>1, <2>3
<1>18. \A i \in (k + 1)..n : i \in 1..n /\ Place[f] < Place[seq[i]]
  <2> SUFFICES ASSUME NEW i \in (k + 1)..n PROVE i \in 1..n /\ Place[f] < Place[seq[i]]
    OBVIOUS
  <2>1. i \in 1..n /\ k < i
    BY <1>1, <1>2 DEF n
  <2>2. Place[a] < Place[seq[i]]
    BY <1>2, <1>14, <2>1
  <2> QED BY <1>15, <1>16, <2>1, <2>2
<1>19. ASSUME NEW i \in 1..(n + 1), NEW j \in 1..(n + 1), i < j
       PROVE  Place[t[i]] < Place[t[j]]
  <2>1. CASE j \in 1..k
    <3>1. i \in 1..k /\ t[i] = seq[i] /\ t[j] = seq[j] /\ i \in 1..n /\ j \in 1..n
      BY <1>1, <1>2, <1>9, <1>19, <1>17, <2>1 DEF n
    <3> QED BY <1>14, <1>19, <3>1
  <2>2. CASE j = k + 1
    <3>1. i \in 1..k /\ t[i] = seq[i] /\ t[j] = f
      BY <1>1, <1>2, <1>9, <1>10, <1>19, <2>2 DEF n
    <3> QED BY <1>17, <3>1
  <2>3. CASE j \in (k + 2)..(n + 1)
    <3>1. j - 1 \in (k + 1)..n /\ t[j] = seq[j - 1] /\ j - 1 \in 1..n
          /\ Place[f] < Place[seq[j - 1]]
      BY <1>11, <1>18, <2>3
    <3>2. CASE i \in 1..k
      <4>1. t[i] = seq[i] /\ Place[seq[i]] < Place[f] /\ i \in 1..n
        BY <1>9, <1>17, <3>2
      <4> QED BY <1>15, <1>16, <3>1, <4>1
    <3>3. CASE i = k + 1
      BY <1>10, <3>1, <3>3
    <3>4. CASE i \in (k + 2)..(n + 1)
      <4>1. t[i] = seq[i - 1] /\ i - 1 \in (k + 1)..n
        BY <1>11, <3>4
      <4>2. i - 1 \in 1..n /\ i - 1 < j - 1
        BY <1>18, <1>19, <4>1
      <4> QED BY <1>14, <3>1, <4>1, <4>2
    <3> QED BY <1>12, <3>2, <3>3, <3>4
  <2> QED BY <1>12, <2>1, <2>2, <2>3
<1>20. InOrder(t, Q)
  BY <1>7, <1>13, <1>19 DEF InOrder
<1> QED BY <1>3, <1>20 DEF k

\* Where an overlay goes: after its anchor, before its limit.
LEMMA Anchored ==
  ASSUME NEW P, Backbone \subseteq P, NEW f \in Optional
  PROVE  /\ Anchor(f, P) \in P /\ Limit(f) \in P
         /\ Place[Anchor(f, P)] < Place[f] /\ Place[f] < Place[Limit(f)]
<1>1. f \in {"heur", "dia_adv", "fal_guard", "ind", "eml_sr", "plan", "opt"}
  BY OptionalIs
<1>2. /\ Place["abd"] = 1 /\ Place["heur"] = 2 /\ Place["ind"] = 3 /\ Place["ana"] = 4
      /\ Place["dia_adv"] = 5 /\ Place["cau"] = 6 /\ Place["ctf"] = 7
      /\ Place["eml_sr"] = 8 /\ Place["plan"] = 9 /\ Place["opt"] = 10
      /\ Place["ded"] = 11 /\ Place["fal_guard"] = 12 /\ Place["prob"] = 13
  BY DEF Place
<1>3. {"abd", "ana", "cau", "ctf", "ded", "prob"} \subseteq P
  BY DEF Backbone
<1>4. CASE f = "heur"
  BY <1>2, <1>3, <1>4 DEF Anchor, Limit
<1>5. CASE f = "dia_adv"
  BY <1>2, <1>3, <1>5 DEF Anchor, Limit
<1>6. CASE f = "fal_guard"
  BY <1>2, <1>3, <1>6 DEF Anchor, Limit
<1>7. CASE f = "ind"
  BY <1>2, <1>3, <1>7 DEF Anchor, Limit
<1>8. CASE f = "eml_sr"
  BY <1>2, <1>3, <1>8 DEF Anchor, Limit
<1>9. CASE f = "plan"
  BY <1>2, <1>3, <1>9 DEF Anchor, Limit
<1>10. CASE f = "opt"
  BY <1>2, <1>3, <1>10 DEF Anchor, Limit
<1> QED BY <1>1, <1>4, <1>5, <1>6, <1>7, <1>8, <1>9, <1>10

\* The places the order leaves free for an overlay.
HasRoom(f, P) ==
  \A g \in P : Place[g] <= Place[Anchor(f, P)] \/ Place[f] < Place[g]

\* An overlay of the pool, put in where the order has room for it.
LEMMA Overlaid ==
  ASSUME NEW P \in SUBSET Family, Backbone \subseteq P, NEW seq, InOrder(seq, P),
         NEW f \in Optional, f \notin P, HasRoom(f, P), NEW pool
  PROVE  InOrder(IF f \in pool THEN InsertOverlay(seq, f) ELSE seq,
                 P \union (pool \intersect {f}))
<1>1. CASE f \notin pool
  <2>1. P \union (pool \intersect {f}) = P
    BY <1>1
  <2> QED BY <1>1, <2>1
<1>2. CASE f \in pool
  <2>1. P \union (pool \intersect {f}) = P \union {f} /\ ToSet(seq) = P
    BY <1>2 DEF InOrder
  <2>2. InsertOverlay(seq, f) = InsertAt(seq, Index(seq, Anchor(f, P)) + 1, f)
    BY <2>1 DEF InsertOverlay
  <2>3. f \in Family \ P /\ Anchor(f, P) \in P /\ Place[Anchor(f, P)] < Place[f]
    BY Anchored DEF Family
  <2>4. InOrder(InsertAt(seq, Index(seq, Anchor(f, P)) + 1, f), P \union {f})
    BY <2>3, PutIn DEF HasRoom
  <2> QED BY <1>2, <2>1, <2>2, <2>4
<1> QED BY <1>1, <1>2

\* The core with the overlays of a pool is in order, and has nothing else.
LEMMA Composition ==
  ASSUME NEW pool \in SUBSET Optional
  PROVE  InOrder(Composed(pool), Backbone \union pool)
<1> DEFINE with(f, seq) == IF f \in pool THEN InsertOverlay(seq, f) ELSE seq
           s1 == with("heur", Core)
           s2 == with("ind", s1)
           s3 == with("dia_adv", s2)
           s4 == with("plan", s3)
           s5 == with("opt", s4)
           s6 == with("eml_sr", s5)
           s7 == with("fal_guard", s6)
           P0 == Backbone
           P1 == P0 \union (pool \intersect {"heur"})
           P2 == P1 \union (pool \intersect {"ind"})
           P3 == P2 \union (pool \intersect {"dia_adv"})
           P4 == P3 \union (pool \intersect {"plan"})
           P5 == P4 \union (pool \intersect {"opt"})
           P6 == P5 \union (pool \intersect {"eml_sr"})
           P7 == P6 \union (pool \intersect {"fal_guard"})
<1>1. /\ Place["abd"] = 1 /\ Place["heur"] = 2 /\ Place["ind"] = 3 /\ Place["ana"] = 4
      /\ Place["dia_adv"] = 5 /\ Place["cau"] = 6 /\ Place["ctf"] = 7
      /\ Place["eml_sr"] = 8 /\ Place["plan"] = 9 /\ Place["opt"] = 10
      /\ Place["ded"] = 11 /\ Place["fal_guard"] = 12 /\ Place["prob"] = 13
  BY DEF Place
<1>2. Composed(pool) = s7
  BY Zenon DEF Composed
<1>3. /\ P1 \subseteq Backbone \union {"heur"}
      /\ P2 \subseteq Backbone \union {"heur", "ind"}
      /\ P3 \subseteq Backbone \union {"heur", "ind", "dia_adv"}
      /\ P4 \subseteq Backbone \union {"heur", "ind", "dia_adv", "plan"}
      /\ P5 \subseteq Backbone \union {"heur", "ind", "dia_adv", "plan", "opt"}
      /\ P6 \subseteq Backbone \union {"heur", "ind", "dia_adv", "plan", "opt", "eml_sr"}
  OBVIOUS
<1>4. P7 = Backbone \union pool
  BY OptionalIs
<1>5. /\ Backbone \subseteq P0 /\ Backbone \subseteq P1 /\ Backbone \subseteq P2
      /\ Backbone \subseteq P3 /\ Backbone \subseteq P4 /\ Backbone \subseteq P5
      /\ Backbone \subseteq P6
  OBVIOUS
<1>6. /\ P0 \in SUBSET Family /\ P1 \in SUBSET Family /\ P2 \in SUBSET Family
      /\ P3 \in SUBSET Family /\ P4 \in SUBSET Family /\ P5 \in SUBSET Family
      /\ P6 \in SUBSET Family
  BY DEF Family
<1> HIDE DEF P1, P2, P3, P4, P5, P6, P7, s1, s2, s3, s4, s5, s6, s7
<1>7. InOrder(s1, P1)
  <2>1. Anchor("heur", P0) = "abd"
    BY DEF Anchor
  <2>2. HasRoom("heur", P0) /\ "heur" \in Optional /\ "heur" \notin P0
    BY <1>1, <2>1, OptionalIs DEF HasRoom, Backbone
  <2> QED BY <1>5, <1>6, <2>2, CoreInOrder, Overlaid DEF s1, P1
<1>8. InOrder(s2, P2)
  <2>1. Anchor("ind", P1) = IF "heur" \in P1 THEN "heur" ELSE "abd"
    BY DEF Anchor
  <2>2. HasRoom("ind", P1) /\ "ind" \in Optional /\ "ind" \notin P1
    BY <1>1, <1>3, <2>1, OptionalIs DEF HasRoom, Backbone
  <2> QED BY <1>5, <1>6, <1>7, <2>2, Overlaid DEF s2, P2
<1>9. InOrder(s3, P3)
  <2>1. Anchor("dia_adv", P2) = "ana"
    BY DEF Anchor
  <2>2. HasRoom("dia_adv", P2) /\ "dia_adv" \in Optional /\ "dia_adv" \notin P2
    BY <1>1, <1>3, <2>1, OptionalIs DEF HasRoom, Backbone
  <2> QED BY <1>5, <1>6, <1>8, <2>2, Overlaid DEF s3, P3
<1>10. InOrder(s4, P4)
  <2>1. Anchor("plan", P3) = "ctf"
    BY DEF Anchor
  <2>2. HasRoom("plan", P3) /\ "plan" \in Optional /\ "plan" \notin P3
    BY <1>1, <1>3, <2>1, OptionalIs DEF HasRoom, Backbone
  <2> QED BY <1>5, <1>6, <1>9, <2>2, Overlaid DEF s4, P4
<1>11. InOrder(s5, P5)
  <2>1. Anchor("opt", P4) = IF "plan" \in P4 THEN "plan" ELSE "ctf"
    BY DEF Anchor
  <2>2. HasRoom("opt", P4) /\ "opt" \in Optional /\ "opt" \notin P4
    BY <1>1, <1>3, <2>1, OptionalIs DEF HasRoom, Backbone
  <2> QED BY <1>5, <1>6, <1>10, <2>2, Overlaid DEF s5, P5
<1>12. InOrder(s6, P6)
  <2>1. Anchor("eml_sr", P5) = "ctf"
    BY DEF Anchor
  <2>2. HasRoom("eml_sr", P5) /\ "eml_sr" \in Optional /\ "eml_sr" \notin P5
    BY <1>1, <1>3, <2>1, OptionalIs DEF HasRoom, Backbone
  <2> QED BY <1>5, <1>6, <1>11, <2>2, Overlaid DEF s6, P6
<1>13. InOrder(s7, P7)
  <2>1. Anchor("fal_guard", P6) = "ded"
    BY DEF Anchor
  <2>2. HasRoom("fal_guard", P6) /\ "fal_guard" \in Optional /\ "fal_guard" \notin P6
    BY <1>1, <1>3, <2>1, OptionalIs DEF HasRoom, Backbone
  <2> QED BY <1>5, <1>6, <1>12, <2>2, Overlaid DEF s7, P7
<1> QED BY <1>2, <1>4, <1>13

-----------------------------------------------------------------------------
(* What the order is worth: the core keeps its order, overlays their place.*)

\* In a sequence in order, nothing is twice, and the places tell the indices.
LEMMA OrderOfIndices ==
  ASSUME NEW P \in SUBSET Family, NEW seq, InOrder(seq, P)
  PROVE  /\ Distinct(seq)
         /\ \A f, g \in P : Place[f] < Place[g] => Index(seq, f) < Index(seq, g)
<1>1. /\ seq \in Seq(P) /\ ToSet(seq) = P /\ Len(seq) \in Nat
      /\ \A i, j \in 1..Len(seq) : i < j => Place[seq[i]] < Place[seq[j]]
  BY Members DEF InOrder
<1>2. \A f \in P : Place[f] \in Int
  BY PlaceType
<1>3. \A i \in 1..Len(seq) : i \in Int /\ Place[seq[i]] \in Int
  BY <1>1, <1>2, ElementOfSeq
<1>4. Distinct(seq)
  <2> SUFFICES ASSUME NEW i \in 1..Len(seq), NEW j \in 1..Len(seq), seq[i] = seq[j]
               PROVE  i = j
    BY DEF Distinct
  <2>1. i < j \/ i = j \/ j < i
    BY <1>3
  <2>2. ~(Place[seq[i]] < Place[seq[j]]) /\ ~(Place[seq[j]] < Place[seq[i]])
    BY <1>3
  <2> QED BY <1>1, <2>1, <2>2
<1>5. ASSUME NEW f \in P, NEW g \in P, Place[f] < Place[g]
      PROVE  Index(seq, f) < Index(seq, g)
  <2>1. PICK i \in 1..Len(seq) : i = Index(seq, f) /\ seq[i] = f
    BY <1>1, IndexIs
  <2>2. PICK j \in 1..Len(seq) : j = Index(seq, g) /\ seq[j] = g
    BY <1>1, IndexIs
  <2>3. ~(j = i) /\ ~(j < i)
    BY <1>1, <1>2, <1>5, <2>1, <2>2
  <2> QED BY <1>3, <2>1, <2>2, <2>3
<1> QED BY <1>4, <1>5

\* A sequence in order with the whole core has what the validator asks for.
LEMMA OrderIsKept ==
  ASSUME NEW P \in SUBSET Family, Backbone \subseteq P, NEW seq, InOrder(seq, P)
  PROVE  /\ KeepsOrder(seq) /\ AtAnchors(seq)
         /\ Last(seq) = "prob"
<1>1. seq \in Seq(P) /\ ToSet(seq) = P /\ Len(seq) \in Nat
  BY Members DEF InOrder
<1>2. /\ Place["abd"] = 1 /\ Place["ana"] = 4 /\ Place["cau"] = 6 /\ Place["ctf"] = 7
      /\ Place["ded"] = 11 /\ Place["prob"] = 13
  BY DEF Place
<1>3. KeepsOrder(seq)
  <2> SUFFICES ASSUME NEW i \in 1..6, NEW j \in 1..6, i < j
               PROVE  Index(seq, Core[i]) < Index(seq, Core[j])
    BY CoreIs DEF KeepsOrder
  <2>1. Core[i] \in P /\ Core[j] \in P
    BY CoreIs, ElementOfSeq
  <2>2. Place[Core[i]] < Place[Core[j]]
    BY CoreInOrder, CoreIs DEF InOrder
  <2> QED BY <2>1, <2>2, OrderOfIndices
<1>4. AtAnchors(seq)
  <2> SUFFICES ASSUME NEW f \in P \intersect Optional
               PROVE  /\ Index(seq, Anchor(f, P)) < Index(seq, f)
                      /\ Index(seq, f) < Index(seq, Limit(f))
    BY <1>1 DEF AtAnchors
  <2> QED BY Anchored, OrderOfIndices
<1>5. Last(seq) = "prob"
  <2>1. "prob" \in ToSet(seq)
    BY <1>1 DEF Backbone
  <2>2. PICK i \in 1..Len(seq) : seq[i] = "prob"
    BY <1>1, <2>1, IndexIs
  <2>3. CASE i = Len(seq)
    BY <2>2, <2>3 DEF Last
  <2>4. CASE i # Len(seq)
    <3>1. Len(seq) \in 1..Len(seq) /\ i < Len(seq)
      BY <1>1, <2>4
    <3>2. Place["prob"] < Place[seq[Len(seq)]]
      BY <2>2, <3>1 DEF InOrder
    <3>3. Place[seq[Len(seq)]] \in 1..13
      BY <1>1, <3>1, ElementOfSeq, PlaceType
    <3> QED BY <1>2, <3>2, <3>3
  <2> QED BY <2>3, <2>4
<1> QED BY <1>3, <1>4, <1>5

\* The alphabet has every optional family once.
LEMMA AlphabetIs ==
  Alphabet \in Seq(Optional) /\ ToSet(Alphabet) = Optional /\ Distinct(Alphabet)
<1>1. Alphabet \in Seq(Optional) /\ Len(Alphabet) = 7
  BY OptionalIs DEF Alphabet
<1>2. /\ Alphabet[1] = "dia_adv" /\ Alphabet[2] = "eml_sr" /\ Alphabet[3] = "fal_guard"
      /\ Alphabet[4] = "heur" /\ Alphabet[5] = "ind" /\ Alphabet[6] = "opt"
      /\ Alphabet[7] = "plan"
  BY DEF Alphabet
<1>3. DOMAIN Alphabet = {1, 2, 3, 4, 5, 6, 7} /\ 1..7 = {1, 2, 3, 4, 5, 6, 7}
  BY <1>1
<1>4. ToSet(Alphabet) = {Alphabet[1], Alphabet[2], Alphabet[3], Alphabet[4], Alphabet[5],
                         Alphabet[6], Alphabet[7]}
  BY <1>3 DEF ToSet
<1>5. ToSet(Alphabet) = Optional
  BY <1>2, <1>4, OptionalIs
<1>6. Distinct(Alphabet)
  BY <1>1, <1>2, <1>3 DEF Distinct
<1> QED BY <1>1, <1>5, <1>6

\* How many the families are.
LEMMA HowMany ==
  ASSUME NEW P \in SUBSET Optional
  PROVE  /\ IsFiniteSet(P) /\ Cardinality(P) \in Nat
         /\ Cardinality(Backbone \union P) = 6 + Cardinality(P)
         /\ IsFiniteSet(Backbone \union P)
         /\ Backbone \intersect P = {}
<1>1. IsFiniteSet(Optional)
  BY AlphabetIs, LenIsCard
<1>2. IsFiniteSet(P) /\ Cardinality(P) \in Nat
  BY <1>1, FS_Subset, FS_CardinalityType
<1>3. IsFiniteSet(Backbone) /\ Cardinality(Backbone) = 6
  <2>1. Backbone \in SUBSET Family
    BY DEF Family
  <2>2. Core \in Seq(Backbone) /\ Distinct(Core)
    BY <2>1, CoreInOrder, CoreIs, OrderOfIndices
  <2> QED BY <2>2, CoreIs, LenIsCard
<1>4. Backbone \intersect P = {}
  BY OptionalIs DEF Backbone
<1>5. /\ IsFiniteSet(Backbone \union P)
      /\ Cardinality(Backbone \union P)
           = Cardinality(Backbone) + Cardinality(P) - Cardinality(Backbone \intersect P)
  BY <1>2, <1>3, FS_Union
<1>6. Cardinality(Backbone \intersect P) = 0
  BY <1>4, FS_EmptySet
<1> QED BY <1>2, <1>3, <1>4, <1>5, <1>6

\* The sequence composed of a pool passes, if there are steps for it.
LEMMA ComposedPasses ==
  ASSUME NEW allowed \in SUBSET Optional, NEW pool \in SUBSET allowed,
         NEW floor \in SUBSET Backbone, NEW steps \in Int,
         6 + Cardinality(pool) <= steps, NEW anchored
  PROVE  /\ Passes(Composed(pool), floor, allowed, steps, anchored)
         /\ Composed(pool) \in Seq(Family) /\ Distinct(Composed(pool))
         /\ ToSet(Composed(pool)) = Backbone \union pool
<1>1. InOrder(Composed(pool), Backbone \union pool) /\ pool \in SUBSET Optional
  BY Composition
<1>2. Backbone \union pool \in SUBSET Family
  BY DEF Family
<1>3. PICK seq : seq = Composed(pool)
  OBVIOUS
<1>4. /\ seq \in Seq(Backbone \union pool) /\ ToSet(seq) = Backbone \union pool
      /\ Distinct(seq) /\ seq \in Seq(Family)
  BY <1>1, <1>2, <1>3, OrderOfIndices, SeqMonotonic DEF InOrder
<1>5. KeepsOrder(seq) /\ AtAnchors(seq) /\ Last(seq) = "prob"
  BY <1>1, <1>2, <1>3, OrderIsKept
<1>6. Len(seq) = 6 + Cardinality(pool) /\ Cardinality(pool) \in Nat
  BY <1>1, <1>4, LenIsCard, HowMany
<1>7. Len(seq) \in Len(Core)..steps
  BY <1>6, CoreIs
<1>8. /\ floor \union ToSet(Core) \subseteq ToSet(seq)
      /\ ToSet(seq) \subseteq allowed \union ToSet(Core)
  BY <1>4, CoreIs
<1> QED BY <1>3, <1>4, <1>5, <1>7, <1>8 DEF Passes

-----------------------------------------------------------------------------
(* Which overlays are kept, and in which order the best ones come.         *)

\* Dropping sooner is an order.
LEMMA SoonerIsAnOrder ==
  ASSUME NEW pool \in SUBSET Optional, NEW default, NEW score, \A f \in pool : score[f] \in Int
  PROVE  \A f, g, h \in pool :
           /\ ~ Sooner(f, f, default, score)
           /\ Sooner(f, g, default, score) /\ Sooner(g, h, default, score)
                => Sooner(f, h, default, score)
<1> DEFINE first == Shadows \o Deliberative
           turn(h) == IF h \in ToSet(first) THEN Index(first, h)
                      ELSE IF h \notin default THEN 5 ELSE 6
<1>1. first \in Seq(Optional)
  <2>1. Shadows \in Seq(Optional)
    BY OptionalIs DEF Shadows
  <2>2. Deliberative \in Seq(Optional)
    BY OptionalIs DEF Deliberative
  <2> QED BY <2>1, <2>2, ConcatProperties
<1>2. ASSUME NEW h PROVE turn(h) \in Int
  <2>1. PICK q \in Seq(Optional) : q = first
    BY <1>1
  <2>2. Index(q, h) \in Nat
    BY IndexType
  <2> QED BY <2>1, <2>2
<1>3. ASSUME NEW h PROVE Index(Alphabet, h) \in Int
  BY AlphabetIs, IndexType
<1>4. \A f, g : Sooner(f, g, default, score) <=>
                  \/ turn(f) < turn(g)
                  \/ /\ turn(f) = turn(g)
                     /\ \/ score[f] < score[g]
                        \/ score[f] = score[g] /\ Index(Alphabet, f) < Index(Alphabet, g)
  BY Zenon DEF Sooner
<1> HIDE DEF turn
<1> QED BY <1>2, <1>3, <1>4

\* What is kept of a pool has room; all of it is kept if there is room for it.
LEMMA KeptHasRoom ==
  ASSUME NEW pool \in SUBSET Optional, NEW default, NEW score, \A f \in pool : score[f] \in Int,
         NEW steps \in Int, 6 <= steps
  PROVE  /\ Kept(pool, default, score, steps) \in SUBSET pool
         /\ 6 + Cardinality(Kept(pool, default, score, steps)) <= steps
         /\ 6 + Cardinality(pool) <= steps => Kept(pool, default, score, steps) = pool
<1> DEFINE K == Kept(pool, default, score, steps)
           out(f) == Outlasting(f, pool, default, score)
           much(f) == Cardinality(out(f))
<1>1. K = {f \in pool : 6 + much(f) <= steps}
  BY CoreIs DEF Kept
<1>2. /\ \A f \in pool : out(f) \in SUBSET pool
      /\ \A f, g \in pool : g \in out(f) <=> ~ Sooner(g, f, default, score)
  BY DEF Outlasting
<1>3. IsFiniteSet(pool) /\ Cardinality(pool) \in Nat
  BY HowMany
<1>4. \A f \in pool : IsFiniteSet(out(f)) /\ much(f) \in Nat /\ much(f) <= Cardinality(pool)
  BY <1>2, <1>3, FS_Subset, FS_CardinalityType
<1>5. \A f, g, h \in pool :
        /\ ~ Sooner(f, f, default, score)
        /\ Sooner(f, g, default, score) /\ Sooner(g, h, default, score)
             => Sooner(f, h, default, score)
  BY SoonerIsAnOrder
<1>6. K \in SUBSET pool
  BY <1>1
<1>7. 6 + Cardinality(pool) <= steps => K = pool
  BY <1>1, <1>3, <1>4
<1> HIDE DEF K, out, much
<1>8. CASE K = {}
  <2>1. Cardinality(K) = 0
    BY <1>8, FS_EmptySet
  <2> QED BY <1>6, <1>7, <2>1 DEF K
<1>9. CASE K # {}
  <2> DEFINE left(f) == Cardinality(pool) - much(f)
             L == {left(f) : f \in K}
  <2>1. \A f \in K : f \in pool /\ left(f) \in Nat
    BY <1>3, <1>4, <1>6
  <2>2. L # {} /\ L \in SUBSET Nat
    BY <1>9, <2>1
  <2>3. PICK m \in K : \A g \in K : left(m) <= left(g)
    <3>1. PICK x \in L : \A y \in L : x <= y
      BY <2>2, LeastIs
    <3> QED BY <3>1
  <2>4. \A g \in K : much(g) <= much(m)
    BY <1>3, <1>4, <1>6, <2>3
  <2>5. ASSUME NEW g \in K, Sooner(g, m, default, score) PROVE FALSE
    <3>1. g \in pool /\ m \in pool
      BY <1>6
    <3>2. out(m) \subseteq out(g)
      BY <1>2, <1>5, <2>5, <3>1
    <3>3. g \in out(g) /\ g \notin out(m)
      BY <1>2, <1>5, <2>5, <3>1
    <3>4. out(m) \in SUBSET out(g) /\ out(m) # out(g) /\ IsFiniteSet(out(g))
      BY <1>4, <3>1, <3>2, <3>3
    <3>5. Cardinality(out(m)) <= Cardinality(out(g)) /\ Cardinality(out(g)) # Cardinality(out(m))
      BY <3>4, FS_Subset
    <3>6. much(m) < much(g)
      BY <1>4, <3>1, <3>5 DEF much
    <3> QED BY <1>4, <2>4, <3>1, <3>6
  <2>6. K \in SUBSET out(m)
    BY <1>2, <1>6, <2>5
  <2>7. IsFiniteSet(out(m)) /\ much(m) \in Nat /\ 6 + much(m) <= steps
    BY <1>1, <1>4, <1>6
  <2>8. Cardinality(K) <= much(m) /\ Cardinality(K) \in Nat
    BY <2>6, <2>7, FS_Subset, FS_CardinalityType DEF much
  <2>9. 6 + Cardinality(K) <= steps
    BY <2>7, <2>8
  <2> QED BY <1>6, <1>7, <2>9 DEF K
<1> QED BY <1>8, <1>9

\* A set by growing key is a sequence of it that has everything once.
LEMMA OrderedIs ==
  ASSUME NEW S, IsFiniteSet(S), NEW key, \A f \in S : key[f] \in Int,
         \A f, g \in S : key[f] = key[g] => f = g
  PROVE  /\ Ordered(S, key) \in Seq(S) /\ Len(Ordered(S, key)) = Cardinality(S)
         /\ ToSet(Ordered(S, key)) = S /\ Distinct(Ordered(S, key))
<1> DEFINE n == Cardinality(S)
           upto(f) == {g \in S : key[g] <= key[f]}
           rank == [f \in S |-> Cardinality(upto(f))]
           s == Ordered(S, key)
<1>1. n \in Nat
  BY FS_CardinalityType
<1>2. ASSUME NEW f \in S
      PROVE  f \in upto(f) /\ upto(f) \in SUBSET S /\ IsFiniteSet(upto(f)) /\ rank[f] \in 1..n
  <2>1. f \in upto(f) /\ upto(f) \in SUBSET S
    OBVIOUS
  <2>2. IsFiniteSet(upto(f)) /\ Cardinality(upto(f)) \in Nat /\ Cardinality(upto(f)) <= n
    BY <2>1, FS_Subset, FS_CardinalityType
  <2>3. Cardinality(upto(f)) # 0
    BY <2>1, <2>2, FS_EmptySet
  <2> QED BY <1>1, <2>1, <2>2, <2>3
<1>3. ASSUME NEW f \in S, NEW g \in S, key[f] < key[g] PROVE rank[f] < rank[g]
  <2>1. upto(f) \in SUBSET upto(g)
    BY <1>3
  <2>2. g \in upto(g) /\ g \notin upto(f)
    BY <1>3
  <2>3. upto(f) # upto(g)
    BY <2>2
  <2>4. Cardinality(upto(f)) <= Cardinality(upto(g)) /\ Cardinality(upto(g)) # Cardinality(upto(f))
    BY <1>2, <2>1, <2>3, FS_Subset
  <2>5. rank[f] = Cardinality(upto(f)) /\ rank[g] = Cardinality(upto(g))
    OBVIOUS
  <2>6. rank[f] \in 1..n /\ rank[g] \in 1..n
    BY <1>2
  <2> HIDE DEF rank, upto
  <2> QED BY <1>1, <2>4, <2>5, <2>6
<1>4. rank \in [S -> 1..n]
  BY <1>2
<1> HIDE DEF rank
<1>5. \A f, g \in S : rank[f] = rank[g] => f = g
  <2>1. \A f, g \in S : key[f] < key[g] \/ key[g] < key[f] \/ f = g
    OBVIOUS
  <2>2. \A f \in S : rank[f] \in Int
    BY <1>1, <1>4
  <2> QED BY <1>3, <2>1, <2>2
<1>6. rank \in Injection(S, 1..n)
  BY <1>4, <1>5 DEF Injection, IsInjective
<1>7. IsFiniteSet(1..n) /\ Cardinality(1..n) = n
  BY <1>1, FS_Interval
<1>8. rank \in Surjection(S, 1..n)
  BY <1>6, <1>7, FS_Injection
<1>9. \A i \in 1..n : \E f \in S : rank[f] = i
  BY <1>8 DEF Surjection
<1>10. DOMAIN s = 1..n
  BY DEF Ordered
<1>11. ASSUME NEW i \in 1..n PROVE s[i] \in S /\ rank[s[i]] = i
  <2>1. s[i] = CHOOSE f \in S : Cardinality({g \in S : key[g] <= key[f]}) = i
    BY DEF Ordered
  <2>2. \E f \in S : Cardinality({g \in S : key[g] <= key[f]}) = i
    BY <1>9 DEF rank
  <2>3. s[i] \in S /\ Cardinality({g \in S : key[g] <= key[s[i]]}) = i
    BY <2>1, <2>2, Zenon
  <2> QED BY <2>3 DEF rank
<1>12. s \in Seq(S) /\ Len(s) = n
  <2>1. s \in [1..n -> S]
    <3>1. ASSUME NEW i \in 1..n
          PROVE  (CHOOSE f \in S : Cardinality({g \in S : key[g] <= key[f]}) = i) \in S
      BY <1>9, Zenon DEF rank
    <3> QED BY <3>1, Zenon DEF Ordered
  <2>2. s \in Seq(S)
    BY <1>1, <2>1, SeqDef
  <2>3. DOMAIN s = 1..n /\ DOMAIN s = 1..Len(s) /\ Len(s) \in Nat
    BY <1>10, <2>2, LenProperties
  <2>4. Len(s) = n
    BY <1>1, <2>3
  <2> QED BY <2>2, <2>4
<1>13. Distinct(s)
  BY <1>11, <1>12 DEF Distinct
<1>14. ToSet(s) = S
  <2>1. ToSet(s) = {s[i] : i \in 1..n}
    BY <1>12, Members
  <2>2. ASSUME NEW f \in S PROVE f \in ToSet(s)
    <3>1. rank[f] \in 1..n
      BY <1>4
    <3>2. s[rank[f]] = f
      BY <1>5, <1>11, <3>1
    <3> QED BY <2>1, <3>1, <3>2
  <2> QED BY <1>11, <2>1, <2>2
<1> QED BY <1>12, <1>13, <1>14

\* The families of a set by score.
LEMMA BestIs ==
  ASSUME NEW S \in SUBSET Optional, NEW score, \A f \in S : score[f] \in Int
  PROVE  /\ Best(S, score) \in Seq(S) /\ Len(Best(S, score)) = Cardinality(S)
         /\ ToSet(Best(S, score)) = S /\ Distinct(Best(S, score))
<1> DEFINE key == [f \in S |-> Index(Alphabet, f) - 10 * score[f]]
<1>1. ASSUME NEW f \in S PROVE Index(Alphabet, f) \in 1..7 /\ Alphabet[Index(Alphabet, f)] = f
  <2>1. f \in ToSet(Alphabet) /\ Len(Alphabet) = 7
    BY AlphabetIs DEF Alphabet
  <2> QED BY <2>1, AlphabetIs, IndexIs
<1>2. \A f \in S : key[f] \in Int
  BY <1>1
<1>3. ASSUME NEW f \in S, NEW g \in S, key[f] = key[g] PROVE f = g
  <2>1. PICK i \in 1..7, j \in 1..7 : i = Index(Alphabet, f) /\ j = Index(Alphabet, g)
    BY <1>1
  <2>2. PICK m \in Int, n \in Int : m = score[f] /\ n = score[g]
    OBVIOUS
  <2>3. i - 10 * m = j - 10 * n
    BY <1>3, <2>1, <2>2
  <2>4. i = j
    BY <2>3
  <2> QED BY <1>1, <2>1, <2>4
<1>4. IsFiniteSet(S)
  BY HowMany
<1> QED BY <1>2, <1>3, <1>4, OrderedIs DEF Best

-----------------------------------------------------------------------------
(* The signals, the scores, the budget and the floors.                     *)

\* What the signals are: numbers.
Measures == [uncertainty : Int, contradiction : Int, edge : Int, causal : Int,
             regularity : Int, law : Int, heterogeneity : Int, level : Int, viability : Int, ambiguity : Int,
             fragility : Int, pattern : Int, vram : Int]

\* The signals of a context are numbers.
LEMMA SignalsType ==
  ASSUME NEW c \in Context
  PROVE  Signals(c) \in Measures
<1> DEFINE a == Alarmed(c)
           If(b, n) == IF b THEN n ELSE 0
<1>1. /\ c.uncertainty \in Int /\ c.contradiction \in Int /\ c.continuity \in Int
      /\ c.edge \in Int /\ c.gap \in Int /\ c.margin \in Int /\ c.level \in Int
      /\ c.heterogeneity \in Int /\ c.entropy \in Int /\ c.regularity \in Int
      /\ c.law \in Int /\ c.vram \in Int /\ c.hint \in Int
      /\ DOMAIN c = {"uncertainty", "contradiction", "continuity", "edge", "gap", "alarm",
                     "margin", "level", "heterogeneity", "entropy", "bare",
                     "regularity", "law", "vram", "hint"}
  BY DEF Context
<1>2. /\ a.uncertainty \in Int /\ a.contradiction \in Int /\ a.continuity \in Int
      /\ a.edge \in Int /\ a.gap \in Int /\ a.margin \in Int /\ a.level \in Int
      /\ a.heterogeneity \in Int /\ a.entropy \in Int /\ a.regularity \in Int
      /\ a.law \in Int /\ a.vram \in Int /\ a.hint \in Int
  <2>1. CASE ~ c.alarm
    BY <1>1, <2>1 DEF Alarmed
  <2>2. CASE c.alarm
    <3>1. a = [c EXCEPT !.contradiction = Larger(@, 40), !.edge = Larger(@, 30),
                        !.level = Larger(@, 86)]
      BY <2>2 DEF Alarmed
    <3>2. /\ a.contradiction = Larger(c.contradiction, 40) /\ a.edge = Larger(c.edge, 30)
          /\ a.level = Larger(c.level, 86)
          /\ a.uncertainty = c.uncertainty /\ a.continuity = c.continuity /\ a.gap = c.gap
          /\ a.margin = c.margin /\ a.heterogeneity = c.heterogeneity
          /\ a.entropy = c.entropy /\ a.regularity = c.regularity /\ a.law = c.law
          /\ a.vram = c.vram /\ a.hint = c.hint
      BY <1>1, <3>1
    <3>3. /\ Larger(c.contradiction, 40) \in Int /\ Larger(c.edge, 30) \in Int
          /\ Larger(c.level, 86) \in Int
      BY <1>1 DEF Larger
    <3> HIDE DEF a
    <3> QED BY <1>1, <3>2, <3>3
  <2> QED BY <2>1, <2>2
<1>3. \A n \in Int : Unit(n) \in Int
  BY DEF Unit, Larger, Smaller
<1>4. If(a.alarm, 1500) \in Int /\ If(a.alarm, 2000) \in Int /\ If(a.bare, 3000) \in Int
  OBVIOUS
<1>5. Signals(c) =
        [uncertainty   |-> 100 * a.uncertainty,
         contradiction |-> 100 * a.contradiction,
         edge          |-> 100 * a.edge,
         causal        |-> 100 * a.gap,
         regularity    |-> 100 * a.regularity,
         law           |-> 100 * a.law,
         heterogeneity |-> 100 * a.heterogeneity,
         level         |-> 100 * a.level,
         viability     |-> Unit(40 * a.edge + 35 * a.level + 20 * (100 - a.margin)
                                + If(a.alarm, 1500)),
         ambiguity     |-> Unit(45 * a.uncertainty + 30 * a.contradiction + 25 * a.gap),
         fragility     |-> Unit(45 * a.contradiction + 35 * (100 - a.continuity)
                                + If(a.alarm, 2000)),
         pattern       |-> Unit(60 * a.heterogeneity + If(a.bare, 3000) + 10 * a.entropy),
         vram          |-> Unit(90 * a.vram + 10 * a.hint)]
  BY Zenon DEF Signals
<1> HIDE DEF a, If
<1>6. /\ 40 * a.edge + 35 * a.level + 20 * (100 - a.margin) + If(a.alarm, 1500) \in Int
      /\ 45 * a.uncertainty + 30 * a.contradiction + 25 * a.gap \in Int
      /\ 45 * a.contradiction + 35 * (100 - a.continuity) + If(a.alarm, 2000) \in Int
      /\ 60 * a.heterogeneity + If(a.bare, 3000) + 10 * a.entropy \in Int
      /\ 90 * a.vram + 10 * a.hint \in Int
  BY <1>2, <1>4
<1> QED BY <1>2, <1>3, <1>5, <1>6 DEF Measures

\* So are the scores.
LEMMA ScoresType ==
  ASSUME NEW s \in Measures, NEW label
  PROVE  \A f \in Optional : Scores(s, label)[f] \in Int
<1>1. /\ s.edge \in Int /\ s.contradiction \in Int /\ s.fragility \in Int /\ s.pattern \in Int
      /\ s.regularity \in Int /\ s.law \in Int /\ s.viability \in Int /\ s.level \in Int /\ s.causal \in Int
  BY DEF Measures
<1>2. Scores(s, label).heur \in Int
  BY <1>1 DEF Scores
<1>3. Scores(s, label).dia_adv \in Int
  BY <1>1 DEF Scores
<1>4. Scores(s, label).fal_guard \in Int
  BY <1>1 DEF Scores
<1>5. Scores(s, label).ind \in Int
  BY <1>1 DEF Scores
<1>6. Scores(s, label).eml_sr \in Int
  BY <1>1 DEF Scores
<1>7. Scores(s, label).plan \in Int
  BY <1>1 DEF Scores
<1>8. Scores(s, label).opt \in Int
  BY <1>1 DEF Scores
<1>9. ASSUME NEW f \in Optional PROVE Scores(s, label)[f] \in Int
  <2>1. f \in {"heur", "dia_adv", "fal_guard", "ind", "eml_sr", "plan", "opt"}
    BY OptionalIs
  <2> QED BY <1>2, <1>3, <1>4, <1>5, <1>6, <1>7, <1>8, <2>1
<1> QED BY <1>9

\* The steps granted or asked for are between four and ten.
LEMMA BudgetType ==
  ASSUME NEW s \in Measures, NEW asked \in Nat
  PROVE  Budget(s, asked) \in 4..10
<1>1. CASE asked = 0
  BY <1>1 DEF Budget, Larger, Smaller
<1>2. CASE asked # 0
  BY <1>2 DEF Budget, Larger, Smaller
<1> QED BY <1>1, <1>2

\* Whatever the signals, the floor of the regime is of the core.
LEMMA FloorType ==
  ASSUME NEW hint \in Labels \union {"none"}, NEW s
  PROVE  Floor(Regime(hint, s).beneath) \in SUBSET Backbone
<1> DEFINE shown == {"viability_edge", "heterogeneous_warning", "heterogeneous_elevated",
                     "homogeneous_safe"}
           r == Regime(hint, s)
<1>1. Shows(s, FALSE) \in shown /\ Shows(s, TRUE) \in shown \union {"vram_favorable"}
  BY DEF Shows
<1>2. /\ r.primary = IF hint # "none" THEN hint ELSE Shows(s, TRUE)
      /\ r.beneath = IF r.primary = "vram_favorable" THEN Shows(s, FALSE) ELSE r.primary
  BY DEF Regime
<1>3. r.beneath \in shown
  BY <1>1, <1>2 DEF Labels
<1> HIDE DEF r
<1>4. CASE r.beneath = "viability_edge"
  BY <1>4 DEF Floor, Backbone, r
<1>5. CASE r.beneath = "heterogeneous_warning"
  BY <1>5 DEF Floor, Backbone, r
<1>6. CASE r.beneath = "heterogeneous_elevated"
  BY <1>6 DEF Floor, Backbone, r
<1>7. CASE r.beneath = "homogeneous_safe"
  BY <1>7 DEF Floor, Backbone, r
<1> QED BY <1>3, <1>4, <1>5, <1>6, <1>7

\* The families of a profile are optional ones.
LEMMA ProfilesType ==
  ASSUME NEW profile \in DOMAIN Profiles
  PROVE  Profiles[profile] \in Seq(Optional) /\ ToSet(Profiles[profile]) \in SUBSET Optional
<1> DEFINE three == <<"heur", "dia_adv", "fal_guard">>
<1>1. /\ three \in Seq(Optional) /\ Shadows \in Seq(Optional) /\ Deliberative \in Seq(Optional)
  BY OptionalIs DEF Shadows, Deliberative
<1>2. /\ three \o Shadows \in Seq(Optional) /\ (three \o Shadows) \o Deliberative \in Seq(Optional)
  BY <1>1, ConcatProperties
<1>3. /\ <<>> \in Seq(Optional) /\ <<"heur">> \in Seq(Optional) /\ <<"dia_adv">> \in Seq(Optional)
      /\ <<"fal_guard">> \in Seq(Optional) /\ <<"heur", "fal_guard">> \in Seq(Optional)
      /\ <<"heur", "dia_adv">> \in Seq(Optional) /\ <<"fal_guard", "dia_adv">> \in Seq(Optional)
      /\ <<"ind">> \in Seq(Optional) /\ <<"plan">> \in Seq(Optional) /\ <<"opt">> \in Seq(Optional)
      /\ <<"heur", "dia_adv", "fal_guard", "eml_sr">> \in Seq(Optional)
  BY OptionalIs
<1>4. /\ Profiles["core_only"] \in Seq(Optional)
      /\ Profiles["core_plus_heur"] \in Seq(Optional)
      /\ Profiles["core_plus_dialectic"] \in Seq(Optional)
      /\ Profiles["core_plus_guard"] \in Seq(Optional)
  BY <1>3 DEF Profiles
<1>5. /\ Profiles["core_plus_heur_guard"] \in Seq(Optional)
      /\ Profiles["core_plus_heur_dialectic"] \in Seq(Optional)
      /\ Profiles["core_plus_guard_dialectic"] \in Seq(Optional)
      /\ Profiles["core_plus_triple_optional"] \in Seq(Optional)
  BY <1>3 DEF Profiles
<1>6. /\ Profiles["core_plus_ind"] \in Seq(Optional)
      /\ Profiles["core_plus_plan"] \in Seq(Optional)
      /\ Profiles["core_plus_opt"] \in Seq(Optional)
      /\ Profiles["adaptive_family_ecology"] \in Seq(Optional)
  BY <1>3 DEF Profiles
<1>7. /\ Profiles["core_plus_deliberative"] \in Seq(Optional)
  BY <1>1 DEF Profiles
<1>8. Profiles["adaptive_family_ecology_v2"] = three \o Shadows
  BY DEF Profiles
<1>9. Profiles["full_family_exploration"] = (three \o Shadows) \o Deliberative
  BY DEF Profiles
<1>10. profile \in {"core_only", "core_plus_heur", "core_plus_dialectic", "core_plus_guard",
                   "core_plus_heur_guard", "core_plus_heur_dialectic",
                   "core_plus_guard_dialectic", "core_plus_triple_optional",
                   "core_plus_deliberative", "core_plus_ind", "core_plus_plan",
                   "core_plus_opt", "adaptive_family_ecology",
                   "adaptive_family_ecology_v2", "full_family_exploration"}
  BY DEF Profiles
<1>11. Profiles[profile] \in Seq(Optional)
  BY <1>2, <1>4, <1>5, <1>6, <1>7, <1>8, <1>9, <1>10
<1> QED BY <1>11, Members

-----------------------------------------------------------------------------
(* What is proposed.                                                       *)

\* A sequence without one of the things it has.
LEMMA Removed ==
  ASSUME NEW S, NEW s \in Seq(S), Distinct(s), NEW f \in ToSet(s)
  PROVE  /\ RemoveAt(s, Index(s, f)) \in Seq(S) /\ Distinct(RemoveAt(s, Index(s, f)))
         /\ ToSet(RemoveAt(s, Index(s, f))) = ToSet(s) \ {f}
<1> DEFINE j == Index(s, f)
           n == Len(s)
           front == SubSeq(s, 1, j - 1)
           back == SubSeq(s, j + 1, n)
<1>1. j \in 1..n /\ s[j] = f /\ n \in Nat
  BY IndexIs, LenProperties
<1>2. /\ front \in Seq(S) /\ Len(front) = j - 1 /\ \A i \in 1..(j - 1) : front[i] = s[i]
      /\ back \in Seq(S) /\ Len(back) = n - j
      /\ \A i \in 1..(n - j) : back[i] = s[j + i]
  <2>1. j - 1 \in 0..n /\ j \in 0..n
    BY <1>1
  <2> QED BY <2>1, Beginning
<1>3. RemoveAt(s, j) = front \o back
  BY Zenon DEF RemoveAt
<1> HIDE DEF front, back
<1>4. /\ ToSet(s) = {s[i] : i \in 1..n}
      /\ ToSet(front) = {front[i] : i \in 1..(j - 1)}
      /\ ToSet(back) = {back[i] : i \in 1..(n - j)}
  <2>1. ToSet(front) = {front[i] : i \in 1..Len(front)}
    BY <1>2, Members
  <2>2. ToSet(back) = {back[i] : i \in 1..Len(back)}
    BY <1>2, Members
  <2>3. ToSet(s) = {s[i] : i \in 1..n}
    BY Members
  <2> QED BY <1>2, <2>1, <2>2, <2>3
<1>5. \A i, k \in 1..n : s[i] = s[k] => i = k
  BY DEF Distinct
<1>6. front \o back \in Seq(S) /\ ToSet(front \o back) = ToSet(front) \union ToSet(back)
  BY <1>2, Joint
<1> HIDE DEF j, n
<1>7. \A i \in 1..(j - 1) : i \in 1..n /\ i < j
  BY <1>1
<1>8. \A i \in 1..(n - j) : j + i \in 1..n /\ j < j + i
  BY <1>1
<1>9. Distinct(front)
  BY <1>2, <1>5, <1>7 DEF Distinct
<1>10. Distinct(back)
  <2> SUFFICES ASSUME NEW i \in 1..(n - j), NEW k \in 1..(n - j), back[i] = back[k]
               PROVE  i = k
    BY <1>2 DEF Distinct
  <2>1. j + i \in 1..n /\ j + k \in 1..n /\ s[j + i] = s[j + k]
    BY <1>2, <1>8
  <2>2. j + i = j + k
    BY <1>5, <2>1
  <2> QED BY <1>1, <2>2
<1>11. ToSet(front) \intersect ToSet(back) = {}
  <2> SUFFICES ASSUME NEW i \in 1..(j - 1), NEW k \in 1..(n - j), front[i] = back[k]
               PROVE  FALSE
    BY <1>4
  <2>1. i \in 1..n /\ i < j /\ j + k \in 1..n /\ j < j + k /\ s[i] = s[j + k]
    BY <1>2, <1>7, <1>8
  <2>2. i = j + k
    BY <1>5, <2>1
  <2> QED BY <1>1, <2>1, <2>2
<1>12. ToSet(front) \union ToSet(back) \subseteq ToSet(s) \ {f}
  <2>1. ASSUME NEW i \in 1..(j - 1) PROVE front[i] \in ToSet(s) \ {f}
    <3>1. i \in 1..n /\ i # j /\ front[i] = s[i]
      BY <1>1, <1>2, <1>7
    <3> QED BY <1>1, <1>4, <1>5, <3>1
  <2>2. ASSUME NEW i \in 1..(n - j) PROVE back[i] \in ToSet(s) \ {f}
    <3>1. j + i \in 1..n /\ j + i # j /\ back[i] = s[j + i]
      BY <1>1, <1>2, <1>8
    <3> QED BY <1>1, <1>4, <1>5, <3>1
  <2> QED BY <1>4, <2>1, <2>2
<1>13. ToSet(s) \ {f} \subseteq ToSet(front) \union ToSet(back)
  <2> SUFFICES ASSUME NEW i \in 1..n, s[i] # f
               PROVE  s[i] \in ToSet(front) \union ToSet(back)
    BY <1>4
  <2>1. i < j \/ j < i
    BY <1>1
  <2>2. CASE i < j
    <3>1. i \in 1..(j - 1) /\ front[i] = s[i]
      BY <1>1, <1>2, <2>2
    <3> QED BY <1>4, <3>1
  <2>3. CASE j < i
    <3>1. i - j \in 1..(n - j) /\ j + (i - j) = i
      BY <1>1, <2>3
    <3>2. back[i - j] = s[j + (i - j)]
      BY <1>2, <3>1
    <3> QED BY <1>4, <3>1, <3>2
  <2> QED BY <2>1, <2>2, <2>3
<1>14. Distinct(front \o back)
  BY <1>2, <1>9, <1>10, <1>11, Joint
<1>15. /\ RemoveAt(s, j) \in Seq(S) /\ Distinct(RemoveAt(s, j))
       /\ ToSet(RemoveAt(s, j)) = ToSet(s) \ {f}
  BY <1>3, <1>6, <1>12, <1>13, <1>14
<1> QED BY <1>15 DEF j

\* One thing is a sequence.
LEMMA OneThing ==
  ASSUME NEW S, NEW f \in S
  PROVE  <<f>> \in Seq(S) /\ Distinct(<<f>>) /\ ToSet(<<f>>) = {f}
<1>1. <<f>> \in Seq(S) /\ Len(<<f>>) = 1 /\ <<f>>[1] = f
  OBVIOUS
<1>2. Distinct(<<f>>)
  BY <1>1 DEF Distinct
<1>3. DOMAIN <<f>> = {1}
  OBVIOUS
<1>4. ToSet(<<f>>) = {f}
  BY <1>1, <1>3 DEF ToSet
<1> QED BY <1>1, <1>2, <1>4

\* The core with something behind its first family.
LEMMA Middle ==
  ASSUME NEW P \in SUBSET Optional, NEW mid \in Seq(P), Distinct(mid), ToSet(mid) = P
  PROVE  LET seq == (<<Head(Core)>> \o mid) \o Tail(Core)
         IN seq \in Seq(Family) /\ Distinct(seq) /\ ToSet(seq) = Backbone \union P
<1>1. Core # <<>> /\ Head(Core) = "abd"
  BY CoreIs DEF Core
<1>2. /\ Tail(Core) \in Seq(Backbone) /\ Len(Tail(Core)) = Len(Core) - 1
      /\ \A i \in 1..Len(Tail(Core)) : Tail(Core)[i] = Core[i + 1]
  BY <1>1, CoreIs, HeadTailProperties
<1>3. PICK t \in Seq(Backbone) : t = Tail(Core)
  BY <1>2
<1>4. Len(t) = 5 /\ 1..5 = {1, 2, 3, 4, 5}
  <2>1. Len(t) = Len(Core) - 1
    BY <1>2, <1>3
  <2> QED BY <2>1, CoreIs
<1>5. t[1] = "ana" /\ t[2] = "cau" /\ t[3] = "ctf" /\ t[4] = "ded" /\ t[5] = "prob"
  <2>1. \A i \in {1, 2, 3, 4, 5} : t[i] = Core[i + 1]
    BY <1>2, <1>3, <1>4
  <2>2. t[1] = Core[2] /\ t[2] = Core[3] /\ t[3] = Core[4] /\ t[4] = Core[5] /\ t[5] = Core[6]
    BY <2>1
  <2> QED BY <2>2, CoreIs
<1>6. ToSet(t) = {"ana", "cau", "ctf", "ded", "prob"}
  <2>1. ToSet(t) = {t[i] : i \in 1..Len(t)}
    BY Members
  <2>2. ToSet(t) = {t[1], t[2], t[3], t[4], t[5]}
    BY <1>4, <2>1
  <2> QED BY <1>5, <2>2
<1>7. Distinct(t)
  BY <1>4, <1>5 DEF Distinct
<1>8. PICK h \in Seq(Family) : h = <<"abd">> /\ Distinct(h) /\ ToSet(h) = {"abd"}
  <2>1. "abd" \in Family
    BY DEF Family, Backbone
  <2> QED BY <2>1, OneThing
<1>9. t \in Seq(Family) /\ mid \in Seq(Family)
  <2>1. Backbone \subseteq Family /\ P \subseteq Family
    BY DEF Family
  <2> QED BY <2>1, SeqMonotonic
<1>10. /\ {"abd"} \intersect P = {}
       /\ ({"abd"} \union P) \intersect {"ana", "cau", "ctf", "ded", "prob"} = {}
  BY OptionalIs
<1>11. /\ h \o mid \in Seq(Family) /\ ToSet(h \o mid) = ToSet(h) \union ToSet(mid)
       /\ Distinct(h) /\ Distinct(mid) /\ ToSet(h) \intersect ToSet(mid) = {} => Distinct(h \o mid)
  BY <1>9, Joint
<1>12. PICK u \in Seq(Family) : u = h \o mid /\ Distinct(u) /\ ToSet(u) = {"abd"} \union P
  BY <1>8, <1>10, <1>11
<1>13. u \o t \in Seq(Family) /\ Distinct(u \o t) /\ ToSet(u \o t) = ToSet(u) \union ToSet(t)
  <2>1. ToSet(u) \intersect ToSet(t) = {}
    BY <1>6, <1>10, <1>12
  <2>2. /\ u \o t \in Seq(Family) /\ ToSet(u \o t) = ToSet(u) \union ToSet(t)
        /\ Distinct(u) /\ Distinct(t) /\ ToSet(u) \intersect ToSet(t) = {} => Distinct(u \o t)
    BY <1>9, Joint
  <2> QED BY <1>7, <1>12, <2>1, <2>2
<1>14. ToSet(u \o t) = Backbone \union P
  BY <1>6, <1>12, <1>13 DEF Backbone
<1>15. (<<Head(Core)>> \o mid) \o Tail(Core) = u \o t
  BY <1>1, <1>3, <1>8, <1>12
<1> QED BY <1>13, <1>14, <1>15

\* What a fixed profile proposes: the core and its families, each once.
LEMMA FixedIs ==
  ASSUME NEW profile \in DOMAIN Profiles, NEW optional \in SUBSET ToSet(Profiles[profile])
  PROVE  LET seq == FixedProposal(profile, optional)
         IN seq \in Seq(Family) /\ Distinct(seq) /\ ToSet(seq) = Backbone \union optional
<1>1. optional \in SUBSET Optional /\ Profiles[profile] \in Seq(Optional)
  BY ProfilesType
<1>2. IsFiniteSet(optional)
  BY <1>1, HowMany
<1> DEFINE key == [f \in optional |-> Index(Profiles[profile], f)]
           mid == Ordered(optional, key)
<1>3. CASE profile \in {"core_plus_deliberative", "core_plus_ind", "core_plus_plan", "core_plus_opt"}
  <2>1. FixedProposal(profile, optional) = Composed(optional)
    BY <1>3 DEF FixedProposal
  <2>2. /\ InOrder(Composed(optional), Backbone \union optional)
        /\ Backbone \union optional \in SUBSET Family
    BY <1>1, Composition DEF Family
  <2> QED BY <2>1, <2>2, OrderOfIndices, SeqMonotonic DEF InOrder
<1>4. CASE profile \notin {"core_plus_deliberative", "core_plus_ind", "core_plus_plan", "core_plus_opt"}
  <2>1. FixedProposal(profile, optional) = (<<Head(Core)>> \o mid) \o Tail(Core)
    BY <1>4, Zenon DEF FixedProposal
  <2>2. ASSUME NEW f \in optional PROVE /\ key[f] \in Int /\ Profiles[profile][key[f]] = f
    <3>1. f \in ToSet(Profiles[profile])
      OBVIOUS
    <3>2. PICK i \in 1..Len(Profiles[profile]) :
            i = Index(Profiles[profile], f) /\ Profiles[profile][i] = f
      BY <1>1, <3>1, IndexIs
    <3> QED BY <3>2
  <2>3. /\ mid \in Seq(optional) /\ ToSet(mid) = optional /\ Distinct(mid)
    <3> HIDE DEF key
    <3> QED BY <1>2, <2>2, OrderedIs
  <2> HIDE DEF mid
  <2> QED BY <1>1, <2>1, <2>3, Middle
<1> QED BY <1>3, <1>4

\* What an adaptive profile proposes: known families, each once, and all of
\* them if there are steps for all.
LEMMA AdaptiveIs ==
  ASSUME NEW profile, NEW optional \in SUBSET Optional, NEW forced, NEW s, NEW label,
         NEW experimental, NEW score, \A f \in Optional : score[f] \in Int,
         NEW steps \in Int, 6 <= steps
  PROVE  LET seq == AdaptiveProposal(profile, optional, forced, s, label, experimental,
                                     score, steps)
         IN /\ seq \in Seq(Family) /\ Distinct(seq)
            /\ ToSet(seq) \subseteq Backbone \union optional
            /\ 6 + Cardinality(optional) <= steps => ToSet(seq) = Backbone \union optional
<1> DEFINE active == IF profile = "full_family_exploration" THEN optional
                     ELSE {f \in optional : f \in forced \/ Activated(f, s, label, experimental)}
           rest == optional \ active
           whole == ((<<Head(Core)>> \o Best(active, score)) \o Tail(Core)) \o Best(rest, score)
           cut == SubSeq(whole, 1, Smaller(steps, Len(whole)))
           seq == IF "prob" \in ToSet(cut) THEN RemoveAt(cut, Index(cut, "prob")) \o <<"prob">>
                  ELSE ReplaceAt(cut, Len(cut), "prob")
           all == Backbone \union optional
<1>1. AdaptiveProposal(profile, optional, forced, s, label, experimental, score, steps) = seq
  BY Zenon DEF AdaptiveProposal
<1>2. active \in SUBSET optional
  BY Zenon
<1>3. rest \in SUBSET optional /\ active \union rest = optional /\ active \intersect rest = {}
  BY <1>2, Zenon
<1> HIDE DEF active, rest
<1>4. PICK a \in Seq(active) : a = Best(active, score) /\ ToSet(a) = active /\ Distinct(a)
  BY <1>2, BestIs
<1>5. PICK b \in Seq(rest) : b = Best(rest, score) /\ ToSet(b) = rest /\ Distinct(b)
  BY <1>3, BestIs
<1>6. PICK m \in Seq(Family) : /\ m = (<<Head(Core)>> \o a) \o Tail(Core)
                               /\ Distinct(m) /\ ToSet(m) = Backbone \union active
  <2>1. active \in SUBSET Optional
    BY <1>2
  <2> QED BY <1>4, <2>1, Middle
<1>7. PICK w \in Seq(Family) : w = whole /\ Distinct(w) /\ ToSet(w) = all
  <2>1. b \in Seq(Family)
    <3>1. rest \subseteq Family
      BY <1>3 DEF Family
    <3> QED BY <3>1, SeqMonotonic
  <2>2. /\ m \o b \in Seq(Family) /\ ToSet(m \o b) = ToSet(m) \union ToSet(b)
        /\ Distinct(m) /\ Distinct(b) /\ ToSet(m) \intersect ToSet(b) = {} => Distinct(m \o b)
    BY <2>1, Joint
  <2>3. Backbone \intersect rest = {}
    BY <1>3, HowMany
  <2>4. ToSet(m) \intersect ToSet(b) = {} /\ ToSet(m) \union ToSet(b) = all
    BY <1>3, <1>5, <1>6, <2>3
  <2>5. m \o b = whole
    BY <1>4, <1>5, <1>6
  <2> QED BY <1>5, <1>6, <2>2, <2>4, <2>5
<1>8. Len(w) = 6 + Cardinality(optional) /\ Cardinality(optional) \in Nat
  <2>1. Cardinality(all) = Len(w)
    BY <1>7, LenIsCard
  <2> QED BY <2>1, HowMany
<1> DEFINE k == Smaller(steps, Len(w))
<1>9. k \in 6..Len(w) /\ k \in 0..Len(w) /\ (6 + Cardinality(optional) <= steps => k = Len(w))
  BY <1>8 DEF Smaller
<1>10. PICK c \in Seq(Family) : c = cut /\ Len(c) = k /\ \A i \in 1..k : c[i] = w[i]
  <2>1. cut = SubSeq(w, 1, k)
    BY <1>7
  <2>2. PICK j \in 0..Len(w) : j = k
    BY <1>9
  <2>3. /\ SubSeq(w, 1, j) \in Seq(Family) /\ Len(SubSeq(w, 1, j)) = j
        /\ \A i \in 1..j : SubSeq(w, 1, j)[i] = w[i]
    BY Beginning
  <2> HIDE DEF k, cut
  <2> QED BY <2>1, <2>2, <2>3
<1> HIDE DEF k, whole, cut, all
<1>11. Distinct(c)
  <2>1. \A i \in 1..k : i \in 1..Len(w)
    BY <1>9
  <2>2. \A i, j \in 1..k : c[i] = c[j] => w[i] = w[j]
    BY <1>10
  <2>3. \A i, j \in 1..k : w[i] = w[j] => i = j
    BY <1>7, <2>1 DEF Distinct
  <2> QED BY <1>10, <2>2, <2>3 DEF Distinct
<1>12. ToSet(c) \subseteq all
  <2>1. ToSet(c) = {c[i] : i \in 1..Len(c)}
    BY Members
  <2>2. ToSet(w) = {w[i] : i \in 1..Len(w)}
    BY Members
  <2>3. \A i \in 1..k : i \in 1..Len(w)
    BY <1>9
  <2> QED BY <1>7, <1>10, <2>1, <2>2, <2>3
<1>13. 6 + Cardinality(optional) <= steps => ToSet(c) = all
  <2> SUFFICES ASSUME k = Len(w) PROVE ToSet(c) = all
    BY <1>9
  <2>1. c = w
    BY <1>10, SeqEqual
  <2> QED BY <1>7, <2>1
<1>14. "prob" \in all /\ "prob" \in Family
  BY DEF all, Backbone, Family
<1>15. PICK p \in Seq(Family) : p = <<"prob">> /\ Distinct(p) /\ ToSet(p) = {"prob"}
  BY <1>14, OneThing
<1>16. /\ seq \in Seq(Family) /\ Distinct(seq) /\ ToSet(seq) \subseteq all
       /\ 6 + Cardinality(optional) <= steps => ToSet(seq) = all
  <2>1. CASE "prob" \in ToSet(c)
    <3>1. PICK r \in Seq(Family) : /\ r = RemoveAt(c, Index(c, "prob")) /\ Distinct(r)
                                   /\ ToSet(r) = ToSet(c) \ {"prob"}
      BY <1>11, <2>1, Removed
    <3>2. /\ r \o p \in Seq(Family) /\ ToSet(r \o p) = ToSet(r) \union ToSet(p)
          /\ Distinct(r) /\ Distinct(p) /\ ToSet(r) \intersect ToSet(p) = {} => Distinct(r \o p)
      BY Joint
    <3>3. seq = r \o p
      BY <1>10, <1>15, <2>1, <3>1
    <3>4. Distinct(r \o p) /\ ToSet(r \o p) = ToSet(c)
      BY <1>15, <2>1, <3>1, <3>2
    <3> QED BY <1>12, <1>13, <3>2, <3>3, <3>4
  <2>2. CASE "prob" \notin ToSet(c)
    <3>1. Len(c) \in 1..Len(c) /\ Len(c) = k
      BY <1>9, <1>10
    <3>2. seq = [c EXCEPT ![Len(c)] = "prob"]
      BY <1>10, <2>2 DEF ReplaceAt
    <3>3. PICK q \in Seq(Family) :
            /\ q = seq /\ Len(q) = Len(c)
            /\ \A i \in 1..Len(c) : q[i] = IF i = Len(c) THEN "prob" ELSE c[i]
      <4>1. PICK l \in 1..Len(c) : l = Len(c)
        BY <3>1
      <4>2. /\ [c EXCEPT ![l] = "prob"] \in Seq(Family)
            /\ Len([c EXCEPT ![l] = "prob"]) = Len(c)
            /\ \A i \in 1..Len(c) :
                 [c EXCEPT ![l] = "prob"][i] = IF i = l THEN "prob" ELSE c[i]
        BY <1>14, ExceptSeq
      <4>3. seq = [c EXCEPT ![l] = "prob"]
        BY <3>2, <4>1
      <4> HIDE DEF seq
      <4> QED BY <4>1, <4>2, <4>3
    <3>4. \A i \in 1..Len(c) : c[i] \in ToSet(c)
      BY Members
    <3>5. Distinct(q)
      <4> SUFFICES ASSUME NEW i \in 1..Len(c), NEW j \in 1..Len(c), q[i] = q[j]
                   PROVE  i = j
        BY <3>3 DEF Distinct
      <4>1. \A l \in 1..Len(c) : c[l] # "prob"
        BY <2>2, <3>4
      <4>2. \/ i = Len(c) /\ j = Len(c)
            \/ i # Len(c) /\ j # Len(c) /\ c[i] = c[j]
        BY <3>3, <4>1
      <4> QED BY <1>11, <4>2 DEF Distinct
    <3>6. ToSet(q) \subseteq all
      <4>1. ToSet(q) = {q[i] : i \in 1..Len(q)}
        BY Members
      <4> QED BY <1>12, <1>14, <3>3, <3>4, <4>1
    <3>7. ~(6 + Cardinality(optional) <= steps)
      BY <1>13, <1>14, <2>2
    <3> QED BY <3>3, <3>5, <3>6, <3>7
  <2> QED BY <2>1, <2>2
<1> QED BY <1>1, <1>16 DEF all

\* What the episode needs of what the validator lets through.
Sound(v) ==
  /\ v.passed = TRUE /\ v.safe = FALSE /\ v.steps \in 6..HardMaxSteps
  /\ v.sequence \in Seq(Family) /\ Distinct(v.sequence)
  /\ Backbone \subseteq ToSet(v.sequence) /\ KeepsOrder(v.sequence)
  /\ Last(v.sequence) = "prob"

\* A proposal that has nothing twice is let through as it is, or with one
\* correction that drops families only when there are no steps for them.
LEMMA ValidatedIs ==
  ASSUME NEW allowed \in SUBSET Optional, NEW proposed \in Seq(Family), Distinct(proposed),
         NEW requested \in Int, NEW regime, Floor(regime.beneath) \in SUBSET Backbone,
         NEW default, NEW s, NEW experimental,
         NEW score, \A f \in Optional : score[f] \in Int, NEW anchored
  PROVE  LET v == Validated(proposed, allowed, requested, regime, default, s, experimental,
                            score, anchored)
             pool == ToSet(proposed) \intersect allowed
         IN /\ DOMAIN v = {"sequence", "passed", "safe", "steps"}
            /\ Sound(v) /\ v.steps = Larger(6, Smaller(10, requested))
            /\ ToSet(v.sequence) \subseteq Backbone \union pool
            /\ 6 + Cardinality(pool) <= v.steps => pool \subseteq ToSet(v.sequence)
<1> DEFINE steps == Larger(Len(Core), Smaller(HardMaxSteps, requested))
           floor == Floor(regime.beneath)
           passes(seq) == Passes(seq, floor, allowed, steps, anchored)
           pool == ToSet(proposed) \intersect allowed
           kept == Kept(pool, default, score, steps)
           corrected == IF passes(proposed) THEN proposed ELSE Composed(kept)
           chosen == IF passes(corrected) THEN corrected
                     ELSE SafeSequence(regime, allowed, s, experimental, score, steps)
           v == Validated(proposed, allowed, requested, regime, default, s, experimental,
                          score, anchored)
<1>1. v = [sequence |-> chosen, passed |-> passes(chosen),
           safe |-> ~ passes(corrected), steps |-> steps]
  BY Zenon DEF Validated
<1>2. /\ steps = Larger(6, Smaller(10, requested)) /\ steps \in 6..HardMaxSteps
      /\ steps \in Int /\ 6 <= steps
  BY CoreIs DEF HardMaxSteps, Larger, Smaller
<1>3. pool \in SUBSET Optional /\ pool \in SUBSET allowed
  OBVIOUS
<1>4. /\ kept \in SUBSET pool /\ 6 + Cardinality(kept) <= steps
      /\ 6 + Cardinality(pool) <= steps => kept = pool
  <2>1. PICK P \in SUBSET Optional : P = pool
    BY <1>3
  <2>2. PICK n \in Int : n = steps /\ 6 <= n
    BY <1>2
  <2> HIDE DEF pool, steps, floor
  <2>3. P \in SUBSET Optional /\ n \in Int /\ 6 <= n
    BY <2>1, <2>2
  <2>4. \A f \in P : score[f] \in Int
    BY <2>1
  <2>5. /\ Kept(P, default, score, n) \in SUBSET P
        /\ 6 + Cardinality(Kept(P, default, score, n)) <= n
        /\ 6 + Cardinality(P) <= n => Kept(P, default, score, n) = P
    BY <2>3, <2>4, KeptHasRoom, Zenon
  <2> QED BY <2>1, <2>2, <2>5
<1>5. /\ passes(Composed(kept)) /\ Composed(kept) \in Seq(Family) /\ Distinct(Composed(kept))
      /\ ToSet(Composed(kept)) = Backbone \union kept
  <2>1. PICK K \in SUBSET allowed : K = kept
    BY <1>3, <1>4
  <2>2. PICK n \in Int : n = steps /\ 6 + Cardinality(K) <= n
    BY <1>2, <1>4, <2>1
  <2>3. PICK F \in SUBSET Backbone : F = floor
    OBVIOUS
  <2>4. /\ Passes(Composed(K), F, allowed, n, anchored)
        /\ Composed(K) \in Seq(Family) /\ Distinct(Composed(K))
        /\ ToSet(Composed(K)) = Backbone \union K
    BY <2>2, ComposedPasses
  <2> QED BY <2>1, <2>2, <2>3, <2>4
<1>6. passes(corrected) /\ chosen = corrected
  BY <1>5
<1>7. v.sequence = corrected /\ v.steps = steps /\ v.passed = TRUE /\ v.safe = FALSE
  <2>1. v.sequence = chosen /\ v.steps = steps /\ v.passed = passes(chosen)
        /\ v.safe = ~ passes(corrected)
    <3> HIDE DEF chosen, passes, corrected, v
    <3> QED BY <1>1
  <2>2. passes(chosen) = TRUE
    BY <1>6, Zenon DEF Passes
  <2>3. (~ passes(corrected)) = FALSE
    BY <1>6, Zenon
  <2> QED BY <1>6, <2>1, <2>2, <2>3, Zenon
<1>8. corrected \in Seq(Family) /\ Distinct(corrected)
  BY <1>5
<1>9. /\ Backbone \subseteq ToSet(corrected) /\ KeepsOrder(corrected)
      /\ ToSet(corrected) \subseteq allowed \union Backbone
      /\ Last(corrected) = "prob"
  <2>1. /\ floor \union ToSet(Core) \subseteq ToSet(corrected) /\ KeepsOrder(corrected)
        /\ ToSet(corrected) \subseteq allowed \union ToSet(Core)
        /\ "prob" \in ToSet(corrected) => Last(corrected) = "prob"
    BY <1>6, Zenon DEF Passes
  <2> QED BY <2>1, CoreIs DEF Backbone
<1>10. ToSet(corrected) \subseteq Backbone \union pool
  <2>1. CASE passes(proposed)
    BY <1>9, <2>1 DEF pool
  <2>2. CASE ~ passes(proposed)
    BY <1>4, <1>5, <2>2
  <2> QED BY <2>1, <2>2
<1>11. 6 + Cardinality(pool) <= steps => pool \subseteq ToSet(corrected)
  <2>1. CASE passes(proposed)
    BY <2>1 DEF pool
  <2>2. CASE ~ passes(proposed)
    BY <1>4, <1>5, <2>2
  <2> QED BY <2>1, <2>2
<1>12. Sound(v)
  <2> HIDE DEF corrected, v
  <2> QED BY <1>2, <1>7, <1>8, <1>9 DEF Sound
<1> HIDE DEF corrected, v
<1>13. v.steps = Larger(6, Smaller(10, requested)) /\ v.sequence = corrected
  BY <1>2, <1>7
<1>14. DOMAIN v = {"sequence", "passed", "safe", "steps"}
  <2> HIDE DEF chosen, passes
  <2> QED BY <1>1
<1> QED BY <1>2, <1>7, <1>10, <1>11, <1>12, <1>13, <1>14 DEF pool, v

\* What is selected is sound, and but for the second version of the ecology
\* has of the optional families what the directives leave, all of it if there
\* are steps for it.
LEMMA SelectIs ==
  ASSUME NEW s \in Measures, NEW requested \in 4..10, NEW mode, NEW profile \in DOMAIN Profiles,
         NEW hint \in Labels \union {"none"}, NEW experimental, NEW dirs
  PROVE  LET v == Select(s, requested, mode, profile, hint, experimental, dirs)
             left == Governed(Allowed(profile, experimental), dirs)
         IN /\ DOMAIN v = {"sequence", "passed", "safe", "steps"}
            /\ Sound(v)
            /\ profile # "adaptive_family_ecology_v2" =>
                 /\ ToSet(v.sequence) \subseteq Backbone \union left
                 /\ 6 + Cardinality(left) <= v.steps => left \subseteq ToSet(v.sequence)
<1> DEFINE regime == Regime(hint, s)
           allowed == Allowed(profile, experimental)
           left == Governed(allowed, dirs)
           score == Scores(s, regime.primary)
           checked(proposed, steps, default, anchored) ==
             Validated(proposed, allowed, steps, regime, default, s, experimental, score, anchored)
           fixed == FixedProposal(profile, left)
           room == Larger(requested, Len(Core) + Cardinality(left))
           admitted == Admitted(allowed, s, regime, experimental, requested)
           most == Smaller(HardMaxSteps,
                           Larger(requested, Len(Core) + Cardinality(admitted.all)))
           least == Larger(requested, Len(Core))
           adaptive == AdaptiveProposal(profile, left, On(dirs), s, regime.primary,
                                        experimental, score, least)
           v == Select(s, requested, mode, profile, hint, experimental, dirs)
<1>1. v = IF mode = "fixed" /\ profile \notin AdaptiveProfiles
          THEN checked(fixed, room, left, FALSE)
          ELSE IF profile = "adaptive_family_ecology_v2"
          THEN checked(Composed(admitted.all), most, admitted.default, TRUE)
          ELSE checked(adaptive, least, {}, FALSE)
  BY Zenon DEF Select
<1>2. /\ allowed \in SUBSET Optional /\ left \in SUBSET allowed
      /\ left \in SUBSET ToSet(Profiles[profile])
      /\ left \in SUBSET Optional
  BY ProfilesType DEF Allowed, Governed
<1>3. Floor(regime.beneath) \in SUBSET Backbone
  BY FloorType
<1>4. \A f \in Optional : score[f] \in Int
  BY ScoresType
<1>5. Cardinality(left) \in Nat /\ requested \in Int
  <2>1. PICK L \in SUBSET Optional : L = left
    BY <1>2
  <2>2. Cardinality(L) \in Nat
    BY HowMany
  <2>3. requested \in Int
    OBVIOUS
  <2> HIDE DEF left
  <2>4. Cardinality(left) \in Nat
    BY <2>1, <2>2
  <2> QED BY <2>3, <2>4
<1> HIDE DEF regime, allowed, left, score
<1>6. ASSUME NEW proposed \in Seq(Family), Distinct(proposed), NEW steps \in Int,
             NEW default, NEW anchored
      PROVE  LET w == checked(proposed, steps, default, anchored)
                 pool == ToSet(proposed) \intersect allowed
             IN /\ DOMAIN w = {"sequence", "passed", "safe", "steps"}
                /\ Sound(w) /\ w.steps = Larger(6, Smaller(10, steps))
                /\ ToSet(w.sequence) \subseteq Backbone \union pool
                /\ 6 + Cardinality(pool) <= w.steps => pool \subseteq ToSet(w.sequence)
  <2>1. PICK a \in SUBSET Optional : a = allowed
    BY <1>2
  <2>2. PICK r : r = regime /\ Floor(r.beneath) \in SUBSET Backbone
    BY <1>3
  <2>3. PICK sc : sc = score /\ \A f \in Optional : sc[f] \in Int
    BY <1>4
  <2>5. Distinct(proposed)
    BY <1>6
  <2> HIDE DEF checked, fixed, room, admitted, most, least, adaptive, v
  <2> DEFINE u == Validated(proposed, a, steps, r, default, s, experimental, sc, anchored)
             pool == ToSet(proposed) \intersect a
  <2>4. /\ DOMAIN u = {"sequence", "passed", "safe", "steps"}
        /\ Sound(u) /\ u.steps = Larger(6, Smaller(10, steps))
        /\ ToSet(u.sequence) \subseteq Backbone \union pool
        /\ 6 + Cardinality(pool) <= u.steps => pool \subseteq ToSet(u.sequence)
    <3>1. a \in SUBSET Optional /\ proposed \in Seq(Family) /\ steps \in Int
      BY <1>6, <2>1
    <3>2. Floor(r.beneath) \in SUBSET Backbone
      BY <2>2
    <3>3. \A f \in Optional : sc[f] \in Int
      BY <2>3
    <3> QED BY <2>5, <3>1, <3>2, <3>3, ValidatedIs, Zenon
  <2>6. u = checked(proposed, steps, default, anchored) /\ pool = ToSet(proposed) \intersect allowed
    BY <2>1, <2>2, <2>3 DEF checked
  <2> HIDE DEF u, pool
  <2> QED BY <2>4, <2>6
<1> HIDE DEF checked
<1>7. CASE mode = "fixed" /\ profile \notin AdaptiveProfiles
  <2>1. PICK p \in Seq(Family) : p = fixed /\ Distinct(p) /\ ToSet(p) = Backbone \union left
    BY <1>2, FixedIs
  <2>2. room \in Int
    BY <1>5, CoreIs DEF Larger
  <2>3. ToSet(p) \intersect allowed = left
    BY <1>2, <2>1, HowMany
  <2>4. v = checked(p, room, left, FALSE)
    BY <1>1, <1>7, <2>1
  <2> HIDE DEF v, room
  <2>5. /\ Sound(v) /\ ToSet(v.sequence) \subseteq Backbone \union left
        /\ 6 + Cardinality(left) <= v.steps => left \subseteq ToSet(v.sequence)
        /\ DOMAIN v = {"sequence", "passed", "safe", "steps"}
    BY <1>6, <2>1, <2>2, <2>3, <2>4
  <2> QED BY <2>5 DEF v, left, allowed
<1>8. CASE ~(mode = "fixed" /\ profile \notin AdaptiveProfiles) /\ profile = "adaptive_family_ecology_v2"
  <2>1. admitted.all \in SUBSET allowed
    BY DEF Admitted
  <2>2. PICK pool \in SUBSET Optional : pool = admitted.all
    BY <1>2, <2>1
  <2>3. PICK p \in Seq(Family) : p = Composed(pool) /\ Distinct(p)
    <3>1. InOrder(Composed(pool), Backbone \union pool) /\ Backbone \union pool \in SUBSET Family
      BY Composition DEF Family
    <3> QED BY <3>1, OrderOfIndices, SeqMonotonic DEF InOrder
  <2>4. Cardinality(pool) \in Nat
    BY HowMany
  <2>5. most \in Int
    BY <1>5, <2>2, <2>4, CoreIs DEF Larger, Smaller, HardMaxSteps
  <2>6. v = checked(p, most, admitted.default, TRUE)
    BY <1>1, <1>8, <2>2, <2>3
  <2> HIDE DEF v, most, admitted
  <2>7. Sound(v) /\ DOMAIN v = {"sequence", "passed", "safe", "steps"}
    BY <1>6, <2>3, <2>5, <2>6
  <2> QED BY <1>8, <2>7 DEF v
<1>9. CASE ~(mode = "fixed" /\ profile \notin AdaptiveProfiles) /\ profile # "adaptive_family_ecology_v2"
  <2>1. least \in Int /\ 6 <= least /\ least <= 10
    BY CoreIs DEF Larger
  <2>2. PICK n \in Int : n = least /\ 6 <= n /\ n <= 10
    BY <2>1
  <2>3. PICK p \in Seq(Family) :
          /\ p = adaptive /\ Distinct(p) /\ ToSet(p) \subseteq Backbone \union left
          /\ 6 + Cardinality(left) <= n => ToSet(p) = Backbone \union left
    BY <1>2, <1>4, <2>2, AdaptiveIs
  <2>4. v = checked(p, n, {}, FALSE)
    BY <1>1, <1>9, <2>2, <2>3
  <2>5. Larger(6, Smaller(10, n)) = n
    BY <2>2 DEF Larger, Smaller
  <2>6. /\ ToSet(p) \intersect allowed \subseteq left
        /\ 6 + Cardinality(left) <= n => ToSet(p) \intersect allowed = left
    BY <1>2, <2>3, HowMany
  <2> HIDE DEF v, least, adaptive
  <2> DEFINE pool == ToSet(p) \intersect allowed
             w == checked(p, n, {}, FALSE)
  <2>7. /\ DOMAIN w = {"sequence", "passed", "safe", "steps"}
        /\ Sound(w) /\ w.steps = Larger(6, Smaller(10, n))
        /\ ToSet(w.sequence) \subseteq Backbone \union pool
        /\ 6 + Cardinality(pool) <= w.steps => pool \subseteq ToSet(w.sequence)
    BY <1>6, <2>3
  <2> HIDE DEF w, pool
  <2>8. /\ DOMAIN v = {"sequence", "passed", "safe", "steps"}
        /\ Sound(v) /\ v.steps = n /\ ToSet(v.sequence) \subseteq Backbone \union pool
        /\ 6 + Cardinality(pool) <= n => pool \subseteq ToSet(v.sequence)
    BY <2>4, <2>5, <2>7 DEF w
  <2>9. /\ ToSet(v.sequence) \subseteq Backbone \union left
        /\ 6 + Cardinality(left) <= n => left \subseteq ToSet(v.sequence)
    BY <2>6, <2>8 DEF pool
  <2> QED BY <2>8, <2>9 DEF v, left, allowed
<1> QED BY <1>7, <1>8, <1>9

-----------------------------------------------------------------------------
(* The plan of an episode, and what is run of it.                          *)

\* The optional families that the directives leave to the profile.
Left == Governed(Allowed(setup.profile, setup.experimental), directives)

\* The plan is what the validator let through; unless the profile takes no
\* directives, it has what they leave, all of it if there are steps for it.
Planned ==
  /\ Sound(plan) /\ plan.budget \in 0..HardMaxSteps /\ plan.pressed \in BOOLEAN
  /\ setup.profile # "adaptive_family_ecology_v2" =>
       /\ ToSet(plan.sequence) \subseteq Backbone \union Left
       /\ 6 + Cardinality(Left) <= plan.steps => Left \subseteq ToSet(plan.sequence)

\* What was run is the beginning of the plan, short of its end until the
\* episode closes: prob is last, and an early stop waits for it.
Underway ==
  /\ Planned
  /\ Len(executed) <= Len(plan.sequence)
  /\ executed = SubSeq(plan.sequence, 1, Len(executed))
  /\ pc = "reason" => Len(executed) < Len(plan.sequence)
  /\ pc # "reason" => executed = plan.sequence

\* An episode runs the plan that was made for it, and there is none otherwise.
EpisodeInv ==
  /\ setup \in Setups
  /\ pc \in {"idle", "reason", "close", "report"}
  /\ DOMAIN directives \in {{}, Candidates}
  /\ \A f \in DOMAIN directives : directives[f] \in {"on", "off"}
  /\ validated \in BOOLEAN /\ executed \in Seq(Family)
  /\ plan = NoPlan \/ Planned
  /\ pc # "idle" => Underway

\* What the selector and the ledger are told are observations.
ToldInv ==
  /\ begun \in 0..setup.episodes /\ scenario \in Scenarios /\ seeded \in BOOLEAN
  /\ IsABag(evidence) /\ DOMAIN evidence \subseteq Observation
  /\ reward \in Rewards \union {0} /\ (pc = "report" => reward \in Rewards)
  /\ ledger \in Seq(Observation)

\* A beginning and the next thing are a longer beginning, up to the whole.
LEMMA OneLonger ==
  ASSUME NEW S, NEW s \in Seq(S), NEW k \in Nat, k < Len(s)
  PROVE  /\ Append(SubSeq(s, 1, k), s[k + 1]) = SubSeq(s, 1, k + 1)
         /\ SubSeq(s, 1, k + 1) \in Seq(S) /\ Len(SubSeq(s, 1, k + 1)) = k + 1
         /\ k + 1 = Len(s) => SubSeq(s, 1, k + 1) = s
<1>1. Len(s) \in Nat /\ k \in 0..Len(s) /\ k + 1 \in 0..Len(s) /\ k + 1 \in 1..Len(s)
  OBVIOUS
<1>2. /\ SubSeq(s, 1, k) \in Seq(S) /\ Len(SubSeq(s, 1, k)) = k
      /\ \A i \in 1..k : SubSeq(s, 1, k)[i] = s[i]
  BY <1>1, Beginning
<1>3. PICK a \in Seq(S) : a = SubSeq(s, 1, k) /\ Len(a) = k /\ \A i \in 1..k : a[i] = s[i]
  BY <1>2
<1>4. PICK m \in 0..Len(s) : m = k + 1
  BY <1>1
<1>5. /\ SubSeq(s, 1, m) \in Seq(S) /\ Len(SubSeq(s, 1, m)) = m
      /\ \A i \in 1..m : SubSeq(s, 1, m)[i] = s[i]
  BY Beginning
<1>6. PICK b \in Seq(S) : b = SubSeq(s, 1, m) /\ Len(b) = m /\ \A i \in 1..m : b[i] = s[i]
  BY <1>5
<1>7. PICK x \in S : x = s[m]
  BY <1>1, <1>4, ElementOfSeq
<1>8. /\ Append(a, x) \in Seq(S) /\ Len(Append(a, x)) = m /\ Append(a, x)[m] = x
      /\ \A i \in 1..k : Append(a, x)[i] = a[i]
  BY <1>3, <1>4, AppendProperties
<1>9. PICK c \in Seq(S) : /\ c = Append(a, x) /\ Len(c) = m /\ c[m] = x
                          /\ \A i \in 1..k : c[i] = a[i]
  BY <1>8
<1>10. c = b
  <2>1. ASSUME NEW i \in 1..m PROVE c[i] = b[i]
    <3>1. i \in 1..k \/ i = m
      BY <1>4
    <3> QED BY <1>3, <1>6, <1>7, <1>9, <3>1
  <2> QED BY <1>6, <1>9, <2>1, SeqEqual
<1>11. ASSUME m = Len(s) PROVE b = s
  BY <1>6, <1>11, SeqEqual
<1> QED BY <1>3, <1>4, <1>6, <1>7, <1>9, <1>10, <1>11

\* The context of an episode gives it a plan.
LEMMA BeginPlans ==
  ASSUME EpisodeInv, Begin
  PROVE  EpisodeInv'
<1> DEFINE selected(c) ==
             Select(Signals(c), Budget(Signals(c), setup.steps), setup.mode, setup.profile,
                    setup.hint, setup.experimental, directives')
           planned(c, v) ==
             [sequence |-> v.sequence, passed |-> v.passed, safe |-> v.safe, steps |-> v.steps,
              budget |-> Budget(Signals(c), setup.steps), pressed |-> Signals(c).edge >= 8500]
<1>1. PICK c \in setup.contexts : plan' = planned(c, selected(c))
  <2>1. PICK c \in setup.contexts : Plans(c)
    BY DEF Begin
  <2>2. \E v \in {selected(c)} : plan' = planned(c, v)
    BY <2>1 DEF Plans
  <2> HIDE DEF selected, planned
  <2> QED BY <2>1, <2>2
<1>2. /\ executed' = <<>> /\ validated' = FALSE /\ pc' = "reason" /\ setup' = setup
      /\ directives' = Directives(evidence', scenario)
  <2> HIDE DEF selected, planned
  <2> QED BY DEF Begin
<1>3. /\ setup \in Setups /\ setup.profile \in DOMAIN Profiles
      /\ setup.hint \in Labels \union {"none"} /\ setup.steps \in Nat /\ c \in Context
  BY <1>1, ReasoningAssumption DEF EpisodeInv
<1>4. PICK s \in Measures : s = Signals(c)
  BY <1>3, SignalsType
<1>5. PICK b \in 4..10 : b = Budget(s, setup.steps)
  BY <1>3, BudgetType
<1>6. PICK d : d = directives'
  OBVIOUS
<1> DEFINE v == Select(s, b, setup.mode, setup.profile, setup.hint, setup.experimental, d)
           left == Governed(Allowed(setup.profile, setup.experimental), d)
<1>7. /\ DOMAIN v = {"sequence", "passed", "safe", "steps"}
      /\ Sound(v)
      /\ setup.profile # "adaptive_family_ecology_v2" =>
           /\ ToSet(v.sequence) \subseteq Backbone \union left
           /\ 6 + Cardinality(left) <= v.steps => left \subseteq ToSet(v.sequence)
  BY <1>3, SelectIs, Zenon
<1>8. v = selected(c) /\ Left' = left
  BY <1>2, <1>4, <1>5, <1>6 DEF Left
<1> HIDE DEF v, left, selected
<1>9. /\ plan'.sequence = v.sequence /\ plan'.passed = v.passed /\ plan'.safe = v.safe
      /\ plan'.steps = v.steps /\ plan'.budget = b /\ plan'.pressed = (s.edge >= 8500)
  BY <1>1, <1>4, <1>5, <1>8
<1>10. Planned'
  <2>1. Sound(plan')
    BY <1>7, <1>9 DEF Sound
  <2>2. plan'.budget \in 0..HardMaxSteps /\ plan'.pressed \in BOOLEAN
    BY <1>9 DEF HardMaxSteps
  <2> QED BY <1>2, <1>7, <1>8, <1>9, <2>1, <2>2 DEF Planned
<1>11. /\ DOMAIN directives' = Candidates
       /\ \A f \in DOMAIN directives' : directives'[f] \in {"on", "off"}
  BY <1>2, Zenon DEF Directives
<1>12. Underway'
  <2>1. PICK p \in Seq(Family) : p = plan'.sequence /\ Backbone \subseteq ToSet(p)
    BY <1>10 DEF Planned, Sound
  <2>2. Len(p) \in Nat /\ 0 < Len(p)
    <3>1. "abd" \in ToSet(p)
      BY <2>1 DEF Backbone
    <3> QED BY <3>1 DEF ToSet
  <2>3. SubSeq(p, 1, 0) = <<>>
    BY <2>1
  <2> QED BY <1>2, <1>10, <2>1, <2>2, <2>3 DEF Underway
<1>13. executed' \in Seq(Family) /\ validated' \in BOOLEAN /\ setup' \in Setups
  BY <1>2, <1>3, EmptySeq
<1> QED BY <1>2, <1>10, <1>11, <1>12, <1>13 DEF EpisodeInv

\* The loop runs the next family of the plan, and leaves only at its end.
LEMMA FamilyRuns ==
  ASSUME EpisodeInv, RunFamily
  PROVE  EpisodeInv'
<1>1. /\ UNCHANGED <<setup, directives, plan>> /\ pc = "reason"
      /\ executed' = Append(executed, plan.sequence[Len(executed) + 1])
      /\ pc' = IF Ends(executed', validated') THEN "close" ELSE "reason"
      /\ validated' \in BOOLEAN
  BY Zenon DEF RunFamily, EpisodeInv
<1>2. PICK s \in Seq(Family) : /\ s = plan.sequence /\ Distinct(s)
                               /\ Backbone \subseteq ToSet(s) /\ Last(s) = "prob"
  BY <1>1 DEF EpisodeInv, Underway, Planned, Sound
<1>3. PICK k \in Nat : k = Len(executed) /\ k < Len(s) /\ executed = SubSeq(s, 1, k)
  <2>1. executed \in Seq(Family) /\ Len(executed) < Len(plan.sequence)
        /\ executed = SubSeq(plan.sequence, 1, Len(executed))
    BY <1>1 DEF EpisodeInv, Underway
  <2>2. Len(executed) \in Nat
    BY <2>1
  <2> QED BY <1>2, <2>1, <2>2
<1>4. PICK e \in Seq(Family) : e = executed' /\ e = SubSeq(s, 1, k + 1) /\ Len(e) = k + 1
  <2>1. /\ Append(SubSeq(s, 1, k), s[k + 1]) = SubSeq(s, 1, k + 1)
        /\ SubSeq(s, 1, k + 1) \in Seq(Family) /\ Len(SubSeq(s, 1, k + 1)) = k + 1
    BY <1>3, OneLonger
  <2> QED BY <1>1, <1>2, <1>3, <2>1
<1>5. CASE k + 1 = Len(s)
  <2>1. e = s
    BY <1>3, <1>4, <1>5, OneLonger
  <2>2. pc' = "close"
    BY <1>1, <1>2, <1>4, <2>1 DEF Ends
  <2> QED BY <1>1, <1>2, <1>4, <2>1, <2>2 DEF EpisodeInv, Underway, Planned, Left
<1>6. CASE k + 1 # Len(s)
  <2>1. PICK n \in Nat : n = Len(s) /\ k + 1 < n
    BY <1>2, <1>3, <1>6
  <2>2. e # s
    BY <1>4, <2>1
  <2>3. s[n] = "prob"
    BY <1>2, <2>1 DEF Last
  <2>4. "prob" \in ToSet(SubSeq(s, (k + 1) + 1, n))
    <3>1. PICK m \in 0..Len(s) : m = k + 1 /\ m < n
      BY <2>1
    <3>2. /\ SubSeq(s, m + 1, n) \in Seq(Family) /\ Len(SubSeq(s, m + 1, n)) = n - m
          /\ \A i \in 1..(n - m) : SubSeq(s, m + 1, n)[i] = s[m + i]
      BY <2>1, Beginning
    <3>3. PICK r \in Seq(Family) : /\ r = SubSeq(s, m + 1, n) /\ Len(r) = n - m
                                  /\ \A i \in 1..(n - m) : r[i] = s[m + i]
      BY <3>2
    <3>4. n - m \in 1..Len(r) /\ m + (n - m) = n
      BY <2>1, <3>1, <3>3
    <3>5. r[n - m] = "prob"
      BY <2>3, <3>3, <3>4
    <3>6. "prob" \in ToSet(r)
      BY <3>4, <3>5, Members
    <3> QED BY <3>1, <3>3, <3>6
  <2>5. "prob" \notin ToSet(e)
    <3> SUFFICES ASSUME NEW i \in 1..Len(e), e[i] = "prob" PROVE FALSE
      BY Members
    <3>1. i \in 1..(k + 1) /\ k + 1 \in 0..Len(s)
      BY <1>4, <2>1
    <3>2. e[i] = s[i]
      BY <1>4, <3>1, Beginning
    <3>3. i \in 1..Len(s) /\ n \in 1..Len(s) /\ i # n
      BY <2>1, <3>1
    <3> QED BY <1>2, <2>3, <3>2, <3>3 DEF Distinct
  <2>6. pc' = "reason"
    BY <1>1, <1>2, <1>4, <2>1, <2>2, <2>4, <2>5 DEF Ends
  <2> QED BY <1>1, <1>2, <1>4, <2>1, <2>6 DEF EpisodeInv, Underway, Planned, Left
<1> QED BY <1>5, <1>6

\* The rest of the steps leave the plan, or there is none.
LEMMA EpisodeKept ==
  ASSUME EpisodeInv, [Next]_vars
  PROVE  EpisodeInv'
<1>1. CASE Begin
  BY <1>1, BeginPlans
<1>2. CASE RunFamily
  BY <1>2, FamilyRuns
<1>3. CASE Observe
  <2>1. /\ UNCHANGED <<setup, directives, plan, executed, validated>>
        /\ pc = "close" /\ pc' = "report"
    BY <1>3 DEF Observe
  <2> QED BY <2>1 DEF EpisodeInv, Underway, Planned, Left
<1>4. CASE Report
  <2>1. /\ UNCHANGED <<setup, directives, plan, executed, validated>> /\ pc' = "idle"
    BY <1>4 DEF Report, episode
  <2> QED BY <2>1 DEF EpisodeInv, Planned, Left
<1>5. CASE Replace
  <2>1. /\ setup' = setup /\ pc' = "idle" /\ plan' = NoPlan
        /\ directives' = [f \in {} |-> "off"] /\ executed' = <<>> /\ validated' = FALSE
    BY <1>5 DEF Replace
  <2>2. NoPlan' = NoPlan
    BY DEF NoPlan
  <2>3. DOMAIN directives' = {}
    BY <2>1
  <2>5. executed' \in Seq(Family) /\ validated' \in BOOLEAN
    BY <2>1, EmptySeq
  <2>4. setup' \in Setups /\ plan' = NoPlan'
    BY <2>1, <2>2 DEF EpisodeInv
  <2> QED BY <2>1, <2>3, <2>4, <2>5 DEF EpisodeInv
<1>6. CASE UNCHANGED vars
  <2>1. UNCHANGED <<setup, pc, directives, plan, executed, validated>>
    BY <1>6 DEF vars, episode
  <2> QED BY <2>1 DEF EpisodeInv, Underway, Planned, Left
<1> QED BY <1>1, <1>2, <1>3, <1>4, <1>5, <1>6 DEF Next

\* It is so at the beginning.
LEMMA EpisodeBegins == Init => EpisodeInv
<1> SUFFICES ASSUME Init PROVE EpisodeInv
  OBVIOUS
<1>1. /\ setup \in Setups /\ pc = "idle" /\ plan = NoPlan
      /\ directives = [f \in {} |-> "off"] /\ executed = <<>> /\ validated = FALSE
  BY DEF Init
<1>2. DOMAIN directives = {}
  BY <1>1
<1>3. executed \in Seq(Family) /\ validated \in BOOLEAN
  BY <1>1, EmptySeq
<1> QED BY <1>1, <1>2, <1>3 DEF EpisodeInv

\* The bag of a sequence has what the sequence has.
LEMMA SownType ==
  ASSUME NEW S, NEW s \in Seq(S)
  PROVE  IsABag(ToBag(s)) /\ DOMAIN ToBag(s) \subseteq S
<1>1. DOMAIN s = 1..Len(s) /\ \A i \in 1..Len(s) : s[i] \in S
  OBVIOUS
<1>2. DOMAIN ToBag(s) = {s[i] : i \in 1..Len(s)}
  BY <1>1 DEF ToBag, Range
<1> QED BY <1>1, <1>2, Sown

\* What the runner tells of an episode is an observation.
LEMMA Telling ==
  ASSUME EpisodeInv, ToldInv, NEW r \in Rewards
  PROVE  Worth(r) \in Observation
<1>1. ToSet(executed) \in SUBSET Family
  BY Members DEF EpisodeInv
<1>2. Overlays \in SUBSET Optional
  BY <1>1, CoreIs DEF Overlays, Family
<1> QED BY <1>2 DEF Worth, Observation, ToldInv

\* Every step tells the selector and the ledger of observations only.
LEMMA ToldKept ==
  ASSUME EpisodeInv, ToldInv, [Next]_vars
  PROVE  ToldInv'
<1>0. Observation' = Observation
  BY DEF Observation
<1>1. CASE Begin
  <2>1. /\ UNCHANGED <<setup, scenario, ledger>> /\ begun' = begun + 1
        /\ begun < setup.episodes /\ seeded' = TRUE /\ reward' = 0 /\ pc' = "reason"
        /\ reading' \in IF seeded THEN {reading} ELSE Readings
        /\ evidence' = IF seeded THEN evidence ELSE ToBag(Listed(reading'))
    BY <1>1 DEF Begin, Known
  <2>2. ASSUME ~ seeded PROVE Listed(reading') \in Seq(Observation)
    <3>1. PICK r \in Readings : r = reading'
      BY <2>1, <2>2
    <3>2. Placed(ledger, r)
      BY <3>1, ReadingIsPlaced DEF ToldInv
    <3>3. Part(ledger, r) \in Seq(Observation)
      BY <3>2, PartsAreBags DEF ToldInv
    <3> QED BY <3>1, <3>3 DEF Part, Listed
  <2>3. IsABag(evidence') /\ DOMAIN evidence' \subseteq Observation
    BY <2>1, <2>2, SownType DEF ToldInv
  <2>4. begun' \in 0..setup'.episodes
    <3>1. setup.episodes \in Nat /\ begun \in 0..setup.episodes
      BY ReasoningAssumption DEF EpisodeInv, ToldInv
    <3> QED BY <2>1, <3>1
  <2> QED BY <1>0, <2>1, <2>3, <2>4 DEF ToldInv
<1>2. CASE RunFamily
  <2>1. /\ UNCHANGED <<setup, begun, scenario, seeded, evidence, reward, ledger>>
        /\ pc' # "report"
    BY <1>2 DEF RunFamily, selector
  <2> QED BY <1>0, <2>1 DEF ToldInv
<1>3. CASE Observe
  <2>1. /\ UNCHANGED <<setup, begun, scenario, seeded, executed, ledger>>
        /\ reward' \in Rewards
        /\ evidence' = evidence (+) SetToBag({Worth(reward')})
    BY <1>3 DEF Observe
  <2>2. PICK w \in Observation : w = Worth(reward')
    BY <2>1, Telling
  <2>3. evidence' = evidence (+) SetToBag({w})
    BY <2>1, <2>2
  <2>4. IsABag(evidence) /\ DOMAIN evidence \subseteq Observation
        /\ IsABag(SetToBag({w})) /\ DOMAIN SetToBag({w}) = {w}
    BY Single DEF ToldInv, SetToBag
  <2>5. IsABag(evidence')
    BY <2>3, <2>4, Joined
  <2>6. DOMAIN evidence' \subseteq Observation
    BY <2>2, <2>3, <2>4 DEF (+)
  <2> QED BY <1>0, <2>1, <2>5, <2>6 DEF ToldInv
<1>4. CASE Report
  <2>1. /\ UNCHANGED <<setup, begun, scenario, seeded, evidence, reward>>
        /\ pc = "report" /\ pc' = "idle"
        /\ ledger' = Append(ledger, Worth(reward))
    BY <1>4 DEF Report, selector, episode
  <2>2. Worth(reward) \in Observation
    BY <2>1, Telling DEF ToldInv
  <2>3. ledger' \in Seq(Observation)
    BY <2>1, <2>2, AppendProperties DEF ToldInv
  <2> QED BY <1>0, <2>1, <2>3 DEF ToldInv
<1>5. CASE Replace
  <2>1. /\ UNCHANGED <<setup, begun, ledger>> /\ scenario' \in Scenarios /\ pc' = "idle"
        /\ seeded' = FALSE /\ evidence' = EmptyBag /\ reward' = 0
    BY <1>5 DEF Replace
  <2>2. IsABag(evidence') /\ DOMAIN evidence' \subseteq Observation
    BY <2>1, Single DEF EmptyBag, SetToBag
  <2> QED BY <1>0, <2>1, <2>2 DEF ToldInv
<1>6. CASE UNCHANGED vars
  <2>1. UNCHANGED <<setup, begun, pc, scenario, seeded, evidence, reward, ledger>>
    BY <1>6 DEF vars, selector, episode
  <2> QED BY <1>0, <2>1 DEF ToldInv
<1> QED BY <1>1, <1>2, <1>3, <1>4, <1>5, <1>6 DEF Next

\* At the beginning nothing was told.
LEMMA ToldBegins == Init => ToldInv
<1> SUFFICES ASSUME Init PROVE ToldInv
  OBVIOUS
<1>1. /\ setup \in Setups /\ begun = 0 /\ pc = "idle" /\ scenario \in Scenarios
      /\ seeded = FALSE /\ evidence = EmptyBag /\ reward = 0 /\ ledger = <<>>
  BY DEF Init
<1>2. setup.episodes \in Nat /\ 0 \in 0..setup.episodes
  BY <1>1, ReasoningAssumption
<1>3. IsABag(evidence) /\ DOMAIN evidence \subseteq Observation
  BY <1>1, Single DEF EmptyBag, SetToBag
<1> QED BY <1>1, <1>2, <1>3, EmptySeq DEF ToldInv

\* What has the core only, in its order, each family once, is the core.
LEMMA OnlyTheCore ==
  ASSUME NEW s \in Seq(Family), Distinct(s), ToSet(s) = Backbone, KeepsOrder(s)
  PROVE  s = Core
<1>1. Len(s) = 6
  <2>1. Cardinality(Backbone) = Len(s)
    BY LenIsCard
  <2>2. {} \in SUBSET Optional /\ Cardinality({}) = 0 /\ Backbone \union {} = Backbone
    BY FS_EmptySet
  <2>3. PICK P \in SUBSET Optional : P = {}
    BY <2>2
  <2>4. Cardinality(Backbone \union P) = 6 + Cardinality(P)
    BY HowMany
  <2> QED BY <2>1, <2>2, <2>3, <2>4
<1> DEFINE x(i) == Index(s, Core[i])
<1>2. \A i \in 1..6 : Core[i] \in ToSet(s)
  BY CoreIs, ElementOfSeq
<1>3. \A i \in 1..6 : x(i) \in 1..6 /\ s[x(i)] = Core[i]
  BY <1>1, <1>2, IndexIs
<1>4. \A i, j \in 1..6 : i < j => x(i) < x(j)
  BY <1>2, CoreIs DEF KeepsOrder
<1> HIDE DEF x
<1>5. x(1) < x(2) /\ x(2) < x(3) /\ x(3) < x(4) /\ x(4) < x(5) /\ x(5) < x(6)
  BY <1>4
<1>6. /\ x(1) \in 1..6 /\ x(2) \in 1..6 /\ x(3) \in 1..6
      /\ x(4) \in 1..6 /\ x(5) \in 1..6 /\ x(6) \in 1..6
  BY <1>3
<1>7. x(1) = 1 /\ x(2) = 2 /\ x(3) = 3 /\ x(4) = 4 /\ x(5) = 5 /\ x(6) = 6
  BY <1>5, <1>6
<1>8. \A i \in 1..6 : x(i) = i
  BY <1>7
<1>9. \A i \in 1..6 : s[i] = Core[i]
  BY <1>3, <1>8
<1>10. Core \in Seq(Family)
  BY CoreIs, SeqMonotonic DEF Family
<1> QED BY <1>1, <1>9, <1>10, CoreIs, SeqEqual

\* The plan and what was run are of known families.
LEMMA TypesHold == EpisodeInv /\ ToldInv /\ SelectorInv => TypeOK
<1> SUFFICES ASSUME EpisodeInv, ToldInv, SelectorInv PROVE TypeOK
  OBVIOUS
<1>1. ToSet(Core) \union Optional = Family
  BY CoreIs DEF Family
<1>2. ToSet(executed) \in SUBSET Family
  BY Members DEF EpisodeInv
<1>3. /\ ToSet(plan.sequence) \in SUBSET Family
      /\ plan.steps \in 0..HardMaxSteps /\ plan.budget \in 0..HardMaxSteps
      /\ plan.passed \in BOOLEAN /\ plan.safe \in BOOLEAN /\ plan.pressed \in BOOLEAN
  <2>1. CASE Planned
    <3>1. plan.sequence \in Seq(Family) /\ plan.steps \in 6..10
          /\ plan.passed = TRUE /\ plan.safe = FALSE /\ plan.pressed \in BOOLEAN
          /\ plan.budget \in 0..HardMaxSteps
      BY <2>1 DEF Planned, Sound, HardMaxSteps
    <3>2. PICK s \in Seq(Family) : s = plan.sequence
      BY <3>1
    <3>3. ToSet(s) \in SUBSET Family
      BY Members
    <3>4. ToSet(plan.sequence) \in SUBSET Family
      BY <3>2, <3>3
    <3>5. plan.steps \in 0..HardMaxSteps
      BY <3>1 DEF HardMaxSteps
    <3> QED BY <3>1, <3>4, <3>5
  <2>2. CASE plan = NoPlan
    <3>1. ToSet(<<>>) = {}
      BY DEF ToSet
    <3> QED BY <2>2, <3>1 DEF NoPlan, HardMaxSteps
  <2> QED BY <2>1, <2>2 DEF EpisodeInv
<1>4. {plan.passed, plan.safe, plan.pressed, validated} \subseteq BOOLEAN
  BY <1>3 DEF EpisodeInv
<1>5. /\ {reading.first, reading.last, reading.held} \subseteq Nat
      /\ reading.first \in 1..(reading.last + 1) /\ reading.last <= reading.held
      /\ reading.held <= Len(ledger)
  BY DEF SelectorInv, Placed
<1> QED BY <1>1, <1>2, <1>3, <1>4, <1>5 DEF TypeOK, EpisodeInv, ToldInv

\* What closes an episode has all of its plan.
LEMMA Closing == EpisodeInv => ClosureHolds
<1> SUFFICES ASSUME EpisodeInv, pc \in {"close", "report"}
             PROVE  /\ AdaptiveMin(executed)
                    /\ Overlays = {} => executed = Core
  BY DEF ClosureHolds
<1>1. executed = plan.sequence /\ Sound(plan)
  BY DEF EpisodeInv, Underway, Planned
<1>2. PICK s \in Seq(Family) : /\ s = executed /\ Distinct(s) /\ Backbone \subseteq ToSet(s)
                               /\ KeepsOrder(s) /\ Last(s) = "prob"
  BY <1>1 DEF Sound
<1>3. ToSet(s) \subseteq Family /\ ToSet(Core) \union Optional = Family
  BY Members, CoreIs DEF Family
<1>4. AdaptiveMin(executed)
  BY <1>2, <1>3, CoreIs DEF AdaptiveMin
<1>5. ASSUME Overlays = {} PROVE executed = Core
  <2>1. ToSet(s) = Backbone
    BY <1>2, <1>5, CoreIs DEF Overlays
  <2> QED BY <1>2, <2>1, OnlyTheCore
<1> QED BY <1>4, <1>5

\* What is run is the validated plan, from its first family on.
LEMMA Correcting == EpisodeInv => CorrectionSuffices
<1> SUFFICES ASSUME EpisodeInv, pc # "idle"
             PROVE  /\ plan.passed /\ ~ plan.safe
                    /\ IsPrefix(executed, plan.sequence)
                    /\ pc # "reason" => executed = plan.sequence
                    /\ Cardinality(ToSet(plan.sequence)) = Len(plan.sequence)
  BY DEF CorrectionSuffices
<1>1. Underway /\ Sound(plan)
  BY DEF EpisodeInv, Underway, Planned
<1>2. PICK s \in Seq(Family) : s = plan.sequence /\ Distinct(s)
  BY <1>1 DEF Sound
<1>3. Cardinality(ToSet(s)) = Len(s)
  BY <1>2, LenIsCard
<1>4. PICK e \in Seq(Family) :
        e = executed /\ Len(e) <= Len(s) /\ e = SubSeq(s, 1, Len(e))
  BY <1>1, <1>2 DEF Underway, EpisodeInv
<1>5. SubSeq(e, 1, Len(e)) = e
  <2>1. PICK n \in 0..Len(e) : n = Len(e)
    BY LenProperties
  <2>2. /\ SubSeq(e, 1, n) \in Seq(Family) /\ Len(SubSeq(e, 1, n)) = n
        /\ \A i \in 1..n : SubSeq(e, 1, n)[i] = e[i]
    BY Beginning
  <2> QED BY <2>1, <2>2, SeqEqual
<1> QED BY <1>1, <1>2, <1>3, <1>4, <1>5 DEF Underway, Sound, IsPrefix

\* A plan has none of what the directives turn off.
LEMMA Governing == EpisodeInv => DirectivesRule
<1> SUFFICES ASSUME EpisodeInv, Governs PROVE
      /\ ToSet(plan.sequence) \intersect Off(directives) = {}
      /\ Len(Core) + Cardinality(Left) <= plan.steps
           => On(directives) \intersect Left \subseteq ToSet(plan.sequence)
  BY DEF DirectivesRule, Left
<1>1. /\ ToSet(plan.sequence) \subseteq Backbone \union Left
      /\ 6 + Cardinality(Left) <= plan.steps => Left \subseteq ToSet(plan.sequence)
  BY DEF EpisodeInv, Governs, Planned
<1>2. Off(directives) \in SUBSET Optional
  BY ReasoningAssumption DEF EpisodeInv, Off
<1>3. Backbone \intersect Off(directives) = {}
  <2>1. PICK o \in SUBSET Optional : o = Off(directives)
    BY <1>2
  <2> QED BY <2>1, HowMany
<1>4. Left \intersect Off(directives) = {}
  BY DEF Left, Governed
<1> QED BY <1>1, <1>3, <1>4, CoreIs

\* What an episode has planned and run is as the policy, the directives and the
\* loop make it, in every state of a run.
LEMMA EpisodeAlways == Spec => [](EpisodeInv /\ ToldInv)
<1>1. EpisodeInv /\ ToldInv /\ [Next]_vars => (EpisodeInv /\ ToldInv)'
  BY EpisodeKept, ToldKept
<1> QED BY <1>1, EpisodeBegins, ToldBegins, PTL DEF Spec

\* Every variable keeps its type, whatever the run is configured to do.
THEOREM TypeCorrect == Spec => []TypeOK
BY EpisodeAlways, SelectorAlways, TypesHold, PTL

\* What an adaptive episode has run when it closes is what its closure asks
\* for, and a fixed one without overlays has run the core.
THEOREM ClosureKept == Spec => []ClosureHolds
BY EpisodeAlways, Closing, PTL

\* What the validator lets through passes its own checks after at most one
\* correction, and the episode runs it from its first family on.
THEOREM OneCorrection == Spec => []CorrectionSuffices
BY EpisodeAlways, Correcting, PTL

\* What the evidence turns off does not run; what it turns on does, if the
\* profile has it and there are steps.
THEOREM DirectivesObeyed == Spec => []DirectivesRule
BY EpisodeAlways, Governing, PTL
=============================================================================
