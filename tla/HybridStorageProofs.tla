------------------------- MODULE HybridStorageProofs -------------------------
(***************************************************************************)
(* With strict_dual_write and one writing thread, a read never shows less  *)
(* than was acknowledged when it began, for every set of keys and readers, *)
(* every number of writes, either preferred store, and whatever half of a  *)
(* call raises or wherever the process stops.  In either mode, what was    *)
(* acknowledged is in a store, and stores that never failed agree.         *)
(***************************************************************************)
EXTENDS HybridStorage, TLAPS

\* The larger of two numbers is one of them, and no smaller than either.
LEMMA LargerIs ==
  ASSUME NEW m \in Int, NEW n \in Int
  PROVE  Larger(m, n) \in {m, n} /\ Larger(m, n) >= m /\ Larger(m, n) >= n
BY DEF Larger

\* A half of a write puts the new version under its key, or nothing at all.
LEMMA AfterIs ==
  ASSUME NEW store \in Store, NEW w \in WriteCall, NEW err \in BOOLEAN,
         NEW new \in After(store, w, err),
         \A k \in Key : store[k] <= w.version
  PROVE  /\ new \in Store
         /\ \A k \in Key : store[k] <= new[k] /\ new[k] <= w.version
         /\ ~err => new[w.key] = w.version
BY DEF After, Store, Version, WriteCall

\* At the start both stores are empty and nothing is acknowledged.
LEMMA InvInit == Init => StrictInv
<1> SUFFICES ASSUME Init PROVE StrictInv
  OBVIOUS
<1>1. 0 \in Version
  BY StorageAssumption DEF Version
<1>2. [k \in Key |-> 0] \in Store
  BY <1>1 DEF Store
<1>3. write \in [Writer -> WriteCall]
  <2> DEFINE call(k) == [key |-> k, version |-> 0, perr |-> FALSE,
                         ferr |-> FALSE]
             fresh == {call(k) : k \in Key}
  <2>1. fresh \subseteq WriteCall
    <3>1. ASSUME NEW k \in Key PROVE call(k) \in WriteCall
      BY <1>1 DEF WriteCall
    <3> HIDE DEF call
    <3> QED
      BY <3>1
  <2>2. write \in [Writer -> fresh]
    BY DEF Init
  <2> QED
    BY <2>1, <2>2
<1>4. NoCall \in ReadCall /\ NoAnswer \in Answer
  BY <1>2 DEF NoCall, NoAnswer, ReadCall, Answer
<1>5. pc = [t \in Thread |-> "idle"]
  BY DEF Init
<1>6. TypeOK
  BY <1>1, <1>2, <1>3, <1>4, <1>5 DEF Init, TypeOK
<1>7. AckIsInBoth
  BY DEF Init, AckIsInBoth
<1>8. WriteIsNewest /\ FloorIsAcked
  BY <1>5 DEF WriteIsNewest, FloorIsAcked, Thread
<1>9. ReadSeesAck
  BY DEF Init, ReadSeesAck, NoAnswer
<1> QED
  BY <1>6, <1>7, <1>8, <1>9 DEF StrictInv

-----------------------------------------------------------------------------
\* The steps of a write keep the invariant of the strict mode.
LEMMA InvWriter ==
  ASSUME NEW w, Writer = {w}, strict, UNCHANGED strict, StrictInv,
         \/ \E k \in Key : BeginWrite(w, k)
         \/ WritePrimary(w) \/ WriteFallback(w) \/ ReturnWrite(w)
  PROVE  StrictInv'
<1> USE StorageAssumption
<1> DEFINE W == write[w]
<1>0. /\ w \in Writer /\ w \in Thread /\ W \in WriteCall
      /\ \A t \in Reader : t # w /\ t \in Thread
      /\ \A k \in Key : /\ primary[k] \in Int /\ fallback[k] \in Int
                        /\ acked[k] \in Int
      /\ issued \in Int
  BY DEF StrictInv, TypeOK, Thread, Store, Version
<1>1. CASE \E k \in Key : BeginWrite(w, k)
  <2> PICK k \in Key : BeginWrite(w, k)
    BY <1>1
  <2>1. issued + 1 \in Version
    BY DEF BeginWrite, StrictInv, TypeOK, Version
  <2>2. TypeOK'
    BY <1>0, <2>1 DEF BeginWrite, StrictInv, TypeOK, Goto, WriteCall, Thread
  <2>3. AckIsInBoth'
    BY <1>0 DEF BeginWrite, StrictInv, AckIsInBoth
  <2>4. WriteIsNewest' /\ FloorIsAcked' /\ ReadSeesAck'
    BY <1>0 DEF BeginWrite, StrictInv, TypeOK, WriteIsNewest, FloorIsAcked,
                ReadSeesAck, Goto
  <2> QED
    BY <2>2, <2>3, <2>4 DEF StrictInv
<1>2. CASE WritePrimary(w)
  <2> PICK err \in BOOLEAN :
         /\ primary' \in After(primary, W, err)
         /\ write' = [write EXCEPT ![w].perr = err]
         /\ damaged' = (damaged \/ err)
    BY <1>2 DEF WritePrimary
  <2>1. W.version = issued
    BY <1>0, <1>2 DEF WritePrimary, StrictInv, WriteIsNewest
  <2>2. /\ primary' \in Store
        /\ \A k \in Key : primary[k] <= primary'[k] /\ primary'[k] <= issued
        /\ ~err => primary'[W.key] = issued
    BY <1>0, <2>1, AfterIs DEF StrictInv, TypeOK, AckIsInBoth
  <2>3. TypeOK'
    BY <1>0, <1>2, <2>2 DEF WritePrimary, StrictInv, TypeOK, Goto,
                            WriteCall, Thread
  <2>4. \A k \in Key : primary'[k] \in Int
    BY <2>2 DEF Store, Version
  <2>5. AckIsInBoth'
    BY <1>0, <1>2, <2>2, <2>4 DEF WritePrimary, StrictInv, AckIsInBoth
  <2>6. WriteIsNewest' /\ FloorIsAcked' /\ ReadSeesAck'
    BY <1>0, <1>2, <2>1, <2>2 DEF WritePrimary, StrictInv, TypeOK,
         WriteIsNewest, FloorIsAcked, ReadSeesAck, Goto, WriteCall
  <2> QED
    BY <2>3, <2>5, <2>6 DEF StrictInv
<1>3. CASE WriteFallback(w)
  <2> PICK err \in BOOLEAN :
         /\ fallback' \in After(fallback, W, err)
         /\ write' = [write EXCEPT ![w].ferr = err]
         /\ damaged' = (damaged \/ err)
    BY <1>3 DEF WriteFallback
  <2>1. W.version = issued
    BY <1>0, <1>3 DEF WriteFallback, StrictInv, WriteIsNewest
  <2>2. /\ fallback' \in Store
        /\ \A k \in Key : fallback[k] <= fallback'[k] /\ fallback'[k] <= issued
        /\ ~err => fallback'[W.key] = issued
    BY <1>0, <2>1, AfterIs DEF StrictInv, TypeOK, AckIsInBoth
  <2>3. TypeOK'
    BY <1>0, <1>3, <2>2 DEF WriteFallback, StrictInv, TypeOK, Goto,
                            WriteCall, Thread
  <2>4. \A k \in Key : fallback'[k] \in Int
    BY <2>2 DEF Store, Version
  <2>5. AckIsInBoth'
    BY <1>0, <1>3, <2>2, <2>4 DEF WriteFallback, StrictInv, AckIsInBoth
  <2>6. WriteIsNewest' /\ FloorIsAcked' /\ ReadSeesAck'
    BY <1>0, <1>3, <2>1, <2>2 DEF WriteFallback, StrictInv, TypeOK,
         WriteIsNewest, FloorIsAcked, ReadSeesAck, Goto, WriteCall
  <2> QED
    BY <2>3, <2>5, <2>6 DEF StrictInv
<1>4. CASE ReturnWrite(w)
  <2>1. /\ W.version = issued /\ issued \in Version /\ W.key \in Key
        /\ ~W.perr => primary[W.key] = issued
        /\ ~W.ferr => fallback[W.key] = issued
    BY <1>0, <1>4 DEF ReturnWrite, StrictInv, TypeOK, WriteIsNewest, WriteCall
  <2>2. \A k \in Key : /\ acked'[k] \in Version /\ acked[k] <= acked'[k]
                       /\ acked'[k] <= primary[k] /\ acked'[k] <= fallback[k]
    <3>1. CASE Raises(W)
      BY <1>0, <1>4, <3>1 DEF ReturnWrite, StrictInv, TypeOK, AckIsInBoth, Store
    <3>2. CASE ~Raises(W)
      <4>1. ~W.perr /\ ~W.ferr
        BY <3>2 DEF Raises
      <4>2. acked' = [acked EXCEPT ![W.key] = Larger(acked[W.key], issued)]
        BY <1>4, <2>1, <3>2 DEF ReturnWrite
      <4>3. Larger(acked[W.key], issued) = issued
        BY <1>0, <2>1 DEF Larger, StrictInv, AckIsInBoth
      <4>4. acked \in [Key -> Version]
        BY DEF StrictInv, TypeOK, Store
      <4> QED
        BY <1>0, <2>1, <4>1, <4>2, <4>3, <4>4 DEF StrictInv, AckIsInBoth
    <3> QED
      BY <3>1, <3>2
  <2>3. acked' \in Store
    <3>1. acked' \in [Key -> Version] \/ acked' = acked
      BY <1>0, <1>4, <2>1, <2>2 DEF ReturnWrite, Larger, StrictInv, TypeOK, Store
    <3> QED
      BY <3>1 DEF StrictInv, TypeOK, Store
  <2>4. TypeOK'
    BY <1>0, <1>4, <2>3 DEF ReturnWrite, StrictInv, TypeOK, Goto, Thread
  <2>5. AckIsInBoth'
    BY <1>4, <2>2 DEF ReturnWrite, StrictInv, AckIsInBoth
  <2>6. FloorIsAcked'
    <3>1. \A t \in Reader, k \in Key : read[t].floor[k] \in Int
      BY DEF StrictInv, TypeOK, ReadCall, Store, Version
    <3>2. \A k \in Key : acked'[k] \in Int
      BY <2>2 DEF Version
    <3> QED
      BY <1>0, <1>4, <2>2, <3>1, <3>2 DEF ReturnWrite, StrictInv, TypeOK,
           FloorIsAcked, Goto
  <2>7. WriteIsNewest' /\ ReadSeesAck'
    BY <1>0, <1>4 DEF ReturnWrite, StrictInv, TypeOK, WriteIsNewest,
                      ReadSeesAck, Goto
  <2> QED
    BY <2>4, <2>5, <2>6, <2>7 DEF StrictInv
<1> QED
  BY <1>1, <1>2, <1>3, <1>4

-----------------------------------------------------------------------------
\* What a store answers is no older than what was acknowledged at the start.
LEMMA ReturnShowsAck ==
  ASSUME strict, UNCHANGED strict, StrictInv, NEW t \in Reader, pc[t] # "idle",
         NEW store \in {primary, fallback}, Return(t, store)
  PROVE  StrictInv'
<1> USE StorageAssumption
<1>0. t \in Thread /\ t \notin Writer /\ \A u \in Writer : u \in Thread
  BY DEF Thread
<1> DEFINE rows == Rows(store, read[t].keys)
<1>1. store \in Store
  BY DEF StrictInv, TypeOK
<1>2. rows \in Store
  <2>1. \A k \in Key : store[k] \in Version /\ 0 \in Version
    BY <1>1, StorageAssumption DEF Store, Version
  <2> QED
    BY <2>1 DEF Rows, Store
<1>3. read[t].keys \in SUBSET Key /\ read[t].floor \in Store
  BY DEF StrictInv, TypeOK, ReadCall
<1>4. \A k \in read[t].keys : rows[k] >= read[t].floor[k]
  <2> SUFFICES ASSUME NEW k \in read[t].keys
               PROVE  rows[k] >= read[t].floor[k]
    OBVIOUS
  <2>1. k \in Key /\ rows[k] = store[k]
    BY <1>3 DEF Rows
  <2>2. read[t].floor[k] <= acked[k] /\ acked[k] <= store[k]
    BY <2>1 DEF StrictInv, FloorIsAcked, AckIsInBoth
  <2>3. /\ read[t].floor[k] \in Int /\ acked[k] \in Int /\ store[k] \in Int
    BY <1>1, <1>3, <2>1 DEF StrictInv, TypeOK, Store, Version
  <2> QED
    BY <2>1, <2>2, <2>3
<1> HIDE DEF rows
<1>5. answer' = [answer EXCEPT ![t] =
        [keys |-> read[t].keys, floor |-> read[t].floor, rows |-> rows]]
  BY DEF Return, rows
<1>6. TypeOK'
  BY <1>0, <1>2, <1>3, <1>5 DEF Return, StrictInv, TypeOK, Goto, Answer, Thread
<1>7. ReadSeesAck'
  BY <1>4, <1>5 DEF StrictInv, TypeOK, ReadSeesAck
<1>8. AckIsInBoth' /\ WriteIsNewest' /\ FloorIsAcked'
  BY <1>0 DEF Return, StrictInv, TypeOK, AckIsInBoth, WriteIsNewest,
              FloorIsAcked, Goto
<1> QED
  BY <1>6, <1>7, <1>8 DEF StrictInv

\* The steps of a read keep the invariant of the strict mode.
LEMMA InvReader ==
  ASSUME strict, UNCHANGED strict, StrictInv, NEW t \in Reader,
         \/ \E keys \in Scope : BeginRead(t, keys)
         \/ ReadPreferred(t) \/ TurnToOther(t) \/ ReadOther(t) \/ ReadFails(t)
  PROVE  StrictInv'
<1> USE StorageAssumption
<1>0. t \in Thread /\ t \notin Writer /\ \A u \in Writer : u \in Thread
  BY DEF Thread
<1>1. CASE \E keys \in Scope : BeginRead(t, keys)
  <2> PICK keys \in Scope : BeginRead(t, keys)
    BY <1>1
  <2>1. keys \in SUBSET Key
    BY DEF Scope
  <2>2. [keys |-> keys, floor |-> acked] \in ReadCall
    BY <2>1 DEF ReadCall, StrictInv, TypeOK
  <2>3. TypeOK'
    BY <1>0, <2>2 DEF BeginRead, StrictInv, TypeOK, Goto, Thread
  <2>4. \A k \in Key : acked[k] \in Int
    BY DEF StrictInv, TypeOK, Store, Version
  <2>5. AckIsInBoth' /\ WriteIsNewest' /\ FloorIsAcked' /\ ReadSeesAck'
    BY <1>0, <2>4 DEF BeginRead, StrictInv, TypeOK, AckIsInBoth, WriteIsNewest,
                FloorIsAcked, ReadSeesAck, Goto
  <2> QED
    BY <2>3, <2>5 DEF StrictInv
<1>2. CASE ReadPreferred(t)
  <2>1. Preferred \in {primary, fallback}
    BY DEF Preferred
  <2> QED
    BY <1>2, <2>1, ReturnShowsAck DEF ReadPreferred
<1>3. CASE ReadOther(t)
  <2>1. Other \in {primary, fallback}
    BY DEF Other
  <2> QED
    BY <1>3, <2>1, ReturnShowsAck DEF ReadOther
<1>4. CASE TurnToOther(t) \/ ReadFails(t)
  BY <1>0, <1>4 DEF TurnToOther, ReadFails, StrictInv, TypeOK, AckIsInBoth,
       WriteIsNewest, FloorIsAcked, ReadSeesAck, Goto, Thread
<1> QED
  BY <1>1, <1>2, <1>3, <1>4

\* A crash loses the calls in progress and nothing that is stored.
LEMMA InvCrash ==
  ASSUME strict, UNCHANGED strict, StrictInv, Crash \/ UNCHANGED vars
  PROVE  StrictInv'
<1>1. CASE Crash
  BY <1>1 DEF Crash, StrictInv, TypeOK, AckIsInBoth, WriteIsNewest,
       FloorIsAcked, ReadSeesAck, Thread
<1>2. CASE UNCHANGED vars
  BY <1>2 DEF vars, StrictInv, TypeOK, AckIsInBoth, WriteIsNewest,
       FloorIsAcked, ReadSeesAck, Thread
<1> QED
  BY <1>1, <1>2

(***************************************************************************)
(* In the strict mode with one writing thread, what a read returns is      *)
(* never older than what was acknowledged when it began.                   *)
(***************************************************************************)
THEOREM StrictReads ==
  ASSUME NEW w, Writer = {w}
  PROVE  Spec => []ReadSeesAck
<1>1. OneWriterInv /\ [Next]_vars => OneWriterInv'
  <2> SUFFICES ASSUME OneWriterInv, [Next]_vars, strict'  PROVE StrictInv'
    BY DEF OneWriterInv
  <2>1. strict /\ UNCHANGED strict
    BY DEF Next, vars
  <2>2. StrictInv
    BY <2>1 DEF OneWriterInv
  <2> QED
    BY <2>1, <2>2, InvWriter, InvReader, InvCrash DEF Next
<1>2. OneWriterInv => ReadSeesAck
  BY DEF OneWriterInv, StrictInv, ReadSeesAck
<1>3. Init => OneWriterInv
  BY InvInit DEF OneWriterInv
<1> QED
  BY <1>1, <1>2, <1>3, PTL DEF Spec
-----------------------------------------------------------------------------
(* What a write leaves behind, in either mode.                             *)

\* At the start the stores agree.
LEMMA KeptInit == Init => KeptInv
<1> SUFFICES ASSUME Init PROVE KeptInv
  OBVIOUS
<1>1. TypeOK /\ WriteIsNewest
  <2>1. StrictInv
    BY InvInit
  <2> QED
    BY <2>1 DEF StrictInv
<1>2. StoresAreBehind /\ AckIsInOne
  BY DEF Init, StoresAreBehind, AckIsInOne
<1>3. \A t \in Writer : pc[t] = "idle"
  BY DEF Init, Thread
<1>4. HalfWritten
  BY <1>3 DEF Init, HalfWritten
<1> QED
  BY <1>1, <1>2, <1>4 DEF KeptInv

\* The first half: the primary store goes ahead of the other, or it raised.
LEMMA KeptPrimary ==
  ASSUME NEW w, Writer = {w}, UNCHANGED strict, KeptInv, WritePrimary(w)
  PROVE  KeptInv'
<1> USE StorageAssumption
<1> DEFINE W == write[w]
<1>0. /\ w \in Writer /\ w \in Thread /\ W \in WriteCall /\ issued \in Int
      /\ \A t \in Reader : t # w /\ t \in Thread
      /\ \A k \in Key : /\ primary[k] \in Int /\ fallback[k] \in Int
                        /\ acked[k] \in Int
  BY DEF KeptInv, TypeOK, Thread, Store, Version
<1>1. PICK err \in BOOLEAN :
        /\ primary' \in After(primary, W, err)
        /\ write' = [write EXCEPT ![w].perr = err]
        /\ damaged' = (damaged \/ err)
  BY DEF WritePrimary
<1>2. pc[w] = "primary" /\ W.version = issued /\ W.key \in Key
  BY <1>0 DEF WritePrimary, KeptInv, WriteIsNewest, WriteCall
<1>3. /\ primary' \in Store
      /\ \A k \in Key : primary[k] <= primary'[k] /\ primary'[k] <= issued
      /\ ~err => primary'[W.key] = issued
  BY <1>0, <1>1, <1>2, AfterIs DEF KeptInv, TypeOK, StoresAreBehind
<1>4. \A k \in Key : primary'[k] \in Int
  BY <1>3 DEF Store, Version
<1>5. TypeOK'
  BY <1>0, <1>1, <1>3 DEF WritePrimary, KeptInv, TypeOK, Goto, WriteCall, Thread
<1>6. WriteIsNewest'
  BY <1>0, <1>1, <1>2, <1>3 DEF WritePrimary, KeptInv, TypeOK, WriteIsNewest, Goto,
       WriteCall
<1>7. StoresAreBehind' /\ AckIsInOne'
  BY <1>0, <1>3, <1>4 DEF WritePrimary, KeptInv, StoresAreBehind, AckIsInOne
<1>8. HalfWritten'
  <2> SUFFICES ASSUME ~damaged'
               PROVE  primary' = [fallback EXCEPT ![W.key] = W.version]
    BY <1>0, <1>1 DEF WritePrimary, HalfWritten, Goto, KeptInv, TypeOK, WriteCall
  <2>1. ~damaged /\ ~err
    BY <1>1
  <2>2. primary = fallback
    BY <1>0, <1>2, <2>1 DEF KeptInv, HalfWritten
  <2> QED
    BY <1>1, <2>1, <2>2 DEF After
<1> QED
  BY <1>5, <1>6, <1>7, <1>8 DEF KeptInv

\* The second half brings the fallback to the primary store, or it raised.
LEMMA KeptFallback ==
  ASSUME NEW w, Writer = {w}, UNCHANGED strict, KeptInv, WriteFallback(w)
  PROVE  KeptInv'
<1> USE StorageAssumption
<1> DEFINE W == write[w]
<1>0. /\ w \in Writer /\ w \in Thread /\ W \in WriteCall /\ issued \in Int
      /\ \A t \in Reader : t # w /\ t \in Thread
      /\ \A k \in Key : /\ primary[k] \in Int /\ fallback[k] \in Int
                        /\ acked[k] \in Int
  BY DEF KeptInv, TypeOK, Thread, Store, Version
<1>1. PICK err \in BOOLEAN :
        /\ fallback' \in After(fallback, W, err)
        /\ write' = [write EXCEPT ![w].ferr = err]
        /\ damaged' = (damaged \/ err)
  BY DEF WriteFallback
<1>2. pc[w] = "fallback" /\ W.version = issued /\ W.key \in Key
  BY <1>0 DEF WriteFallback, KeptInv, WriteIsNewest, WriteCall
<1>3. /\ fallback' \in Store
      /\ \A k \in Key : fallback[k] <= fallback'[k] /\ fallback'[k] <= issued
      /\ ~err => fallback'[W.key] = issued
  BY <1>0, <1>1, <1>2, AfterIs DEF KeptInv, TypeOK, StoresAreBehind
<1>4. \A k \in Key : fallback'[k] \in Int
  BY <1>3 DEF Store, Version
<1>5. TypeOK'
  BY <1>0, <1>1, <1>3 DEF WriteFallback, KeptInv, TypeOK, Goto, WriteCall, Thread
<1>6. WriteIsNewest'
  BY <1>0, <1>1, <1>2, <1>3 DEF WriteFallback, KeptInv, TypeOK, WriteIsNewest, Goto,
       WriteCall
<1>7. StoresAreBehind' /\ AckIsInOne'
  BY <1>0, <1>3, <1>4 DEF WriteFallback, KeptInv, StoresAreBehind, AckIsInOne
<1>8. HalfWritten'
  <2> SUFFICES ASSUME ~damaged' PROVE primary' = fallback'
    BY <1>0 DEF WriteFallback, HalfWritten, Goto, KeptInv, TypeOK
  <2>1. ~damaged /\ ~err
    BY <1>1
  <2>2. primary = [fallback EXCEPT ![W.key] = W.version]
    BY <1>0, <1>2, <2>1 DEF KeptInv, HalfWritten
  <2> QED
    BY <1>1, <2>1, <2>2 DEF After, WriteFallback
<1> QED
  BY <1>5, <1>6, <1>7, <1>8 DEF KeptInv

\* What is acknowledged is in a store: one half at least did not raise.
LEMMA KeptReturn ==
  ASSUME NEW w, Writer = {w}, UNCHANGED strict, KeptInv, ReturnWrite(w)
  PROVE  KeptInv'
<1> USE StorageAssumption
<1> DEFINE W == write[w]
<1>0. /\ w \in Writer /\ w \in Thread /\ W \in WriteCall
      /\ \A t \in Reader : t # w /\ t \in Thread
      /\ \A k \in Key : /\ primary[k] \in Int /\ fallback[k] \in Int
                        /\ acked[k] \in Version /\ acked[k] \in Int
      /\ issued \in Int /\ issued \in Version /\ acked \in [Key -> Version]
  BY DEF KeptInv, TypeOK, Thread, Store, Version
<1>1. /\ pc[w] = "return" /\ W.version = issued /\ W.key \in Key
      /\ ~W.perr => primary[W.key] = issued
      /\ ~W.ferr => fallback[W.key] = issued
  BY <1>0 DEF ReturnWrite, KeptInv, WriteIsNewest, WriteCall
<1>2. acked' \in Store /\ AckIsInOne'
  <2>1. CASE Raises(W)
    BY <1>0, <2>1 DEF ReturnWrite, KeptInv, AckIsInOne, Store
  <2>2. CASE ~Raises(W)
    <3>1. primary[W.key] = issued \/ fallback[W.key] = issued
      BY <1>0, <1>1, <2>2 DEF Raises, WriteCall
    <3>2. acked' = [acked EXCEPT ![W.key] = Larger(acked[W.key], issued)]
      BY <1>1, <2>2 DEF ReturnWrite
    <3>3. Larger(acked[W.key], issued) \in {acked[W.key], issued}
      BY <1>0, <1>1, LargerIs
    <3>4. acked' \in [Key -> Version]
      BY <1>0, <1>1, <3>2, <3>3
    <3>5. \A k \in Key : acked'[k] <= primary'[k] \/ acked'[k] <= fallback'[k]
      <4> SUFFICES ASSUME NEW k \in Key
                   PROVE  acked'[k] <= primary[k] \/ acked'[k] <= fallback[k]
        BY DEF ReturnWrite
      <4>1. CASE k # W.key
        BY <1>0, <3>2, <4>1 DEF KeptInv, AckIsInOne
      <4>2. CASE k = W.key
        <5>1. acked'[k] = Larger(acked[W.key], issued)
          BY <1>0, <3>2, <4>2
        <5> QED
          BY <1>0, <3>1, <3>3, <4>2, <5>1 DEF KeptInv, AckIsInOne
      <4> QED
        BY <4>1, <4>2
    <3> QED
      BY <3>4, <3>5 DEF Store, AckIsInOne
  <2> QED
    BY <2>1, <2>2
<1>3. TypeOK'
  BY <1>0, <1>2 DEF ReturnWrite, KeptInv, TypeOK, Goto, Thread
<1>4. WriteIsNewest' /\ StoresAreBehind' /\ HalfWritten'
  BY <1>0, <1>1 DEF ReturnWrite, KeptInv, TypeOK, WriteIsNewest, StoresAreBehind,
       HalfWritten, Goto
<1> QED
  BY <1>2, <1>3, <1>4 DEF KeptInv

\* A write that begins is newer than anything a store has.
LEMMA KeptBegin ==
  ASSUME NEW w, Writer = {w}, UNCHANGED strict, KeptInv, NEW k \in Key,
         BeginWrite(w, k)
  PROVE  KeptInv'
<1> USE StorageAssumption
<1>0. /\ w \in Writer /\ w \in Thread /\ issued \in Int
      /\ \A t \in Reader : t # w /\ t \in Thread
      /\ \A key \in Key : primary[key] \in Int /\ fallback[key] \in Int
  BY DEF KeptInv, TypeOK, Thread, Store, Version
<1>1. issued + 1 \in Version
  BY DEF BeginWrite, KeptInv, TypeOK, Version
<1>2. TypeOK'
  BY <1>0, <1>1 DEF BeginWrite, KeptInv, TypeOK, Goto, WriteCall, Thread
<1>3. WriteIsNewest' /\ StoresAreBehind' /\ AckIsInOne'
  BY <1>0 DEF BeginWrite, KeptInv, TypeOK, WriteIsNewest, StoresAreBehind,
       AckIsInOne, Goto
<1>4. HalfWritten'
  BY <1>0 DEF BeginWrite, KeptInv, TypeOK, HalfWritten, Goto
<1> QED
  BY <1>2, <1>3, <1>4 DEF KeptInv

\* Readers leave everything but their own calls and answers alone.
LEMMA ReaderTypes ==
  ASSUME TypeOK, UNCHANGED strict, NEW t \in Reader,
         \/ \E keys \in Scope : BeginRead(t, keys)
         \/ ReadPreferred(t) \/ TurnToOther(t) \/ ReadOther(t) \/ ReadFails(t)
  PROVE  /\ TypeOK' /\ UNCHANGED <<primary, fallback, issued, acked, damaged, write>>
         /\ \A u \in Thread : u # t => pc'[u] = pc[u]
<1>0. t \in Thread
  BY DEF Thread
<1>1. ASSUME NEW store \in Store, Return(t, store)  PROVE TypeOK'
  <2> DEFINE rows == Rows(store, read[t].keys)
  <2>1. rows \in Store
    <3>1. \A k \in Key : store[k] \in Version /\ 0 \in Version
      BY StorageAssumption DEF Store, Version
    <3> QED
      BY <3>1 DEF Rows, Store
  <2>2. read[t].keys \in SUBSET Key /\ read[t].floor \in Store
    BY DEF TypeOK, ReadCall
  <2> HIDE DEF rows
  <2>3. answer' = [answer EXCEPT ![t] =
          [keys |-> read[t].keys, floor |-> read[t].floor, rows |-> rows]]
    BY <1>1 DEF Return, rows
  <2> QED
    BY <1>0, <1>1, <2>1, <2>2, <2>3 DEF Return, TypeOK, Goto, Answer
<1>2. Preferred \in Store /\ Other \in Store
  BY DEF Preferred, Other, TypeOK
<1>3. CASE \E keys \in Scope : BeginRead(t, keys)
  <2> PICK keys \in Scope : BeginRead(t, keys)
    BY <1>3
  <2>1. keys \in SUBSET Key
    BY DEF Scope
  <2>2. [keys |-> keys, floor |-> acked] \in ReadCall
    BY <2>1 DEF ReadCall, TypeOK
  <2> QED
    BY <1>0, <2>2 DEF BeginRead, TypeOK, Goto
<1>4. CASE ReadPreferred(t) \/ ReadOther(t)
  BY <1>0, <1>1, <1>2, <1>4 DEF ReadPreferred, ReadOther, Return, TypeOK, Goto
<1>5. CASE TurnToOther(t) \/ ReadFails(t)
  BY <1>0, <1>5 DEF TurnToOther, ReadFails, TypeOK, Goto
<1> QED
  BY <1>3, <1>4, <1>5

\* Every step keeps what is acknowledged in a store.
LEMMA KeptStep ==
  ASSUME NEW w, Writer = {w}, KeptInv, [Next]_vars
  PROVE  KeptInv'
<1> USE StorageAssumption
<1>0. UNCHANGED strict
  BY DEF Next, vars
<1>1. CASE UNCHANGED vars
  BY <1>1 DEF vars, KeptInv, TypeOK, WriteIsNewest, StoresAreBehind, AckIsInOne,
       HalfWritten
<1>2. CASE Crash
  BY <1>0, <1>2 DEF Crash, KeptInv, TypeOK, WriteIsNewest, StoresAreBehind,
       AckIsInOne, HalfWritten, Thread
<1>3. ASSUME NEW t \in Reader,
             \/ \E keys \in Scope : BeginRead(t, keys)
             \/ ReadPreferred(t) \/ TurnToOther(t) \/ ReadOther(t) \/ ReadFails(t)
      PROVE  KeptInv'
  <2>1. /\ TypeOK' /\ UNCHANGED <<primary, fallback, issued, acked, damaged, write>>
        /\ \A u \in Thread : u # t => pc'[u] = pc[u]
    BY <1>0, <1>3, ReaderTypes DEF KeptInv
  <2>2. \A u \in Writer : pc'[u] = pc[u]
    BY <2>1 DEF Thread
  <2> QED
    BY <2>1, <2>2 DEF KeptInv, WriteIsNewest, StoresAreBehind, AckIsInOne, HalfWritten
<1> QED
  BY <1>0, <1>1, <1>2, <1>3, KeptBegin, KeptPrimary, KeptFallback, KeptReturn DEF Next

(***************************************************************************)
(* With one writing thread, in either mode: an acknowledged write is in    *)
(* one of the stores, and without failures both have it.                   *)
(***************************************************************************)
THEOREM Kept ==
  ASSUME NEW w, Writer = {w}
  PROVE  Spec => []WritesAreKept
<1>1. KeptInv => WritesAreKept
  <2> SUFFICES ASSUME KeptInv PROVE WritesAreKept
    OBVIOUS
  <2>1. \A k \in Key : primary[k] \in Int /\ fallback[k] \in Int /\ acked[k] \in Int
    BY DEF KeptInv, TypeOK, Store, Version
  <2>2. AckIsDurable
    BY <2>1, LargerIs DEF KeptInv, AckIsInOne, AckIsDurable
  <2>3. StoresAgree
    BY DEF KeptInv, HalfWritten, StoresAgree
  <2> QED
    BY <2>2, <2>3 DEF WritesAreKept
<1>2. Init => KeptInv
  BY KeptInit
<1>3. KeptInv /\ [Next]_vars => KeptInv'
  BY KeptStep
<1> QED
  BY <1>1, <1>2, <1>3, PTL DEF Spec
=============================================================================
