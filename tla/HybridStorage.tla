---------------------------- MODULE HybridStorage ----------------------------
(***************************************************************************)
(* The hybrid backend (hybrid_store.py): each write goes to PostgreSQL and *)
(* then to SQLite, each read to the preferred store and, when that gives   *)
(* no row or raises, to the other.  Calls of several threads interleave    *)
(* between their two halves, either half may raise before or after its     *)
(* commit, and the process may stop between them.                          *)
(*                                                                         *)
(* A record is the version written last under its key, 0 when there is no  *)
(* row: both stores upsert by primary key.                                 *)
(***************************************************************************)
EXTENDS Integers

CONSTANTS
  Writer, Reader,   \* threads that write, threads that read
  Key,              \* primary keys of one kind of record
  PreferPrimary,    \* prefer_primary_reads
  Writes            \* bound on the writes of a behaviour

ASSUME StorageAssumption ==
  /\ Writer \cap Reader = {}
  /\ PreferPrimary \in BOOLEAN
  /\ Writes \in Nat

VARIABLES
  strict,              \* strict_dual_write, fixed when the backend is built
  primary, fallback,   \* version of each key in either store
  issued,              \* writes called so far
  acked,               \* per key, the last version whose write returned
  damaged,             \* a half of a write raised, or the process stopped
  pc, write, read,     \* per thread: progress, and the call it makes
  answer               \* per reader: what its last read returned

vars == <<strict, primary, fallback, issued, acked, damaged, pc, write, read,
          answer>>

Version == 0..Writes
Store == [Key -> Version]
Thread == Writer \cup Reader
Larger(m, n) == IF m > n THEN m ELSE n

\* A list reads every key, a get one of them.
Scope == {Key} \cup {{k} : k \in Key}

WriteCall == [key : Key, version : Version, perr : BOOLEAN, ferr : BOOLEAN]

\* floor is what was acknowledged when the read began.
ReadCall == [keys : SUBSET Key, floor : Store]
Answer == [keys : SUBSET Key, floor : Store, rows : Store]
NoCall == [keys |-> {}, floor |-> [k \in Key |-> 0]]
NoAnswer == [keys |-> {}, floor |-> [k \in Key |-> 0],
             rows |-> [k \in Key |-> 0]]

Init ==
  /\ strict \in BOOLEAN
  /\ primary = [k \in Key |-> 0] /\ fallback = [k \in Key |-> 0]
  /\ issued = 0
  /\ acked = [k \in Key |-> 0]
  /\ damaged = FALSE
  /\ pc = [t \in Thread |-> "idle"]
  /\ write \in [Writer -> {[key |-> k, version |-> 0, perr |-> FALSE,
                            ferr |-> FALSE] : k \in Key}]
  /\ read = [t \in Reader |-> NoCall]
  /\ answer = [t \in Reader |-> NoAnswer]

Goto(t, label) == pc' = [pc EXCEPT ![t] = label]

\* What a store may hold after a half that raised (err) or returned: only a
\* half that raised may have left the store as it was.
After(store, w, err) ==
  {[store EXCEPT ![w.key] = w.version]} \cup (IF err THEN {store} ELSE {})
-----------------------------------------------------------------------------
BeginWrite(t, k) ==
  /\ pc[t] = "idle" /\ issued < Writes
  /\ issued' = issued + 1
  /\ write' = [write EXCEPT ![t] = [key |-> k, version |-> issued + 1,
                                     perr |-> FALSE, ferr |-> FALSE]]
  /\ Goto(t, "primary")
  /\ UNCHANGED <<primary, fallback, acked, damaged, read, answer>>

WritePrimary(t) ==
  /\ pc[t] = "primary"
  /\ \E err \in BOOLEAN :
       /\ primary' \in After(primary, write[t], err)
       /\ write' = [write EXCEPT ![t].perr = err]
       /\ damaged' = (damaged \/ err)
  /\ Goto(t, "fallback")
  /\ UNCHANGED <<fallback, issued, acked, read, answer>>

\* The fallback is written whatever became of the primary.
WriteFallback(t) ==
  /\ pc[t] = "fallback"
  /\ \E err \in BOOLEAN :
       /\ fallback' \in After(fallback, write[t], err)
       /\ write' = [write EXCEPT ![t].ferr = err]
       /\ damaged' = (damaged \/ err)
  /\ Goto(t, "return")
  /\ UNCHANGED <<primary, issued, acked, read, answer>>

\* Mutant: the strict mode is forgotten.
RaisesOnBoth(w) == w.perr /\ w.ferr

\* Mutant: an error of the fallback is never raised.
RaisesOnPrimary(w) == w.perr /\ strict

Raises(w) == IF strict THEN w.perr \/ w.ferr ELSE w.perr /\ w.ferr

\* The call returns the record, or raises.
ReturnWrite(t) ==
  /\ pc[t] = "return"
  /\ acked' = IF Raises(write[t]) THEN acked
              ELSE [acked EXCEPT ![write[t].key] =
                      Larger(@, write[t].version)]
  /\ Goto(t, "idle")
  /\ UNCHANGED <<primary, fallback, issued, damaged, write, read, answer>>
-----------------------------------------------------------------------------
Preferred == IF PreferPrimary THEN primary ELSE fallback
Other     == IF PreferPrimary THEN fallback ELSE primary

Rows(store, keys) == [k \in Key |-> IF k \in keys THEN store[k] ELSE 0]
Empty(store, keys) == \A k \in keys : store[k] = 0

BeginRead(t, keys) ==
  /\ pc[t] = "idle"
  /\ read' = [read EXCEPT ![t] = [keys |-> keys, floor |-> acked]]
  /\ Goto(t, "first")
  /\ UNCHANGED <<primary, fallback, issued, acked, damaged, write, answer>>

Return(t, store) ==
  /\ answer' = [answer EXCEPT ![t] =
       [keys |-> read[t].keys, floor |-> read[t].floor,
        rows |-> Rows(store, read[t].keys)]]
  /\ Goto(t, "idle")
  /\ UNCHANGED <<primary, fallback, issued, acked, damaged, write, read>>

\* Some row of the preferred store is all the caller gets.
ReadPreferred(t) ==
  /\ pc[t] = "first"
  /\ ~Empty(Preferred, read[t].keys)
  /\ Return(t, Preferred)

\* No row, or an exception that is swallowed: the other store is asked.
TurnToOther(t) ==
  /\ pc[t] = "first"
  /\ Goto(t, "second")
  /\ UNCHANGED <<primary, fallback, issued, acked, damaged, write, read,
                 answer>>

ReadOther(t) ==
  /\ pc[t] = "second"
  /\ Return(t, Other)

\* An exception of the second store reaches the caller.
ReadFails(t) ==
  /\ pc[t] = "second"
  /\ Goto(t, "idle")
  /\ UNCHANGED <<primary, fallback, issued, acked, damaged, write, read,
                 answer>>

\* The process stops: its calls are gone, the stores stay.
Crash ==
  /\ \E t \in Thread : pc[t] # "idle"
  /\ pc' = [t \in Thread |-> "idle"]
  /\ damaged' = TRUE
  /\ UNCHANGED <<primary, fallback, issued, acked, write, read, answer>>

Next ==
  /\ UNCHANGED strict
  /\ \/ \E t \in Writer :
          \/ \E k \in Key : BeginWrite(t, k)
          \/ WritePrimary(t) \/ WriteFallback(t) \/ ReturnWrite(t)
     \/ \E t \in Reader :
          \/ \E keys \in Scope : BeginRead(t, keys)
          \/ ReadPreferred(t) \/ TurnToOther(t) \/ ReadOther(t) \/ ReadFails(t)
     \/ Crash

Spec == Init /\ [][Next]_vars
-----------------------------------------------------------------------------
TypeOK ==
  /\ primary \in Store /\ fallback \in Store /\ acked \in Store
  /\ issued \in Version
  /\ strict \in BOOLEAN /\ damaged \in BOOLEAN
  /\ pc \in [Thread -> {"idle", "primary", "fallback", "return",
                        "first", "second"}]
  /\ write \in [Writer -> WriteCall]
  /\ read \in [Reader -> ReadCall]
  /\ answer \in [Reader -> Answer]

\* A write that returned is in one store at least, and no later than a newer
\* version: neither a crash nor a partial failure takes it back.
AckIsDurable ==
  \A k \in Key : Larger(primary[k], fallback[k]) >= acked[k]

(***************************************************************************)
(* In the strict mode, a read that begins after a write returned shows     *)
(* that write or a later one, from whichever store it is answered          *)
(* ("trazabilidad consistente", ADR_STORAGE_HYBRID_RNFE.md).               *)
(***************************************************************************)
ReadSeesAck ==
  strict => \A t \in Reader : \A k \in answer[t].keys :
    answer[t].rows[k] >= answer[t].floor[k]

(***************************************************************************)
(* The inductive invariant behind ReadSeesAck, for the strict mode and one *)
(* writer: both stores hold what was acknowledged, and the write in        *)
(* progress is the newest and is where it did not raise.                   *)
(***************************************************************************)
AckIsInBoth ==
  \A k \in Key : /\ acked[k] <= primary[k] /\ primary[k] <= issued
                 /\ acked[k] <= fallback[k] /\ fallback[k] <= issued

WriteIsNewest ==
  \A t \in Writer :
    /\ pc[t] \in {"idle", "primary", "fallback", "return"}
    /\ pc[t] # "idle" => write[t].version = issued
    /\ pc[t] \in {"fallback", "return"} /\ ~write[t].perr
         => primary[write[t].key] = issued
    /\ pc[t] = "return" /\ ~write[t].ferr => fallback[write[t].key] = issued

FloorIsAcked ==
  \A t \in Reader :
    /\ pc[t] \in {"idle", "first", "second"}
    /\ pc[t] # "idle" => \A k \in Key : read[t].floor[k] <= acked[k]

StrictInv ==
  TypeOK /\ AckIsInBoth /\ WriteIsNewest /\ FloorIsAcked /\ ReadSeesAck

OneWriterInv == strict => StrictInv

\* With no call in progress and nothing that ever failed, the stores are equal.
StoresAgree ==
  ~damaged /\ (\A t \in Writer : pc[t] = "idle") => primary = fallback

(***************************************************************************)
(* The inductive invariant behind WritesAreKept, for one writer in either  *)
(* mode: no store is ahead of the newest write, what was acknowledged is   *)
(* in one of them, and as long as nothing failed they differ by the half   *)
(* written of the call in progress.                                        *)
(***************************************************************************)
StoresAreBehind == \A k \in Key : primary[k] <= issued /\ fallback[k] <= issued

AckIsInOne == \A k \in Key : acked[k] <= primary[k] \/ acked[k] <= fallback[k]

HalfWritten ==
  ~damaged => \A t \in Writer :
    IF pc[t] = "fallback"
    THEN primary = [fallback EXCEPT ![write[t].key] = write[t].version]
    ELSE primary = fallback

KeptInv ==
  TypeOK /\ WriteIsNewest /\ StoresAreBehind /\ AckIsInOne /\ HalfWritten

(***************************************************************************)
(* What a write of _dual_write leaves behind: an acknowledged version is   *)
(* never lost, and without failures both stores have it.                   *)
(***************************************************************************)
WritesAreKept == AckIsDurable /\ StoresAgree
=============================================================================
