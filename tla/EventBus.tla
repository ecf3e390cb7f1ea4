------------------------------ MODULE EventBus ------------------------------
(***************************************************************************)
(* The asynchronous bus (core/infrastructure.py): a bounded queue per      *)
(* severity, a router that empties them in their order and sleeps, and a   *)
(* shutdown that wakes whoever waits with a sentinel per queue.            *)
(*                                                                         *)
(* One action is what a task does between two awaits that suspend it: get  *)
(* on a queue that is not empty and put on one that is not full do not.    *)
(* Events are told apart by their queue only.                              *)
(***************************************************************************)
EXTENDS Integers, Sequences

CONSTANT Capacity  \* of a queue

ASSUME BusAssumption == Capacity \in Nat \ {0}

VARIABLES
  queue,    \* per severity: events and sentinels
  running,  \* the flag of the bus
  router,   \* its task: none yet, asleep, or done
  closer    \* where a shutdown of the bus is

bus == <<queue, running, router, closer>>

Severities == <<"CRITICAL", "WARN", "INFO">>
Severity == {"CRITICAL", "WARN", "INFO"}

Full(q, s) == Len(q[s]) >= Capacity

Put(q, s, item) == [q EXCEPT ![s] = Append(@, item)]

Empty == [s \in Severity |-> <<>>]

BusInit ==
  /\ queue = Empty
  /\ running = TRUE /\ router = "none" /\ closer = "none"

BusTypeOK ==
  /\ queue \in [Severity -> Seq({"event", "sentinel"})]
  /\ \A s \in Severity : Len(queue[s]) <= Capacity
  /\ running \in BOOLEAN
  /\ router \in {"none", "asleep", "done"}
  /\ closer \in {"none", "CRITICAL", "WARN", "INFO", "join", "closed"}

\* The place of the first sentinel, or the length.
UpTo(seq) ==
  IF \E i \in DOMAIN seq : seq[i] = "sentinel"
  THEN CHOOSE i \in DOMAIN seq :
         seq[i] = "sentinel" /\ \A j \in 1..(i - 1) : seq[j] # "sentinel"
  ELSE Len(seq)

HasSentinel(s) == \E i \in DOMAIN queue[s] : queue[s][i] = "sentinel"

\* Mutant: one event per awakening, of the first severity that has one.
LeftAllButOne(s) ==
  LET above == CASE s = "CRITICAL" -> {}
                 [] s = "WARN" -> {"CRITICAL"}
                 [] s = "INFO" -> {"CRITICAL", "WARN"}
  IN IF queue[s] = <<>> \/ \E t \in above : queue[t] # <<>> THEN queue[s] ELSE Tail(queue[s])

\* What a severity keeps after the router was awake: nothing, or what comes
\* after the first sentinel it meets.
Left(s) ==
  LET met(t) == CASE t = "CRITICAL" -> FALSE
                  [] t = "WARN" -> HasSentinel("CRITICAL")
                  [] t = "INFO" -> HasSentinel("CRITICAL") \/ HasSentinel("WARN")
  IN IF met(s) THEN queue[s] ELSE SubSeq(queue[s], UpTo(queue[s]) + 1, Len(queue[s]))

\* The router wakes: it ends if the bus does not run, else it empties the queues,
\* starts a handler per event, and sleeps again unless it met a sentinel.
Route ==
  /\ router = "asleep"
  /\ IF ~ running
     THEN router' = "done" /\ UNCHANGED <<queue, running>>
     ELSE LET met == \E s \in Severity : HasSentinel(s)
          IN /\ queue' = [s \in Severity |-> Left(s)]
             /\ running' = ~ met
             /\ router' = IF met THEN "done" ELSE "asleep"
  /\ UNCHANGED closer

\* Sentinels from one severity on, up to a queue that is full: there the shutdown
\* waits.
Sentinels(from) ==
  LET full == {i \in from..3 : Full(queue, Severities[i])}
      next == IF full = {} THEN 4 ELSE CHOOSE i \in full : \A j \in full : i <= j
      reached == {Severities[i] : i \in from..(next - 1)}
  IN /\ queue' = [s \in Severity |-> IF s \in reached THEN Append(queue[s], "sentinel")
                                     ELSE queue[s]]
     /\ closer' = IF next = 4 THEN "join" ELSE Severities[next]

\* Mutant: the router is waited for, and nothing told it to end.
CloseBeginUntold ==
  /\ closer = "none"
  /\ closer' = "join"
  /\ UNCHANGED <<queue, running, router>>

\* Whoever holds the orchestrator shuts it down, and with it the bus.
CloseBegin ==
  /\ closer = "none"
  /\ running' = FALSE
  /\ Sentinels(1)
  /\ UNCHANGED router

\* It goes on where a queue was full.
CloseResume ==
  \E i \in 1..3 :
    /\ closer = Severities[i] /\ ~ Full(queue, closer)
    /\ Sentinels(i)
    /\ UNCHANGED <<running, router>>

\* Once the router has ended, what is left is thrown away.
CloseEnd ==
  /\ closer = "join" /\ router \in {"none", "done"}
  /\ queue' = Empty
  /\ closer' = "closed"
  /\ UNCHANGED <<running, router>>

Close == CloseResume \/ CloseEnd
=============================================================================
