------------------------ MODULE RuntimeRunnerProofs ------------------------
(***************************************************************************)
(* The runtime moves through its lifecycle as it may, leaves nothing       *)
(* running behind, and never has more in a queue than it holds, for every  *)
(* capacity of the bus and every limit of the cycles, whenever it is told  *)
(* to stop.                                                                *)
(***************************************************************************)
EXTENDS RuntimeRunner, FiniteSetTheorems, SequenceTheorems, WellFoundedInduction, TLAPS

\* Where the runner is tells the state of the lifecycle and which tasks there are.
StateOfRunner ==
  /\ runner = "new" => state = "INIT"
  /\ runner = "waiting" => state \in {"RUNNING", "DEGRADED"}
  /\ runner \in {"gathering", "closing"} => state = "SHUTTING_DOWN"
  /\ runner = "done" => state = "STOPPED"

TasksOfRunner ==
  /\ runner = "new" => training = "none"
  /\ runner \in {"closing", "done"} => training \in Over /\ vitals \in Over
  /\ runner = "done" => executor = "idle"

RunInv ==
  /\ history \in Seq(LifecycleState) /\ Len(history) >= 1
  /\ runner \in {"new", "waiting", "gathering", "closing", "done"}
  /\ StateOfRunner
  /\ TasksOfRunner

\* The state after a move is where it went.
LEMMA Moved ==
  ASSUME NEW h \in Seq(LifecycleState), Len(h) >= 1, NEW s \in LifecycleState
  PROVE  /\ Append(h, s) \in Seq(LifecycleState)
         /\ Len(Append(h, s)) >= 1
         /\ Append(h, s)[Len(Append(h, s))] = s
  OBVIOUS

\* A history that goes on by two states ends in the second.
LEMMA MovedTwice ==
  ASSUME NEW h \in Seq(LifecycleState), Len(h) >= 1,
         NEW s \in LifecycleState, NEW t \in LifecycleState
  PROVE  /\ h \o <<s, t>> \in Seq(LifecycleState)
         /\ Len(h \o <<s, t>>) >= 1
         /\ (h \o <<s, t>>)[Len(h \o <<s, t>>)] = t
<1>1. <<s, t>> \in Seq(LifecycleState) /\ Len(<<s, t>>) = 2 /\ <<s, t>>[2] = t
  OBVIOUS
<1>2. Len(h \o <<s, t>>) = Len(h) + 2
  BY <1>1
<1> QED
  BY <1>1, <1>2

\* The invariant of the runner holds at the start.
LEMMA RunInit == Init => RunInv
<1> SUFFICES ASSUME Init PROVE RunInv
  OBVIOUS
<1>1. history = <<"INIT">> /\ runner = "new" /\ training = "none"
  BY DEF Init, LifecycleInit
<1>2. "INIT" \in LifecycleState
  BY DEF LifecycleState
<1>3. history \in Seq(LifecycleState) /\ Len(history) = 1 /\ history[1] = "INIT"
  BY <1>1, <1>2
<1> QED
  BY <1>1, <1>3 DEF RunInv, StateOfRunner, TasksOfRunner, state

\* Only the failure of a cycle, of the steps of the training loop, moves the
\* lifecycle; it does so while the runner waits.
LEMMA TrainStep ==
  ASSUME RunInv, Train
  PROVE  /\ runner' = runner /\ vitals' = vitals
         /\ \/ history' = history
            \/ runner = "waiting" /\ history' = MarkDegraded(history)
         /\ training \notin Over \union {"none"}
         /\ runner = "gathering" => executor' = executor
<1>1. UNCHANGED <<runner, vitals, alarms>> /\ Loop
  BY DEF Train
<1>2. CASE Cancelled
  BY <1>1, <1>2 DEF Train, CancelTraining
<1>3. CASE ~ Cancelled
  <2>1. \/ Enter \/ BeginCycle \/ Leave \/ NoResult \/ Result \/ Adapted
        \/ Heartbeat \/ EndCycle \/ Resume \/ Fail
    BY <1>3 DEF Train
  <2>2. training \in {"new", "head", "step", "adapt", "publish", "nap", "pause"}
    BY <2>1 DEF Enter, BeginCycle, Leave, NoResult, Result, Adapted, Heartbeat, EndCycle,
                Resume, Fail
  <2>3. runner = "waiting"
    BY <1>1, <1>3, <2>2 DEF Cancelled, Loop, RunInv, TasksOfRunner, Over
  <2>4. history' = history \/ history' = MarkDegraded(history)
    BY <2>1 DEF Enter, BeginCycle, Leave, NoResult, Result, Adapted, Heartbeat, EndCycle,
                Resume, Fail
  <2> QED
    BY <1>1, <2>2, <2>3, <2>4 DEF Over
<1> QED
  BY <1>2, <1>3

\* Every step is a step of the lifecycle, or leaves it alone, and keeps RunInv.
LEMMA RunStep ==
  ASSUME RunInv, [Next]_vars
  PROVE  RunInv' /\ [LifecycleNext]_history
<1> USE DEF StateOfRunner, TasksOfRunner, state
<1>1. CASE Start
  <2>1. history' = history \o <<"STARTING", "RUNNING">> /\ runner = "new" /\ runner' = "waiting"
    BY <1>1 DEF Start
  <2>2. "STARTING" \in LifecycleState /\ "RUNNING" \in LifecycleState
    BY DEF LifecycleState
  <2>3. "STARTING" \in Allowed["INIT"] /\ "RUNNING" \in Allowed["STARTING"]
    BY DEF Allowed
  <2>4. LifecycleNext
    BY <2>1, <2>3 DEF RunInv, LifecycleNext
  <2>5. RunInv'
    BY <2>1, <2>2, MovedTwice DEF RunInv
  <2> QED
    BY <2>4, <2>5
<1>2. CASE BeginStop
  <2>1. state \in {"RUNNING", "DEGRADED"} /\ runner' = "gathering"
    BY <1>2 DEF BeginStop, RunInv
  <2>2. history' = Append(history, "SHUTTING_DOWN")
    BY <1>2, <2>1 DEF BeginStop, BeginShutdown
  <2>3. "SHUTTING_DOWN" \in LifecycleState
        /\ "SHUTTING_DOWN" \in Allowed["RUNNING"] /\ "SHUTTING_DOWN" \in Allowed["DEGRADED"]
    BY DEF LifecycleState, Allowed
  <2>4. LifecycleNext
    BY <2>1, <2>2, <2>3 DEF LifecycleNext
  <2>5. RunInv'
    BY <2>1, <2>2, <2>3, Moved DEF RunInv
  <2> QED
    BY <2>4, <2>5
<1>3. CASE Gathered
  BY <1>3 DEF Gathered, RunInv, tasks
<1>4. CASE Stop
  <2>1. state = "SHUTTING_DOWN" /\ runner' = "done" /\ executor = "idle" /\ runner = "closing"
    BY <1>4 DEF Stop, RunInv
  <2>2. history' = Append(history, "STOPPED")
    BY <1>4, <2>1 DEF Stop, MarkStopped
  <2>3. "STOPPED" \in LifecycleState /\ "STOPPED" \in Allowed["SHUTTING_DOWN"]
    BY DEF LifecycleState, Allowed
  <2>4. LifecycleNext
    BY <2>1, <2>2, <2>3 DEF LifecycleNext
  <2>5. training' = training /\ vitals' = vitals /\ executor' = executor
    BY <1>4 DEF Stop, tasks
  <2>6. RunInv'
    BY <2>1, <2>2, <2>3, <2>5, Moved DEF RunInv
  <2> QED
    BY <2>4, <2>6
<1>5. CASE Train
  <2>1. /\ runner' = runner /\ vitals' = vitals
        /\ \/ history' = history
           \/ runner = "waiting" /\ history' = MarkDegraded(history)
        /\ training \notin Over \union {"none"}
    BY <1>5, TrainStep
  <2>2. runner \in {"waiting", "gathering"}
    BY <2>1 DEF RunInv
  <2>3. CASE history' = history
    BY <2>1, <2>2, <2>3 DEF RunInv
  <2>4. CASE runner = "waiting" /\ history' = MarkDegraded(history) /\ history' # history
    <3>1. state = "RUNNING" /\ history' = Append(history, "DEGRADED")
      BY <2>4 DEF MarkDegraded, RunInv
    <3>2. "DEGRADED" \in LifecycleState /\ "DEGRADED" \in Allowed["RUNNING"]
      BY DEF LifecycleState, Allowed
    <3>3. LifecycleNext
      BY <3>1, <3>2 DEF LifecycleNext
    <3>4. RunInv'
      BY <2>1, <2>4, <3>1, <3>2, Moved DEF RunInv
    <3> QED
      BY <3>3, <3>4
  <2> QED
    BY <2>1, <2>3, <2>4
<1>6. CASE Watch
  <2>1. UNCHANGED <<history, runner, training, executor>> /\ Loop
    BY <1>6 DEF Watch
  <2>2. vitals \in Over /\ runner = "done" => FALSE
    BY <1>6 DEF Watch, Cancelled, Observe, PublishRest, EndNap, EndWatch, Over
  <2> QED
    BY <2>1, <2>2 DEF RunInv, Loop
<1>7. CASE ExecutorEnds
  BY <1>7 DEF ExecutorEnds, tasks, RunInv
<1>8. CASE RouteEvents \/ CloseBus \/ RequestShutdown \/ BeginClose \/ UNCHANGED vars
  <2>1. UNCHANGED <<history, runner, training, vitals, executor>>
    BY <1>8 DEF RouteEvents, CloseBus, RequestShutdown, BeginClose, vars, rest, tasks
  <2> QED
    BY <2>1 DEF RunInv
<1> QED
  BY <1>1, <1>2, <1>3, <1>4, <1>5, <1>6, <1>7, <1>8 DEF Next, Run

(***************************************************************************)
(* A runtime that has stopped left no task and no job behind.              *)
(***************************************************************************)
THEOREM Quiet == Spec => []StoppedIsQuiet
<1>1. RunInv => StoppedIsQuiet
  BY DEF RunInv, StateOfRunner, TasksOfRunner, StoppedIsQuiet
<1> QED
  BY <1>1, RunInit, RunStep, PTL DEF Spec

(***************************************************************************)
(* The runner and the training loop implement the lifecycle.               *)
(***************************************************************************)
THEOREM Lifecycles == Spec => ImplementsLifecycle
<1>1. Init => LifecycleInit
  BY DEF Init
<1> QED
  BY <1>1, RunInit, RunStep, PTL DEF Spec, ImplementsLifecycle, LifecycleSpec

-----------------------------------------------------------------------------
(* The queues of the bus.                                                  *)

\* A set of numbers that has one has a least.
LEMMA LeastOf ==
  ASSUME NEW S \in SUBSET Nat, S # {}
  PROVE  \E x \in S : \A y \in S : x <= y
<1> DEFINE R == OpToRel(<, Nat)
<1>1. IsWellFoundedOn(R, Nat)
  BY NatLessThanWellFounded, Zenon
<1>2. \A x, y \in Nat : y < x => <<y, x>> \in R
  BY Zenon DEF OpToRel
<1> HIDE DEF R
<1>3. PICK x \in S : \A y \in S : ~(<<y, x>> \in R)
  BY <1>1, WFMin
<1>4. \A y \in S : ~(y < x)
  BY <1>2, <1>3
<1>5. \A y \in S : x \in Nat /\ y \in Nat
  OBVIOUS
<1> QED
  BY <1>3, <1>4, <1>5

Item == {"event", "sentinel"}

\* What is left of a queue is a queue, and no longer than it.
LEMMA Tailed ==
  ASSUME NEW q \in Seq(Item), NEW k \in Nat
  PROVE  /\ SubSeq(q, k + 1, Len(q)) \in Seq(Item)
         /\ Len(SubSeq(q, k + 1, Len(q))) <= Len(q)
<1>1. CASE k <= Len(q)
  <2>1. Len(SubSeq(q, k + 1, Len(q))) = Len(q) - k
    BY <1>1
  <2>2. \A i \in 1..(Len(q) - k) : SubSeq(q, k + 1, Len(q))[i] \in Item
    BY <1>1
  <2> QED
    BY <1>1, <2>1, <2>2
<1>2. CASE k > Len(q)
  <2>1. SubSeq(q, k + 1, Len(q)) = <<>>
    BY <1>2
  <2> QED
    BY <2>1
<1> QED
  BY <1>1, <1>2

\* What the router leaves is no longer than what it found.
LEMMA LeftIsShorter ==
  ASSUME BusTypeOK, NEW s \in Severity
  PROVE  Left(s) \in Seq(Item) /\ Len(Left(s)) <= Len(queue[s])
<1>1. queue[s] \in Seq(Item)
  BY DEF BusTypeOK, Item
<1>2. UpTo(queue[s]) \in Nat
  <2>1. CASE \E i \in DOMAIN queue[s] : queue[s][i] = "sentinel"
    <3>1. {i \in DOMAIN queue[s] : queue[s][i] = "sentinel"} # {}
          /\ {i \in DOMAIN queue[s] : queue[s][i] = "sentinel"} \subseteq Nat
      BY <1>1, <2>1
    <3>2. \E n \in {i \in DOMAIN queue[s] : queue[s][i] = "sentinel"} :
            \A m \in {i \in DOMAIN queue[s] : queue[s][i] = "sentinel"} : n <= m
      BY <3>1, LeastOf
    <3>3. \E i \in DOMAIN queue[s] :
            queue[s][i] = "sentinel" /\ \A j \in 1..(i - 1) : queue[s][j] # "sentinel"
      <4>1. PICK n \in DOMAIN queue[s] :
              /\ queue[s][n] = "sentinel"
              /\ \A m \in DOMAIN queue[s] : queue[s][m] = "sentinel" => n <= m
        BY <3>2
      <4>2. \A j \in 1..(n - 1) : j \in DOMAIN queue[s] /\ ~ (n <= j)
        BY <1>1, <4>1
      <4> QED
        BY <4>1, <4>2
    <3>4. UpTo(queue[s]) \in DOMAIN queue[s]
      BY <2>1, <3>3 DEF UpTo
    <3> QED
      BY <1>1, <3>4
  <2>2. CASE ~ \E i \in DOMAIN queue[s] : queue[s][i] = "sentinel"
    BY <1>1, <2>2 DEF UpTo
  <2> QED
    BY <2>1, <2>2
<1>3. \/ Left(s) = queue[s]
      \/ Left(s) = SubSeq(queue[s], UpTo(queue[s]) + 1, Len(queue[s]))
  BY DEF Left
<1>4. CASE Left(s) = queue[s]
  BY <1>1, <1>4
<1>5. CASE Left(s) = SubSeq(queue[s], UpTo(queue[s]) + 1, Len(queue[s]))
  <2> HIDE DEF Item
  <2>1. /\ SubSeq(queue[s], UpTo(queue[s]) + 1, Len(queue[s])) \in Seq(Item)
        /\ Len(SubSeq(queue[s], UpTo(queue[s]) + 1, Len(queue[s]))) <= Len(queue[s])
    BY <1>1, <1>2, Tailed
  <2> QED
    BY <1>5, <2>1
<1> QED
  BY <1>3, <1>4, <1>5

\* A shutdown puts its sentinels where there is room.
LEMMA SentinelsFit ==
  ASSUME BusTypeOK, NEW from \in 1..3, Sentinels(from)
  PROVE  /\ queue' \in [Severity -> Seq(Item)]
         /\ \A s \in Severity : Len(queue'[s]) <= Capacity
         /\ closer' \in {"CRITICAL", "WARN", "INFO", "join"}
<1> DEFINE full == {i \in from..3 : Full(queue, Severities[i])}
           next == IF full = {} THEN 4 ELSE CHOOSE i \in full : \A j \in full : i <= j
           reached == {Severities[i] : i \in from..(next - 1)}
<1>1. /\ queue' = [s \in Severity |-> IF s \in reached THEN Append(queue[s], "sentinel")
                                      ELSE queue[s]]
      /\ closer' = IF next = 4 THEN "join" ELSE Severities[next]
  BY DEF Sentinels
<1>2. next \in 1..4 /\ \A i \in from..(next - 1) : i \in 1..3 /\ ~ Full(queue, Severities[i])
  <2>1. CASE full = {}
    BY <2>1
  <2>2. CASE full # {}
    <3>1. full \in SUBSET Nat
      OBVIOUS
    <3>2. \E i \in full : \A j \in full : i <= j
      BY <2>2, <3>1, LeastOf
    <3>3. next \in full /\ \A j \in full : next <= j
      BY <2>2, <3>2
    <3> QED
      BY <3>3
  <2> QED
    BY <2>1, <2>2
<1> HIDE DEF next, full
<1>3. \A s \in reached : ~ Full(queue, s)
  BY <1>2
<1> HIDE DEF reached
<1>4. closer' \in {"CRITICAL", "WARN", "INFO", "join"}
  BY <1>1, <1>2 DEF Severities
<1>5. ASSUME NEW s \in Severity
      PROVE  queue'[s] \in Seq(Item) /\ Len(queue'[s]) <= Capacity
  <2>1. queue[s] \in Seq(Item) /\ Len(queue[s]) <= Capacity
    BY DEF BusTypeOK, Item
  <2>2. CASE s \in reached
    <3>1. Len(queue[s]) < Capacity
      BY <1>3, <2>1, <2>2, BusAssumption DEF Full
    <3>2. queue'[s] = Append(queue[s], "sentinel") /\ "sentinel" \in Item
      BY <1>1, <2>2 DEF Item
    <3> QED
      BY <2>1, <3>1, <3>2, BusAssumption
  <2>3. CASE s \notin reached
    BY <1>1, <2>1, <2>3
  <2> QED
    BY <2>2, <2>3
<1>6. queue' \in [Severity -> Seq(Item)]
  BY <1>1, <1>5
<1> QED
  BY <1>4, <1>5, <1>6

\* A step of the bus, and an event put into it.
LEMMA BusStep ==
  ASSUME BusTypeOK, RouteEvents \/ CloseBus \/ BeginClose
  PROVE  BusTypeOK'
<1>1. queue \in [Severity -> Seq(Item)]
  BY DEF BusTypeOK, Item
<1>2. CASE RouteEvents
  <2>1. CASE ~ running
    BY <1>2, <2>1 DEF RouteEvents, Route, BusTypeOK
  <2>2. CASE running
    <3>1. queue' = [s \in Severity |-> Left(s)]
          /\ running' \in BOOLEAN /\ router' \in {"done", "asleep"} /\ closer' = closer
      BY <1>2, <2>2 DEF RouteEvents, Route
    <3>2. \A s \in Severity : queue'[s] \in Seq(Item) /\ Len(queue'[s]) <= Capacity
      <4> SUFFICES ASSUME NEW s \in Severity
                   PROVE  queue'[s] \in Seq(Item) /\ Len(queue'[s]) <= Capacity
        OBVIOUS
      <4>1. Left(s) \in Seq(Item) /\ Len(Left(s)) <= Len(queue[s])
        BY LeftIsShorter
      <4>2. Len(queue[s]) <= Capacity /\ Len(queue[s]) \in Nat /\ Len(Left(s)) \in Nat
        BY <1>1, <4>1 DEF BusTypeOK
      <4> QED
        BY <3>1, <4>1, <4>2, BusAssumption
    <3>3. queue' \in [Severity -> Seq(Item)]
      BY <3>1, <3>2
    <3> QED
      BY <3>1, <3>2, <3>3 DEF BusTypeOK, Item
  <2> QED
    BY <2>1, <2>2
<1>3. CASE BeginClose
  <2>1. Sentinels(1) /\ running' = FALSE /\ router' = router
    BY <1>3 DEF BeginClose, CloseBegin
  <2>2. 1 \in 1..3
    OBVIOUS
  <2>3. /\ queue' \in [Severity -> Seq(Item)]
        /\ \A s \in Severity : Len(queue'[s]) <= Capacity
        /\ closer' \in {"CRITICAL", "WARN", "INFO", "join"}
    BY <2>1, <2>2, SentinelsFit
  <2> QED
    BY <2>1, <2>3 DEF BusTypeOK, Item
<1>4. CASE CloseBus /\ CloseResume
  <2>1. PICK i \in 1..3 : Sentinels(i) /\ UNCHANGED <<running, router>>
    BY <1>4 DEF CloseResume
  <2> QED
    BY <2>1, SentinelsFit DEF BusTypeOK, Item
<1>5. CASE CloseBus /\ CloseEnd
  <2>1. queue' = [s \in Severity |-> <<>>] /\ closer' = "closed"
        /\ UNCHANGED <<running, router>>
    BY <1>5 DEF CloseEnd, Empty
  <2>2. <<>> \in Seq({"event", "sentinel"}) /\ Len(<<>>) = 0
    OBVIOUS
  <2> QED
    BY <2>1, <2>2, BusAssumption DEF BusTypeOK
<1> QED
  BY <1>2, <1>3, <1>4, <1>5 DEF CloseBus, Close

\* What is left of a sequence after its first k.
LEMMA RestOf ==
  ASSUME NEW T, NEW q \in Seq(T), NEW n \in Nat, n = Len(q), NEW k \in Nat, k <= n
  PROVE  SubSeq(q, k + 1, n) \in Seq(T) /\ (SubSeq(q, k + 1, n) # <<>> <=> k # n)
<1>1. \A i \in 1..n : q[i] \in T
  BY ElementOfSeq
<1>2. \A i \in (k + 1)..n : q[i] \in T
  BY <1>1
<1>3. /\ SubSeq(q, k + 1, n) \in Seq(T)
      /\ Len(SubSeq(q, k + 1, n)) = IF k + 1 <= n THEN n - (k + 1) + 1 ELSE 0
  <2>1. k + 1 \in Int /\ n \in Int
    OBVIOUS
  <2> QED
    BY <1>2, <2>1, SubSeqProperties
<1>4. k = n => SubSeq(q, k + 1, n) = <<>>
  BY SubSeqEmpty
<1>5. Len(<<>>) = 0
  OBVIOUS
<1>6. k # n => SubSeq(q, k + 1, n) # <<>>
  <2> DEFINE r == SubSeq(q, k + 1, n)
  <2>1. k # n => Len(r) # 0
    BY <1>3
  <2> HIDE DEF r
  <2>2. r = <<>> => Len(r) = 0
    BY <1>5
  <2> QED
    BY <2>1, <2>2 DEF r
<1> QED
  BY <1>3, <1>4, <1>6

\* A thing repeated n times is a sequence of length n.
LEMMA Repeated ==
  ASSUME NEW T, NEW n \in Nat, NEW e \in T
  PROVE  [i \in 1..n |-> e] \in Seq(T) /\ Len([i \in 1..n |-> e]) = n
  OBVIOUS

\* A heartbeat put where there is room keeps the queues within their capacity.
LEMMA HeartbeatFits ==
  ASSUME BusTypeOK, ~ Full(queue, "INFO"), queue' = Put(queue, "INFO", "event"),
         UNCHANGED <<running, router, closer>>
  PROVE  BusTypeOK'
<1>1. queue["INFO"] \in Seq(Item) /\ Len(queue["INFO"]) < Capacity
  BY BusAssumption DEF BusTypeOK, Item, Full, Severity
<1>2. Append(queue["INFO"], "event") \in Seq(Item)
      /\ Len(Append(queue["INFO"], "event")) <= Capacity
  BY <1>1, BusAssumption DEF Item
<1> QED
  BY <1>2 DEF BusTypeOK, Put, Item

\* The alarms of a severity are counted by a natural number.
LEMMA CountType ==
  ASSUME NEW as, NEW k \in Nat, NEW s
  PROVE  Count(as, k, s) \in Nat
<1>1. IsFiniteSet(1..k)
  BY FS_Interval
<1>2. IsFiniteSet({j \in 1..k : as[j] = s})
  BY <1>1, FS_Subset
<1> QED
  BY <1>2, FS_CardinalityType DEF Count

\* The watch publishes what fits, and has the rest to publish.
LEMMA PublishFits ==
  ASSUME BusTypeOK, NEW as \in Seq(Severity), Publish(as)
  PROVE  /\ queue' \in [Severity -> Seq(Item)]
         /\ \A s \in Severity : Len(queue'[s]) <= Capacity
         /\ vitals' \in {"nap", "publish"} /\ alarms' \in Seq(Severity)
         /\ vitals' = "publish" <=> alarms' # <<>>
<1> DEFINE n == Len(as)
<1>0. n \in Nat
  BY LenProperties
<1> HIDE DEF n
<1>9. \A k \in 0..n : k \in Nat /\ k <= n
  BY <1>0
<1>1. PICK k \in Nat :
        /\ k <= n /\ Fit(as, k)
        /\ queue' = [s \in Severity |-> queue[s] \o [i \in 1..Count(as, k, s) |-> "event"]]
        /\ alarms' = SubSeq(as, k + 1, n)
        /\ vitals' = IF k = n THEN "nap" ELSE "publish"
  BY <1>9 DEF Publish, n
<1>2. ASSUME NEW s \in Severity
      PROVE  queue'[s] \in Seq(Item) /\ Len(queue'[s]) <= Capacity
  <2>1. queue[s] \in Seq(Item) /\ Len(queue[s]) <= Capacity
    BY DEF BusTypeOK, Item
  <2>2. PICK c \in Nat : c = Count(as, k, s)
    BY CountType
  <2>3. c = 0 \/ Len(queue[s]) + c <= Capacity
    BY <1>1, <2>2 DEF Fit
  <2>4. [i \in 1..c |-> "event"] \in Seq(Item) /\ Len([i \in 1..c |-> "event"]) = c
    <3>1. "event" \in Item
      BY DEF Item
    <3> QED
      BY <3>1, Repeated
  <2>5. queue'[s] = queue[s] \o [i \in 1..c |-> "event"]
    BY <1>1, <2>2
  <2> HIDE DEF Item
  <2>6. /\ queue[s] \o [i \in 1..c |-> "event"] \in Seq(Item)
        /\ Len(queue[s] \o [i \in 1..c |-> "event"]) = Len(queue[s]) + c
    BY <2>1, <2>4, ConcatProperties
  <2>7. Len(queue[s]) \in Nat
    BY <2>1, LenProperties
  <2>8. PICK l \in Nat : l = Len(queue[s]) /\ l <= Capacity
    BY <2>1, <2>7
  <2>9. l + c <= Capacity
    BY <2>3, <2>8
  <2> QED
    BY <2>5, <2>6, <2>8, <2>9
<1>3. queue' \in [Severity -> Seq(Item)]
  BY <1>1, <1>2
<1>4. SubSeq(as, k + 1, n) \in Seq(Severity) /\ (SubSeq(as, k + 1, n) # <<>> <=> k # n)
  BY <1>0, <1>1, RestOf DEF n
<1> QED
  BY <1>1, <1>2, <1>3, <1>4

\* The alarms of an observation are severities.
LEMMA AlarmsAreSeverities ==
  ASSUME NEW hot \in 0..2, NEW entropy \in {<<>>, <<"WARN">>},
         NEW stability \in {<<>>, <<"CRITICAL">>}
  PROVE  Alarms(hot, entropy, stability) \in Seq(Severity)
<1>1. "CRITICAL" \in Severity /\ "WARN" \in Severity /\ hot \in Nat
  BY DEF Severity
<1>2. [i \in 1..hot |-> "CRITICAL"] \in Seq(Severity)
  BY <1>1, Repeated
<1>3. \A s \in Severity : <<s>> \in Seq(Severity)
  OBVIOUS
<1>4. entropy \in Seq(Severity) /\ stability \in Seq(Severity)
  BY <1>1, <1>3, EmptySeq
<1>5. [i \in 1..hot |-> "CRITICAL"] \o entropy \in Seq(Severity)
  BY <1>2, <1>4, ConcatProperties
<1> QED
  BY <1>4, <1>5, ConcatProperties DEF Alarms

\* A new runner has no watch.
BusInv == TypeOK /\ (runner = "new" => vitals = "none")

\* The types hold at the start.
LEMMA TypeInit == Init => BusInv
<1> SUFFICES ASSUME Init PROVE BusInv
  OBVIOUS
<1>1. <<>> \in Seq(Severity) /\ <<>> \in Seq({"event", "sentinel"}) /\ Len(<<>>) = 0
  OBVIOUS
<1>2. BusTypeOK
  BY <1>1, BusAssumption DEF Init, BusInit, BusTypeOK, Empty
<1>3. history = <<"INIT">> /\ history # <<>> /\ history \in Seq(LifecycleState)
  <2>1. "INIT" \in LifecycleState
    BY DEF LifecycleState
  <2> QED
    BY <2>1 DEF Init, LifecycleInit
<1>4. /\ shutdown = FALSE /\ runner = "new" /\ training = "none" /\ cycle = 0
      /\ vitals = "none" /\ alarms = <<>> /\ executor = "idle"
  BY DEF Init
<1>5. 0 \in 0..(MaxCycles + 1)
  BY RunnerAssumption
<1> QED
  BY <1>1, <1>2, <1>3, <1>4, <1>5 DEF BusInv, TypeOK, Training, Vitals

\* What the training loop does, apart from the lifecycle.
LEMMA TrainType ==
  ASSUME BusInv, Train
  PROVE  /\ BusTypeOK' /\ shutdown' \in BOOLEAN /\ training' \in Training
         /\ cycle' \in 0..(MaxCycles + 1) /\ executor' \in {"idle", "busy"}
<1> USE DEF BusInv, TypeOK
<1>1. CASE CancelTraining
  BY <1>1 DEF CancelTraining, bus, BusTypeOK, Training
<1>2. CASE Heartbeat
  <2>1. BusTypeOK'
    BY <1>2, HeartbeatFits DEF Heartbeat
  <2> QED
    BY <1>2, <2>1 DEF Heartbeat, Training
<1>3. CASE Enter \/ BeginCycle \/ Leave \/ NoResult \/ Result \/ Adapted \/ EndCycle
           \/ Resume \/ Fail
  <2>1. UNCHANGED bus /\ cycle' \in {cycle, Counted(cycle)} /\ shutdown' \in BOOLEAN
    BY <1>3 DEF Enter, BeginCycle, Leave, NoResult, Result, Adapted, EndCycle, Resume, Fail
  <2>2. training' \in Training /\ executor' \in {"idle", "busy"}
    BY <1>3 DEF Enter, BeginCycle, Leave, NoResult, Result, Adapted, EndCycle, Resume, Fail,
                Training
  <2>3. Counted(cycle) \in 0..(MaxCycles + 1)
    BY RunnerAssumption DEF Counted
  <2> QED
    BY <2>1, <2>2, <2>3 DEF bus, BusTypeOK
<1> QED
  BY <1>1, <1>2, <1>3 DEF Train

\* A step of the watch keeps queues and alarms as they should be.
LEMMA WatchType ==
  ASSUME BusInv, Watch
  PROVE  /\ BusTypeOK' /\ vitals' \in Vitals /\ alarms' \in Seq(Severity)
         /\ (vitals' = "publish") <=> (alarms' # <<>>)
<1> USE DEF BusInv, TypeOK
<1>0. UNCHANGED <<running, router, closer>>
  BY DEF Watch
<1>1. ASSUME NEW as \in Seq(Severity), Publish(as)
      PROVE  /\ BusTypeOK' /\ vitals' \in Vitals /\ alarms' \in Seq(Severity)
             /\ (vitals' = "publish") <=> (alarms' # <<>>)
  BY <1>0, <1>1, PublishFits DEF BusTypeOK, Item, Vitals
<1>2. CASE Observe
  BY <1>1, <1>2, AlarmsAreSeverities DEF Observe
<1>3. CASE PublishRest
  BY <1>1, <1>3 DEF PublishRest
<1>4. CASE EndNap \/ EndWatch \/ CancelWatch
  <2>1. <<>> \in Seq(Severity)
    OBVIOUS
  <2> QED
    BY <1>0, <1>4, <2>1 DEF EndNap, EndWatch, CancelWatch, BusTypeOK, Vitals
<1> QED
  BY <1>2, <1>3, <1>4 DEF Watch

\* Every step keeps the types; those of the lifecycle are kept by RunInv.
LEMMA TypeStep ==
  ASSUME RunInv, BusInv, [Next]_vars
  PROVE  BusInv'
<1> USE DEF BusInv, TypeOK
<1>0. RunInv' /\ history' \in Seq(LifecycleState) /\ history' # <<>>
      /\ runner' \in {"new", "waiting", "gathering", "closing", "done"}
  <2>1. RunInv'
    BY RunStep
  <2>2. Len(<<>>) = 0
    OBVIOUS
  <2> QED
    BY <2>1, <2>2 DEF RunInv
<1>1. CASE Start
  <2>1. queue' = queue /\ running' = running /\ closer' = closer
        /\ router' \in {"none", "asleep", "done"} /\ shutdown' = shutdown
        /\ training' = "new" /\ vitals' = "head" /\ runner' = "waiting" /\ vitals = "none"
        /\ cycle' = cycle /\ alarms' = alarms /\ executor' = executor
    BY <1>1 DEF Start, BusTypeOK
  <2>2. BusTypeOK'
    BY <2>1 DEF BusTypeOK
  <2> QED
    BY <1>0, <2>1, <2>2 DEF Training, Vitals
<1>2. CASE BeginStop \/ Gathered \/ Stop \/ RequestShutdown \/ ExecutorEnds \/ UNCHANGED vars
  <2>1. UNCHANGED bus /\ UNCHANGED tasks /\ shutdown' \in BOOLEAN
        /\ executor' \in {"idle", "busy"} /\ (runner' = "new" => runner = "new")
    BY <1>2 DEF BeginStop, Gathered, Stop, RequestShutdown, ExecutorEnds, vars
  <2> QED
    BY <1>0, <2>1 DEF bus, tasks, BusTypeOK
<1>3. CASE Train
  <2>1. UNCHANGED <<runner, vitals, alarms>>
    BY <1>3 DEF Train
  <2> QED
    BY <1>0, <1>3, <2>1, TrainType
<1>4. CASE Watch
  <2>1. UNCHANGED <<shutdown, runner, training, cycle, executor>>
    BY <1>4 DEF Watch
  <2>2. runner # "new"
    BY <1>4 DEF Watch, Cancelled, Observe, PublishRest, EndNap, EndWatch
  <2> QED
    BY <1>0, <1>4, <2>1, <2>2, WatchType
<1>5. CASE RouteEvents \/ CloseBus \/ BeginClose
  <2>1. UNCHANGED <<shutdown, runner, training, cycle, vitals, alarms, executor>>
    BY <1>5 DEF RouteEvents, CloseBus, BeginClose, rest, tasks
  <2> QED
    BY <1>0, <1>5, <2>1, BusStep
<1> QED
  BY <1>1, <1>2, <1>3, <1>4, <1>5 DEF Next, Run

(***************************************************************************)
(* The types; above all, that no queue of the bus is over its capacity,    *)
(* whoever of the training loop, the watch and a shutdown puts into it.    *)
(***************************************************************************)
THEOREM TypeInvariant == Spec => []TypeOK
<1>1. BusInv => TypeOK
  BY DEF BusInv
<1> QED
  BY <1>1, RunInit, RunStep, TypeInit, TypeStep, PTL DEF Spec
=============================================================================
