--------------------------- MODULE RuntimeRunner ---------------------------
(***************************************************************************)
(* The runtime (orchestration/runner.py): the runner starts the bus, the   *)
(* training loop and the watch over the vitals, waits for the flag that    *)
(* ends them, cancels them, waits for the executor and stops.              *)
(*                                                                         *)
(* The tasks share one event loop: an action is what a task does between   *)
(* two awaits that suspend it.  The executor is a thread of its own, and   *)
(* while the runner waits for it no task runs.                             *)
(***************************************************************************)
EXTENDS EventBus, Lifecycle, FiniteSets

CONSTANT MaxCycles  \* of the training loop; 0 for no limit

ASSUME RunnerAssumption == MaxCycles \in Nat

VARIABLES
  shutdown,   \* the flag
  runner,     \* where run_forever is
  training,   \* where the training loop is
  cycle,      \* its cycles, up to one more than the limit
  vitals,     \* where the watch over the vitals is
  alarms,     \* severities of the alarms it has yet to publish
  executor    \* "busy" with a step of the trainer

tasks == <<training, cycle, vitals, alarms>>
vars == <<bus, history, shutdown, runner, tasks, executor>>

Training == {"none", "new", "head", "step", "adapt", "publish", "nap", "pause",
             "ended", "cancelled", "broken"}
Vitals == {"none", "head", "publish", "nap", "ended", "cancelled"}

Over == {"ended", "cancelled", "broken"}

Init ==
  /\ BusInit /\ LifecycleInit
  /\ shutdown = FALSE
  /\ runner = "new"
  /\ training = "none" /\ cycle = 0
  /\ vitals = "none" /\ alarms = <<>>
  /\ executor = "idle"

\* A task runs: nothing blocks the event loop.
Loop == runner # "closing"

\* Orchestrator.shutdown, once the bus is shut, closes the executor to new jobs.
Released == closer = "closed"

\* Mutant: the tasks are awaited, not cancelled.
CancelledNever == FALSE

Cancelled == runner \in {"gathering", "closing"}

-----------------------------------------------------------------------------
(* The runner *)

\* Mutant: a start that goes straight to running.
StartAtOnce ==
  /\ runner = "new"
  /\ history' = Append(history, "RUNNING")
  /\ router' = IF router \in {"none", "done"} THEN "asleep" ELSE router
  /\ training' = "new" /\ vitals' = "head"
  /\ runner' = "waiting"
  /\ UNCHANGED <<queue, running, closer, shutdown, cycle, alarms, executor>>

\* Nothing up to the wait for the flag suspends it.
Start ==
  /\ runner = "new"
  /\ May(history, "STARTING")
  /\ history' = history \o <<"STARTING", "RUNNING">>
  /\ router' = IF router \in {"none", "done"} THEN "asleep" ELSE router
  /\ training' = "new" /\ vitals' = "head"
  /\ runner' = "waiting"
  /\ UNCHANGED <<queue, running, closer, shutdown, cycle, alarms, executor>>

\* The flag is set: the tasks are cancelled.
BeginStop ==
  /\ runner = "waiting" /\ shutdown
  /\ history' = BeginShutdown(history)
  /\ runner' = "gathering"
  /\ UNCHANGED <<bus, shutdown, tasks, executor>>

\* All of them are over: the reality hook, whose failure is caught, and then the
\* executor, which blocks the event loop.
Gathered ==
  /\ runner = "gathering"
  /\ training \in Over /\ vitals \in Over
  /\ runner' = "closing"
  /\ UNCHANGED <<bus, history, shutdown, tasks, executor>>

\* Mutant: the executor is shut down without waiting for its job.
StopWithoutWaiting ==
  /\ runner = "closing"
  /\ history' = MarkStopped(history)
  /\ runner' = "done"
  /\ UNCHANGED <<bus, shutdown, tasks, executor>>

Stop ==
  /\ runner = "closing" /\ executor = "idle"
  /\ history' = MarkStopped(history)
  /\ runner' = "done"
  /\ UNCHANGED <<bus, shutdown, tasks, executor>>

Run == Start \/ BeginStop \/ Gathered \/ Stop

\* Someone else sets the flag.
RequestShutdown ==
  /\ ~ shutdown
  /\ shutdown' = TRUE
  /\ UNCHANGED <<bus, history, runner, tasks, executor>>

-----------------------------------------------------------------------------
(* The training loop *)

Counted(c) == IF c > MaxCycles THEN c ELSE c + 1

\* What comes before the loop, and may raise: nobody hears of that.
Enter ==
  /\ training = "new"
  /\ training' \in {"head", "broken"}
  /\ UNCHANGED <<bus, history, shutdown, cycle, executor>>

\* A cycle begins with a step of the trainer.
BeginCycle ==
  /\ training = "head" /\ ~ shutdown /\ ~ Released
  /\ cycle' = Counted(cycle)
  /\ executor' = "busy"
  /\ training' = "step"
  /\ UNCHANGED <<bus, history, shutdown>>

Leave ==
  /\ training = "head" /\ shutdown
  /\ training' = "ended"
  /\ UNCHANGED <<bus, history, shutdown, cycle, executor>>

\* The step gave nothing: the cycle counts, and is not compared with the limit.
NoResult ==
  /\ training = "step" /\ executor = "idle"
  /\ training' = "pause"
  /\ UNCHANGED <<bus, history, shutdown, cycle, executor>>

\* The step gave a loss: metrics and snapshot, and the adaptations, which may be
\* another job of the executor.
Result ==
  /\ training = "step" /\ executor = "idle"
  /\ training' = "adapt"
  /\ executor' \in IF Released THEN {"idle"} ELSE {"idle", "busy"}
  /\ UNCHANGED <<bus, history, shutdown, cycle>>

Adapted ==
  /\ training = "adapt" /\ executor = "idle"
  /\ training' = "publish"
  /\ UNCHANGED <<bus, history, shutdown, cycle, executor>>

\* Mutant: the heartbeat does not wait.
HeartbeatNow ==
  /\ training = "publish"
  /\ queue' = Put(queue, "INFO", "event")
  /\ training' = "nap"
  /\ executor' \in IF Released THEN {"idle"} ELSE {"idle", "busy"}
  /\ UNCHANGED <<running, router, closer, history, shutdown, cycle>>

\* The heartbeat waits for its queue.  Now and then a validation follows, a job of
\* the executor whose failure is caught.
Heartbeat ==
  /\ training = "publish" /\ ~ Full(queue, "INFO")
  /\ queue' = Put(queue, "INFO", "event")
  /\ training' = "nap"
  /\ executor' \in IF Released THEN {"idle"} ELSE {"idle", "busy"}
  /\ UNCHANGED <<running, router, closer, history, shutdown, cycle>>

\* Mutant: the limit is met, not passed.
AtLimitOnly(c) == MaxCycles > 0 /\ c = MaxCycles

AtLimit(c) == MaxCycles > 0 /\ c >= MaxCycles

\* The end of a cycle, and of the loop if it was the last.
EndCycle ==
  /\ training = "nap" /\ executor = "idle"
  /\ IF AtLimit(cycle)
     THEN shutdown' = TRUE /\ training' = "ended"
     ELSE UNCHANGED shutdown /\ training' = "head"
  /\ UNCHANGED <<bus, history, cycle, executor>>

Resume ==
  /\ training = "pause"
  /\ training' = "head"
  /\ UNCHANGED <<bus, history, shutdown, cycle, executor>>

\* Whatever a cycle raises up to its heartbeat ends the loop, and the run.  An
\* executor that was released refuses the step.
Fail ==
  /\ \/ training = "head" /\ ~ shutdown
     \/ training \in {"step", "adapt"} /\ executor = "idle"
  /\ cycle' = IF training = "head" THEN Counted(cycle) ELSE cycle
  /\ history' = MarkDegraded(history)
  /\ shutdown' = TRUE
  /\ training' = "ended"
  /\ UNCHANGED <<bus, executor>>

CancelTraining ==
  /\ training \notin Over \union {"none"}
  /\ training' = "cancelled"
  /\ UNCHANGED <<bus, history, shutdown, cycle, executor>>

Train ==
  /\ Loop
  /\ IF Cancelled THEN CancelTraining
     ELSE \/ Enter \/ BeginCycle \/ Leave \/ NoResult \/ Result \/ Adapted
          \/ Heartbeat \/ EndCycle \/ Resume \/ Fail
  /\ UNCHANGED <<runner, vitals, alarms>>

\* The thread finishes its job, cancelled or not.
ExecutorEnds ==
  /\ executor = "busy"
  /\ executor' = "idle"
  /\ UNCHANGED <<bus, history, shutdown, runner, tasks>>

-----------------------------------------------------------------------------
(* The watch over the vitals *)

\* Memory and temperature, entropy, stability.
Alarms(hot, entropy, stability) == [i \in 1..hot |-> "CRITICAL"] \o entropy \o stability

Count(as, k, s) == Cardinality({j \in 1..k : as[j] = s})

\* The first k of the alarms find room.
Fit(as, k) ==
  \A s \in Severity : Count(as, k, s) = 0 \/ Len(queue[s]) + Count(as, k, s) <= Capacity

\* Alarms are published until a queue is full: there the watch waits.
Publish(as) ==
  \E k \in 0..Len(as) :
    /\ Fit(as, k) /\ (k < Len(as) => ~ Fit(as, k + 1))
    /\ queue' = [s \in Severity |-> queue[s] \o [i \in 1..Count(as, k, s) |-> "event"]]
    /\ alarms' = SubSeq(as, k + 1, Len(as))
    /\ vitals' = IF k = Len(as) THEN "nap" ELSE "publish"

Observe ==
  /\ vitals = "head" /\ ~ shutdown
  /\ \E hot \in 0..2, entropy \in {<<>>, <<"WARN">>}, stability \in {<<>>, <<"CRITICAL">>} :
       Publish(Alarms(hot, entropy, stability))

PublishRest ==
  /\ vitals = "publish" /\ ~ Full(queue, Head(alarms))
  /\ Publish(alarms)

EndNap ==
  /\ vitals = "nap"
  /\ vitals' = "head"
  /\ UNCHANGED <<queue, alarms>>

EndWatch ==
  /\ vitals = "head" /\ shutdown
  /\ vitals' = "ended"
  /\ UNCHANGED <<queue, alarms>>

CancelWatch ==
  /\ vitals \notin Over \union {"none"}
  /\ vitals' = "cancelled"
  /\ alarms' = <<>>
  /\ UNCHANGED queue

Watch ==
  /\ Loop
  /\ IF Cancelled THEN CancelWatch
     ELSE Observe \/ PublishRest \/ EndNap \/ EndWatch
  /\ UNCHANGED <<running, router, closer, history, shutdown, runner, training, cycle,
                 executor>>

-----------------------------------------------------------------------------
(* The bus, on the same event loop *)

rest == <<history, shutdown, runner, tasks, executor>>

RouteEvents == Loop /\ Route /\ UNCHANGED rest

BeginClose == Loop /\ CloseBegin /\ UNCHANGED rest

CloseBus == Loop /\ Close /\ UNCHANGED rest

Next ==
  \/ Run \/ Train \/ Watch \/ ExecutorEnds
  \/ RouteEvents \/ CloseBus
  \/ RequestShutdown \/ BeginClose

\* The event loop runs every task that is ready, and a job of the executor ends.
\* Nobody has to ask for a shutdown.
Fairness ==
  /\ WF_vars(Run) /\ WF_vars(Train) /\ WF_vars(Watch) /\ WF_vars(ExecutorEnds)
  /\ WF_vars(RouteEvents) /\ WF_vars(CloseBus)

Spec == Init /\ [][Next]_vars /\ Fairness

-----------------------------------------------------------------------------
(* Properties *)

\* The types.  No queue of the bus holds more than its capacity, whoever of the
\* training loop, the watch and a shutdown puts into it (asyncio.Queue(capacity)).
TypeOK ==
  /\ BusTypeOK
  /\ history \in Seq(LifecycleState) /\ history # <<>>
  /\ shutdown \in BOOLEAN
  /\ runner \in {"new", "waiting", "gathering", "closing", "done"}
  /\ training \in Training /\ cycle \in 0..(MaxCycles + 1)
  /\ vitals \in Vitals /\ alarms \in Seq(Severity)
  /\ (vitals = "publish") <=> (alarms # <<>>)
  /\ executor \in {"idle", "busy"}

\* A runner that says it has stopped left nothing behind: neither of its tasks runs,
\* and no job of the executor, not even the step whose loop was cancelled under it
\* (run_forever gathers its tasks and waits for the executor before it stops).
StoppedIsQuiet ==
  state = "STOPPED" => training \in Over /\ vitals \in Over /\ executor = "idle"

\* What the runner and the training loop do to the lifecycle is what a lifecycle
\* allows.
ImplementsLifecycle == LifecycleSpec

\* Once the flag is set the runtime stops, wherever its tasks are: in a step, asleep,
\* or waiting for room in a bus that was shut down and that nobody empties.
ShutdownCompletes == shutdown ~> state = "STOPPED"

\* No severity starves: what waits in a queue of a bus that runs is routed, however
\* fast the others are filled.
EveryEventIsRouted ==
  \A s \in Severity : queue[s] # <<>> ~> queue[s] = <<>> \/ ~ running \/ runner = "done"

\* A run with a limit whose steps go on giving losses ends by itself, whatever cycles
\* gave none and did not look at the limit.
BoundedRunEnds == MaxCycles > 0 /\ []<>(training = "adapt") => <>(state = "STOPPED")

\* A shutdown of the bus that found room for its sentinels returns (the one that
\* does not find it waits for a router that is gone).
BusCloses == closer = "join" ~> closer = "closed" \/ runner = "done"
=============================================================================
