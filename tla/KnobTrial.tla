------------------------------ MODULE KnobTrial ------------------------------
(***************************************************************************)
(* What autoevolution promises about the knobs of a runner.  They are      *)
(* tightened one step at a time, one trial at a time, and each trial is    *)
(* watched for a window of episodes; the knobs are otherwise only put back *)
(* to what they were: before the trial, at the last safe point, or at the  *)
(* start of a runner's life.  After a failure nothing is tried for a while.*)
(***************************************************************************)
EXTENDS Integers

CONSTANTS PostWindow,      \* episodes a trial is watched
          Cooldown         \* episodes without a trial after a failure

VARIABLES life,    \* the runners before this one
          knobs,   \* the values in force
          trial,   \* NoTrial, or the knobs before it and the episodes left
          safe,    \* Unsafe, or the knobs at the last safe point
          rest     \* episodes before the next trial may begin

vars == <<life, knobs, trial, safe, rest>>

Knobs == [limit : 1..3, cross : BOOLEAN]
NoTrial == [left |-> 0]
Unsafe == [safe |-> FALSE]

\* How a runner may start: the mode is the operator's choice.
Defaults == [limit : {3}, cross : BOOLEAN]

\* The single steps by which knobs are tightened.
Tightenings(k) ==
  {[k EXCEPT !.limit = l] : l \in {k.limit - 1} \ {0}}
    \cup {[k EXCEPT !.cross = c] : c \in {FALSE} \ {k.cross}}

Shorter == IF rest > 0 THEN rest - 1 ELSE 0

Init == /\ life = 0 /\ knobs \in Defaults /\ trial = NoTrial
        /\ safe = Unsafe /\ rest = 0

Try == /\ trial = NoTrial /\ rest = 0
       /\ knobs' \in Tightenings(knobs)
       /\ trial' = [knobs |-> knobs, left |-> PostWindow]
       /\ UNCHANGED <<life, safe, rest>>

Watch == /\ trial # NoTrial /\ trial.left > 1
         /\ trial' = [trial EXCEPT !.left = @ - 1]
         /\ UNCHANGED <<life, knobs, safe, rest>>

Keep == /\ trial # NoTrial /\ trial.left = 1
        /\ trial' = NoTrial
        /\ UNCHANGED <<life, knobs, safe, rest>>

Undo == /\ trial # NoTrial /\ trial.left = 1
        /\ knobs' = trial.knobs /\ trial' = NoTrial
        /\ rest' = Cooldown
        /\ UNCHANGED <<life, safe>>

\* The organism is in danger.
Recall == /\ knobs' = IF safe = Unsafe THEN knobs ELSE safe.knobs
          /\ trial' = NoTrial /\ rest' = Cooldown
          /\ UNCHANGED <<life, safe>>

MarkSafe == /\ trial = NoTrial
            /\ safe' = [safe |-> TRUE, knobs |-> knobs]
            /\ rest' = Shorter
            /\ UNCHANGED <<life, knobs, trial>>

\* An episode without a change: the pause runs down, or a new one begins.
Pause == /\ trial = NoTrial
         /\ \/ rest > 0 /\ rest' = rest - 1
            \/ rest = 0 /\ rest' \in {0, Cooldown}
         /\ UNCHANGED <<life, knobs, trial, safe>>

NewLife == /\ life' = life + 1
           /\ knobs' \in Defaults /\ trial' = NoTrial
           /\ safe' = Unsafe /\ rest' = 0

Next == Try \/ Watch \/ Keep \/ Undo \/ Recall \/ MarkSafe \/ Pause \/ NewLife

Spec == Init /\ [][Next]_vars
=============================================================================
