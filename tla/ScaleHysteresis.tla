--------------------------- MODULE ScaleHysteresis ---------------------------
(***************************************************************************)
(* What the controller promises about the scale, without its evidence,     *)
(* timers, phases and audit: a switch opens a hold during which the scale  *)
(* stays put, and a trial of another scale is answered (adopted or         *)
(* rejected) before anything else happens and is only begun out of hold.   *)
(***************************************************************************)
EXTENDS Integers

CONSTANTS Scale, Start, Holds, None

VARIABLES scale, hold, trial

switchVars == <<scale, hold, trial>>

Elapse(n) == IF n > 0 THEN n - 1 ELSE 0

Init ==
  /\ scale = Start
  /\ hold = 0
  /\ trial = None

Wait ==
  /\ trial = None
  /\ hold' = Elapse(hold)
  /\ UNCHANGED <<scale, trial>>

Switch(s) ==
  /\ trial = None
  /\ Elapse(hold) = 0
  /\ scale' = s
  /\ hold' \in Holds
  /\ UNCHANGED trial

BeginTrial(s) ==
  /\ trial = None
  /\ hold = 0
  /\ s # scale
  /\ trial' = s
  /\ UNCHANGED <<scale, hold>>

Adopt ==
  /\ trial # None
  /\ scale' = trial
  /\ hold' \in Holds
  /\ trial' = None

Reject ==
  /\ trial # None
  /\ trial' = None
  /\ UNCHANGED <<scale, hold>>

Next ==
  \/ Wait
  \/ Adopt
  \/ Reject
  \/ \E s \in Scale : Switch(s) \/ BeginTrial(s)

Spec == Init /\ [][Next]_switchVars
=============================================================================
