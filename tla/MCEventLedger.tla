---------------------------- MODULE MCEventLedger ----------------------------
(***************************************************************************)
(* Small instances of the event ledger.                                    *)
(***************************************************************************)
EXTENDS EventLedger

CONSTANTS p1, p2

OneProcess == {p1}
TwoProcesses == {p1, p2}
LegacyWithGap == {1, 3}
=============================================================================
