------------------------------ MODULE AppendLog ------------------------------
(***************************************************************************)
(* What the event ledger and its copy promise together: a log that only    *)
(* grows at its end, and a replica that takes over its events in order.    *)
(* An event is the number of its commit.                                   *)
(***************************************************************************)
EXTENDS Naturals

VARIABLES log, replica

Init == log \in SUBSET Nat /\ replica = {}

Append ==
  /\ \E e \in log' : log' = log \cup {e} /\ \A d \in log : d < e
  /\ UNCHANGED replica

Replicate ==
  \E e \in log :
    /\ \A d \in log : d < e => d \in replica
    /\ replica' = replica \cup {e}
    /\ UNCHANGED log

Spec == Init /\ [][Append \/ Replicate]_<<log, replica>>
=============================================================================
