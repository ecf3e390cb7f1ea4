----------------------------- MODULE RiskProcess -----------------------------
(***************************************************************************)
(* What the constitutional risk of a run promises (risk_process.py): a     *)
(* number per scope, "R_{t+1} = Gamma(R_t, dI, dPi, dV, dP, dM)", that     *)
(* each update moves from where the last one left it.  Runners come and    *)
(* go: nothing of them shows here.                                         *)
(***************************************************************************)
EXTENDS Integers

CONSTANTS
  Scopes,
  Impressions,   \* what episodes may show
  Prior,         \* the risk of a scope nothing is known of
  Gamma(_, _)    \* of a risk and an impression

VARIABLES
  risk,     \* per scope
  updates   \* per scope: how many there were

vars == <<risk, updates>>

Init ==
  /\ risk = [s \in Scopes |-> Prior]
  /\ updates = [s \in Scopes |-> 0]

Update(s, x) ==
  /\ risk' = [risk EXCEPT ![s] = Gamma(@, x)]
  /\ updates' = [updates EXCEPT ![s] = @ + 1]

Next == \E s \in Scopes, x \in Impressions : Update(s, x)

Spec == Init /\ [][Next]_vars
=============================================================================
