--------------------------- MODULE CertificateLife ---------------------------
(***************************************************************************)
(* What whoever reads the records of a run may rely on: an episode gets    *)
(* one verdict, which the court may lower until a decision stands on it;   *)
(* from then on nothing about the episode is taken back, and only what was *)
(* certified is remembered, only what was promoted becomes a rule.         *)
(***************************************************************************)
CONSTANT Episode

VARIABLES
  verdict,     \* per episode: "none", "certified" or "rejected"
  decision,    \* per episode: "none", "promote" or "reject"
  remembered,  \* episodes in the memory of the run
  rules        \* episodes at which a macro rule was written

vars == <<verdict, decision, remembered, rules>>

Init ==
  /\ verdict = [e \in Episode |-> "none"]
  /\ decision = [e \in Episode |-> "none"]
  /\ remembered = {} /\ rules = {}

Certify(e) ==
  /\ verdict[e] = "none"
  /\ \E v \in {"certified", "rejected"} : verdict' = [verdict EXCEPT ![e] = v]
  /\ UNCHANGED <<decision, remembered, rules>>

Overrule(e) ==
  /\ verdict[e] = "certified" /\ decision[e] = "none"
  /\ verdict' = [verdict EXCEPT ![e] = "rejected"]
  /\ UNCHANGED <<decision, remembered, rules>>

Decide(e) ==
  /\ verdict[e] # "none" /\ decision[e] = "none"
  /\ \E d \in {"promote", "reject"} :
       /\ d = "promote" => verdict[e] = "certified"
       /\ decision' = [decision EXCEPT ![e] = d]
  /\ UNCHANGED <<verdict, remembered, rules>>

Remember(e) ==
  /\ verdict[e] = "certified" /\ decision[e] # "none"
  /\ remembered' = remembered \cup {e}
  /\ UNCHANGED <<verdict, decision, rules>>

Generalise(e) ==
  /\ e \in remembered /\ decision[e] = "promote"
  /\ rules' = rules \cup {e}
  /\ UNCHANGED <<verdict, decision, remembered>>

Next == \E e \in Episode :
  Certify(e) \/ Overrule(e) \/ Decide(e) \/ Remember(e) \/ Generalise(e)

Spec == Init /\ [][Next]_vars
=============================================================================
