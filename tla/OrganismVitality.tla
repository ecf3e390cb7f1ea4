-------------------------- MODULE OrganismVitality --------------------------
(***************************************************************************)
(* What an episode does to the organism (TrajectoryStateMachine), and what *)
(* its constitution and its viability kernel say of the result.            *)
(*                                                                         *)
(* The scores of the code are decimals in [0, 1] with fixed coefficients;  *)
(* here they are integers in units of 1/100000 (drift: 1/10000), so that   *)
(* every sum is exact.  Of a belief the model keeps its composite          *)
(* confidence and the number of hard invariants it breaks.  The rounding   *)
(* of the margin to four digits before it is compared is left out.         *)
(***************************************************************************)
EXTENDS Integers

Whole == 100 * 1000
WholeDrift == 10 * 1000

\* An OrganismState; timestamp is the index of the episode that made it.
Organism == [count : Nat, timestamp : Nat, margin : 0..Whole,
             degradation : 0..Whole, debt : Nat, drift : 0..WholeDrift,
             belief : 0..Whole, breaches : 0..5]

\* What an episode shows: gap and shift in thousandths.
Experience == [belief : 0..Whole, breaches : 0..5, gap : Nat, shift : 0..1000]

Newborn == [count |-> 0, timestamp |-> 0, margin |-> Whole, degradation |-> 0,
            debt |-> 0, drift |-> 0, belief |-> 71500, breaches |-> 1]

Within(low, high, x) == IF x < low THEN low ELSE IF x > high THEN high ELSE x
Bit(b) == IF b THEN 1 ELSE 0

\* trajectory_factor, in thousandths.
Factor(e, retrieved) == Within(600, 1400, 1150 - e.gap - 30 * retrieved)

\* Degradation and debt of an episode that brought no certificate.
Ageing(retrieved) == 2000 + 200 * retrieved

Advance(s, e, retrieved, certified, now) ==
  LET f == Factor(e, retrieved) IN
  [count |-> s.count + 1,
   timestamp |-> now,
   margin |-> Within(0, Whole, s.margin + (IF certified THEN f ELSE -3 * f)),
   degradation |-> IF certified THEN s.degradation
                   ELSE Within(0, Whole, s.degradation + Ageing(retrieved)),
   debt |-> IF certified THEN Within(0, s.debt, s.debt - f)
            ELSE s.debt + Ageing(retrieved),
   drift |-> Within(0, WholeDrift, s.drift + (e.shift * f + 500) \div 1000),
   belief |-> e.belief,
   breaches |-> e.breaches]
-----------------------------------------------------------------------------
\* OrganismConstitution.validate
HardViolations(s) == s.breaches + Bit(s.degradation >= 80000)
SoftViolations(s) == Bit(s.drift > 5000) + Bit(s.drift > 6000)
                     + Bit(s.belief < 40000) + Bit(s.debt > 70000)

Verdict(s) == IF HardViolations(s) >= 3 THEN "rollback"
              ELSE IF HardViolations(s) > 0 THEN "quarantine" ELSE "valid"

\* ViabilityKernel.assess: the margin in units of 1/400000000.
ViabilityMargin(s) ==
  Within(0, 2000000, 6 * s.margin + 5 * s.belief
                     + 5 * (Whole - s.degradation) + 4 * (Whole - s.debt))
  * Within(0, 10, 10 - 3 * HardViolations(s))
  * Within(10, 20, 20 - SoftViolations(s))

Hundredths(n) == 4000000 * n

Viable(s) == s.margin > 0 /\ s.degradation < Whole

RollbackRequired(s) ==
  \/ Verdict(s) = "rollback"
  \/ ViabilityMargin(s) <= Hundredths(5)
  \/ ~Viable(s)

\* RecoveryPlan.quarantine_recommended, which the sandbox obeys.
QuarantineRecommended(s) ==
  \/ Verdict(s) = "quarantine"
  \/ ViabilityMargin(s) < Hundredths(15)
=============================================================================
