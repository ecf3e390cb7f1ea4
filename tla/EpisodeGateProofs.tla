------------------------- MODULE EpisodeGateProofs -------------------------
(***************************************************************************)
(* What is stored of an episode agrees at every moment, for any number of  *)
(* episodes, worlds, rulings and new runners; the gate implements the life *)
(* of a certificate; with a storage that lists the newest events no valid  *)
(* episode is rejected, however long the run; and the risk tracker's       *)
(* series is the newest part of the ledger of certificates, from where the *)
(* runner could read it on.                                                *)
(***************************************************************************)
EXTENDS EpisodeGate, FiniteSetTheorems, SequenceTheorems, TLAPS

Drafted == {"propose", "issue", "overrule", "decide", "micro", "meso", "macro"}

GateTypes ==
  /\ sovereign \in BOOLEAN
  /\ pc \in Label /\ scenario \in Scenarios
  /\ begun \in 0..Episodes /\ (pc # "idle" => begun >= 1)
  /\ shown \in [1..begun -> Shown]
  /\ events \in Seq(Event)
  /\ pc \in Drafted => draft \in Certificate
  /\ certificate \in [Episode -> Certificate \cup {Nothing}]
  /\ decision \in [Episode -> {"none", "promote", "reject"}]
  /\ micro \in SUBSET Episode /\ meso \in SUBSET Episode
  /\ macro \in [Episode -> Nat]

\* Nothing but a certificate is stored of an episode that waits for its decision,
\* and nothing at all before that.
Undecided(e) ==
  decision[e] = "none" /\ e \notin micro /\ e \notin meso /\ macro[e] = 0 /\ ~ Told(e)

Fresh(e) == certificate[e] = Nothing /\ Undecided(e)

\* How far the episode in the gate is.
InGate ==
  /\ \A e \in Episode : e > begun => Fresh(e)
  /\ pc \in {"assess", "propose", "issue"} => Fresh(begun)
  /\ pc \in Drafted => (draft.candidate => draft.verdict = "certified")
  /\ pc \in {"overrule", "decide"} => certificate[begun] = draft /\ Undecided(begun)
  /\ pc = "decide" /\ begun \in Blocked => draft.verdict = "rejected"
  /\ pc \in {"micro", "meso", "macro"} =>
       /\ certificate[begun] = draft /\ draft.verdict = "certified"
       /\ decision[begun] # "none" /\ macro[begun] = 0 /\ ~ Told(begun)
  /\ pc \in {"micro", "meso"} => begun \notin meso
  /\ pc = "meso" => begun \in micro
  /\ pc = "macro" => begun \in meso
  /\ pc = "report" => decision[begun] # "none" /\ (Certified(begun) => begun \in meso)

IInv == GateTypes /\ InGate /\ GateInv

\* A certificate is not the lack of one.
LEMMA CertificateIs ==
  \A c \in Certificate : c # Nothing /\ c.verdict \in {"certified", "rejected"}
                         /\ c.candidate \in BOOLEAN
<1>1. Nothing.verdict = "none"
  BY DEF Nothing
<1>2. \A c \in Certificate : c.verdict \in {"certified", "rejected"} /\ c.candidate \in BOOLEAN
  BY DEF Certificate
<1> QED
  BY <1>1, <1>2

\* What stands for no record has no verdict.
LEMMA NothingIs == Nothing.verdict = "none"
  BY DEF Nothing

\* What the builder writes is a certificate, and a candidate is certified.
LEMMA BuiltIs ==
  ASSUME GateTypes, begun >= 1
  PROVE  /\ Built(begun) \in Certificate
         /\ Built(begun).candidate => Built(begun).verdict = "certified"
<1> DEFINE i == shown[begun].impression
           traced == ClosedEventFound(begun) /\ i.form # "broken"
           closed == ClosedEventFound(begun) /\ i.form = "whole"
           ioc == Indicator(i.continuity, closed, traced)
<1>1. begun \in 1..begun /\ i.continuity \in 0..100
  BY DEF GateTypes, Shown, Impression
<1>2. ioc \in Nat
  <2>1. Bit(closed) \in {0, 1} /\ Bit(traced) \in {0, 1}
    BY DEF Bit
  <2> HIDE DEF closed, traced, i
  <2> QED
    BY <1>1, <2>1 DEF Indicator
<1> DEFINE promising == /\ closed /\ traced
                        /\ i.continuity >= 60 /\ ioc >= 7200
                        /\ RiskScore(i.continuity, ioc, traced) <= 45000
<1>3. Built(begun) = [verdict |-> IF closed /\ traced THEN "certified" ELSE "rejected",
                      candidate |-> promising, ioc |-> ioc]
  BY DEF Built
<1>4. promising \in BOOLEAN /\ (promising => closed /\ traced)
  OBVIOUS
<1> HIDE DEF promising, ioc, closed, traced, i
<1> QED
  BY <1>2, <1>3, <1>4 DEF Certificate

\* The ruling of the court leaves a certificate.
LEMMA RuledIs ==
  ASSUME NEW c \in Certificate, NEW r, c.candidate => c.verdict = "certified"
  PROVE  /\ Ruled(c, r) \in Certificate
         /\ Ruled(c, r).candidate => Ruled(c, r).verdict = "certified"
         /\ r = "blocked" => Ruled(c, r).verdict = "rejected"
         /\ r # "blocked" => Ruled(c, r).verdict = c.verdict
<1> DEFINE verdict == IF r = "blocked" THEN "rejected" ELSE c.verdict
           candidate == c.candidate /\ r = "free"
<1>1. Ruled(c, r) = [c EXCEPT !.verdict = verdict, !.candidate = candidate]
  BY DEF Ruled
<1>2. /\ c.ioc \in Nat /\ verdict \in {"certified", "rejected"}
      /\ candidate \in BOOLEAN
      /\ candidate => verdict = "certified"
      /\ r = "blocked" => verdict = "rejected"
      /\ r # "blocked" => verdict = c.verdict
  BY DEF Certificate
<1> HIDE DEF verdict, candidate
<1>3. Ruled(c, r) = [verdict |-> verdict, candidate |-> candidate, ioc |-> c.ioc]
  BY <1>1 DEF Certificate
<1> QED
  BY <1>2, <1>3 DEF Certificate

\* An event that is told is one more that was.
LEMMA TellIs ==
  ASSUME GateTypes, NEW type \in {"episode.closed", "proposal.evaluated",
                                  "promotion.decision", "reasoning.reward"},
         NEW d \in Episode, Tell(type, d)
  PROVE  /\ events' \in Seq(Event)
         /\ \A e \in Episode :
              Told(e)' <=> Told(e) \/ (type = "promotion.decision" /\ e = d)
<1> DEFINE x == [type |-> type, episode |-> d]
<1>1. x \in Event /\ events' = Append(events, x) /\ events \in Seq(Event)
  BY DEF Tell, Event, GateTypes
<1>2. Len(events') = Len(events) + 1 /\ events'[Len(events) + 1] = x
      /\ \A i \in 1..Len(events) : events'[i] = events[i]
  <2> HIDE DEF x
  <2> QED
    BY <1>1
<1>3. \A e \in Episode : x = [type |-> "promotion.decision", episode |-> e]
                         <=> type = "promotion.decision" /\ e = d
  OBVIOUS
<1> HIDE DEF x
<1>4. Len(events) \in Nat
  BY <1>1
<1>5. \A e \in Episode : Told(e)' => Told(e) \/ x = [type |-> "promotion.decision", episode |-> e]
  BY <1>2, <1>4 DEF Told
<1>6. \A e \in Episode : Told(e) \/ x = [type |-> "promotion.decision", episode |-> e] => Told(e)'
  BY <1>2, <1>4 DEF Told
<1> QED
  BY <1>1, <1>3, <1>5, <1>6

\* The records of a pattern are finitely many.
LEMMA PatternIs ==
  ASSUME GateTypes, NEW e \in Episode
  PROVE  Cardinality(Pattern(e)) \in Nat
<1>1. 1 \in Int /\ Episodes \in Int
  BY GateAssumption
<1>2. IsFiniteSet(1..Episodes)
  BY <1>1, FS_Interval
<1>3. Pattern(e) \subseteq 1..Episodes
  BY DEF Pattern, Listable, GateTypes, Episode
<1> QED
  BY <1>2, <1>3, FS_Subset, FS_CardinalityType
-----------------------------------------------------------------------------
(* What a step leaves alone.                                               *)

\* Without a new event nothing more is told.
LEMMA ToldStays ==
  ASSUME UNCHANGED events
  PROVE  \A e \in Episode : Told(e)' <=> Told(e)
  BY DEF Told

\* Between two episodes the court's objections stand.
LEMMA BlockedStays ==
  ASSUME UNCHANGED <<sovereign, begun, shown>>
  PROVE  Blocked' = Blocked
  BY DEF Blocked

\* What an episode repeats of earlier ones is in its memory and what it showed.
LEMMA PatternStays ==
  ASSUME UNCHANGED <<meso, shown>>
  PROVE  \A e \in Episode : Pattern(e)' = Pattern(e)
  BY DEF Pattern, Listable

\* A series that goes on leaves an impression an impression.
LEMMA ImpressionIs ==
  \A i \in Impression : Continuing(i) \in Impression
<1>1. \A i \in Impression : [i EXCEPT !.continuity = 100] \in Impression
  BY DEF Impression
<1> QED
  BY <1>1 DEF Continuing

\* The types are kept by every step.
LEMMA TypesKept ==
  ASSUME GateTypes, Next
  PROVE  GateTypes'
<1> USE DEF GateTypes, At, Goto, stored, memory, runner, Drafted, Label
<1>1. CASE Close
  <2>0. begun < Episodes /\ Tell("episode.closed", begun + 1)
    BY <1>1 DEF Close
  <2>1. begun + 1 \in Episode /\ events' \in Seq(Event)
    <3>1. begun \in 0..Episodes /\ events \in Seq(Event) /\ Episodes \in Nat
      BY GateAssumption
    <3>2. begun + 1 \in Episode
      BY <2>0, <3>1 DEF Episode
    <3>3. events' \in Seq(Event)
      BY <2>0, <3>1, <3>2, TellIs
    <3> QED
      BY <3>2, <3>3
  <2>2. shown' \in [1..begun + 1 -> Shown]
    <3>1. PICK i \in Impressions :
            shown' = [e \in 1..begun + 1 |->
              IF e = begun + 1
              THEN [scenario |-> scenario, impression |-> Continuing(i)]
              ELSE shown[e]]
      BY <1>1 DEF Close
    <3>2. Continuing(i) \in Impression
      BY ImpressionIs, GateAssumption
    <3>3. [scenario |-> scenario, impression |-> Continuing(i)] \in Shown
      BY <3>2 DEF Shown
    <3>4. \A e \in 1..begun + 1 : e # begun + 1 => shown[e] \in Shown
      OBVIOUS
    <3>5. \A e \in 1..begun + 1 :
            (IF e = begun + 1
             THEN [scenario |-> scenario, impression |-> Continuing(i)]
             ELSE shown[e]) \in Shown
      BY <3>3, <3>4
    <3> QED
      BY <3>1, <3>5
  <2> QED
    BY <1>1, <2>1, <2>2 DEF Close, Episode
<1>2. CASE Assess
  BY <1>2, BuiltIs DEF Assess
<1>3. CASE Propose
  BY <1>3, TellIs DEF Propose, Episode
<1>4. CASE Issue
  BY <1>4 DEF Issue
<1>5. CASE Overrule
  <2>1. draft \in Certificate
    BY <1>5 DEF Overrule
  <2>2. Ruled(draft, shown[begun].impression.ruling) \in Certificate
    BY <2>1 DEF Ruled, Certificate
  <2> QED
    BY <1>5, <2>1, <2>2 DEF Overrule
<1>6. CASE Decide
  BY <1>6 DEF Decide
<1>7. CASE WriteMicro
  BY <1>7 DEF WriteMicro, Episode
<1>8. CASE WriteMeso
  BY <1>8 DEF WriteMeso, Episode
<1>9. CASE WriteMacro
  BY <1>9, PatternIs DEF WriteMacro, Episode
<1>10. CASE Report
  BY <1>10, TellIs DEF Report, Episode
<1>11. CASE Reward
  BY <1>11, TellIs DEF Reward, Episode
<1>12. CASE Replace
  BY <1>12 DEF Replace
<1> QED
  BY <1>1, <1>2, <1>3, <1>4, <1>5, <1>6, <1>7, <1>8, <1>9, <1>10, <1>11, <1>12 DEF Next
-----------------------------------------------------------------------------
(* One lemma per action: nothing about an episode that is on record gets   *)
(* out of step with the rest.                                              *)

\* A new episode has nothing on record, and disturbs nothing that is.
LEMMA CloseKeeps ==
  ASSUME IInv, Close
  PROVE  InGate' /\ GateInv'
<1>1. /\ begun' = begun + 1 /\ pc' = "assess" /\ begun + 1 \in Episode
      /\ UNCHANGED <<sovereign, certificate, decision, micro, meso, macro>>
      /\ Tell("episode.closed", begun + 1)
  BY GateAssumption DEF Close, IInv, GateTypes, memory, Episode
<1>2. \A e \in Episode : Told(e)' <=> Told(e)
  BY <1>1, TellIs DEF IInv
<1>3. \A e \in Episode : Fresh(e)' <=> Fresh(e)
  BY <1>1, <1>2 DEF Fresh, Undecided
<1>4. begun \in Nat /\ \A e \in 1..begun : shown'[e] = shown[e]
  BY DEF Close, IInv, GateTypes
<1>5. \A e \in Episode : e \in meso \/ macro[e] # 0 \/ certificate[e] # Nothing => e \in 1..begun
  BY <1>4 DEF IInv, InGate, Fresh, Undecided, Episode
<1>6. \A e \in 1..begun : Pattern(e)' = Pattern(e)
  <2>1. meso \subseteq 1..begun /\ meso' = meso
    BY <1>1, <1>5 DEF IInv, GateTypes
  <2> QED
    BY <2>1, <1>4 DEF Pattern, Listable
<1>7. \A e \in 1..begun : e \in Blocked' <=> e \in Blocked
  BY <1>1, <1>4 DEF Blocked
<1>8. InGate'
  <2>1. \A e \in Episode : e > begun => Fresh(e)
    BY DEF IInv, InGate
  <2>2. \A e \in Episode : e > begun' => Fresh(e)'
    BY <1>1, <1>3, <1>4, <2>1 DEF Episode
  <2>3. \A e \in Episode : e = begun' => Fresh(e)'
    BY <1>1, <1>3, <1>4, <2>1
  <2>4. Fresh(begun)'
    BY <1>1, <2>3 DEF Fresh, Undecided, Told
  <2> QED
    BY <1>1, <2>2, <2>4 DEF InGate, Drafted, Fresh
<1>9. RulingStands'
  <2>1. Blocked' \subseteq Episode /\ \A e \in Episode : Certified(e)' <=> Certified(e)
    BY <1>1, <1>4, GateAssumption DEF Blocked, Certified, Episode
  <2>2. \A e \in Blocked' : Certified(e) => e \in Blocked
    BY <1>5, <1>7, <2>1, NothingIs DEF Certified
  <2> QED
    BY <1>1, <1>2, <2>1, <2>2 DEF RulingStands, IInv, GateInv
<1>10. DecisionOnRecord' /\ ToldIsStored'
  BY <1>1, <1>2 DEF DecisionOnRecord, ToldIsStored, IInv, GateInv, Certified
<1>11. MemoryOnRecord'
  BY <1>1, <1>5, <1>6 DEF MemoryOnRecord, IInv, GateInv, Certified, Episode
<1> QED
  BY <1>8, <1>9, <1>10, <1>11 DEF GateInv

\* The steps that write nothing but an event, or nothing at all.
LEMMA QuietKeeps ==
  ASSUME IInv, Assess \/ Propose \/ Report \/ Reward \/ Replace
  PROVE  InGate' /\ GateInv'
<1>1. UNCHANGED <<sovereign, begun, shown, certificate, decision, micro, meso, macro>>
  BY DEF Assess, Propose, Report, Reward, Replace, Goto, stored, memory
<1>2. begun \in Nat /\ (pc # "idle" => begun \in Episode)
  BY DEF IInv, GateTypes, Episode
<1>3. \A e \in Episode : Told(e)' <=> Told(e) \/ (Report /\ e = begun)
  <2>1. CASE Assess \/ Replace
    BY <2>1, ToldStays DEF Assess, Replace, stored, Report, At, Goto
  <2>2. CASE Propose \/ Reward
    <3>1. ~ Report /\ begun \in Episode
      BY <1>2, <2>2 DEF Propose, Reward, Report, At
    <3>2. PICK type \in {"proposal.evaluated", "reasoning.reward"} : Tell(type, begun)
      BY <2>2 DEF Propose, Reward
    <3>3. \A e \in Episode :
            Told(e)' <=> Told(e) \/ (type = "promotion.decision" /\ e = begun)
      BY <3>1, <3>2, TellIs DEF IInv
    <3> QED
      BY <3>1, <3>3
  <2>3. CASE Report
    BY <1>2, <2>3, TellIs DEF Report, At, IInv
  <2> QED
    BY <2>1, <2>2, <2>3
<1>4. \A e \in Episode : ~ Report \/ e # begun => (Fresh(e)' <=> Fresh(e))
  BY <1>1, <1>3 DEF Fresh, Undecided
<1>5. Blocked' = Blocked /\ \A e \in Episode : Pattern(e)' = Pattern(e) /\ (Certified(e)' <=> Certified(e))
  BY <1>1, BlockedStays, PatternStays DEF Certified
<1>6. Report => pc = "report" /\ decision[begun] # "none" /\ (Certified(begun) => begun \in meso)
  BY DEF Report, At, IInv, InGate
<1>7. Blocked \subseteq Episode
  BY GateAssumption DEF Blocked, IInv, GateTypes, Episode
<1>8. InGate'
  <2>1. \A e \in Episode : e > begun' => Fresh(e)'
    BY <1>1, <1>2, <1>4 DEF IInv, InGate, Episode
  <2>2. CASE Assess
    <3>1. draft'.candidate => draft'.verdict = "certified"
      BY <2>2, BuiltIs DEF Assess, At, IInv, GateTypes
    <3>2. pc' = "propose" /\ Fresh(begun)
      BY <2>2 DEF Assess, At, Goto, IInv, InGate
    <3>3. Fresh(begun)'
      BY <1>1, <2>2, <3>2 DEF Assess, stored, Fresh, Undecided, Told
    <3> QED
      BY <2>1, <3>1, <3>2, <3>3 DEF InGate, Drafted
  <2>3. CASE Propose
    <3>1. pc' = "issue" /\ pc = "propose" /\ draft' = draft /\ Fresh(begun)
      BY <2>3 DEF Propose, At, Goto, IInv, InGate
    <3>2. \A e \in Episode : e = begun' => Fresh(e)'
      BY <1>1, <1>4, <2>3, <3>1 DEF Propose, Report, At
    <3>3. Fresh(begun)'
      BY <1>1, <1>2, <3>1, <3>2 DEF Fresh, Undecided, Told
    <3> QED
      BY <2>1, <3>1, <3>3 DEF InGate, Drafted, IInv
  <2>4. CASE Report \/ Reward \/ Replace
    <3>1. pc' \in {"reward", "idle"}
      BY <2>4 DEF Report, Reward, Replace, Goto
    <3> QED
      BY <2>1, <3>1 DEF InGate, Drafted
  <2> QED
    BY <2>2, <2>3, <2>4
<1>9. RulingStands'
  BY <1>1, <1>3, <1>5, <1>6, <1>7 DEF RulingStands, IInv, GateInv
<1>10. DecisionOnRecord' /\ ToldIsStored'
  BY <1>1, <1>3, <1>5, <1>6 DEF DecisionOnRecord, ToldIsStored, IInv, GateInv
<1>11. MemoryOnRecord'
  BY <1>1, <1>5 DEF MemoryOnRecord, IInv, GateInv, GateTypes
<1> QED
  BY <1>8, <1>9, <1>10, <1>11 DEF GateInv

\* The certificate and the court's second write of it: nothing else about
\* the episode is stored yet.
LEMMA CertificateKeeps ==
  ASSUME IInv, Issue \/ Overrule
  PROVE  InGate' /\ GateInv'
<1>1. /\ UNCHANGED <<sovereign, begun, shown, events, decision, micro, meso, macro>>
      /\ certificate' = [certificate EXCEPT ![begun] = draft']
  BY DEF Issue, Overrule, Goto, memory
<1>2. begun \in Episode /\ begun \in Nat /\ draft \in Certificate /\ Undecided(begun)
      /\ (draft.candidate => draft.verdict = "certified")
  BY DEF Issue, Overrule, At, IInv, GateTypes, InGate, Drafted, Fresh, Episode
<1>3. /\ draft' \in Certificate
      /\ draft'.candidate => draft'.verdict = "certified"
      /\ pc' = "overrule" \/ (pc' = "decide" /\ (begun \in Blocked => draft'.verdict = "rejected"))
  <2>1. CASE Issue
    BY <1>2, <2>1 DEF Issue, Goto
  <2>2. CASE Overrule
    <3>1. draft' = IF sovereign THEN Ruled(draft, shown[begun].impression.ruling) ELSE draft
      BY <2>2 DEF Overrule
    <3>2. pc' = "decide"
      BY <2>2 DEF Overrule, Goto
    <3> QED
      BY <1>2, <3>1, <3>2, RuledIs DEF Blocked
  <2> QED
    BY <2>1, <2>2
<1>4. /\ certificate'[begun] = draft'
      /\ \A e \in Episode : e # begun => certificate'[e] = certificate[e]
  BY <1>1, <1>2 DEF IInv, GateTypes
<1>5. Blocked' = Blocked /\ \A e \in Episode : Pattern(e)' = Pattern(e) /\ (Told(e)' <=> Told(e))
  BY <1>1, BlockedStays, PatternStays, ToldStays
<1>6. Blocked \subseteq Episode
  BY GateAssumption DEF Blocked, IInv, GateTypes, Episode
<1>7. \A e \in Episode : e # begun => (Certified(e)' <=> Certified(e))
  BY <1>4 DEF Certified
<1>8. InGate'
  <2>1. \A e \in Episode : e > begun' => Fresh(e)'
    BY <1>1, <1>2, <1>4, <1>5 DEF IInv, InGate, Fresh, Undecided
  <2>2. Undecided(begun)' /\ certificate'[begun'] = draft'
    BY <1>1, <1>2, <1>4 DEF Undecided, Told
  <2> QED
    BY <1>1, <1>3, <1>5, <2>1, <2>2 DEF InGate, Drafted
<1>9. RulingStands'
  BY <1>1, <1>2, <1>5, <1>6, <1>7 DEF RulingStands, IInv, GateInv, Undecided
<1>10. DecisionOnRecord' /\ ToldIsStored'
  BY <1>1, <1>2, <1>4, <1>5, <1>7 DEF DecisionOnRecord, ToldIsStored, IInv, GateInv, Undecided
<1>11. MemoryOnRecord'
  BY <1>1, <1>2, <1>5, <1>7 DEF MemoryOnRecord, IInv, GateInv, GateTypes, Undecided
<1> QED
  BY <1>8, <1>9, <1>10, <1>11 DEF GateInv

\* The decision says what the certificate on record says.
LEMMA DecideKeeps ==
  ASSUME IInv, Decide
  PROVE  InGate' /\ GateInv'
<1>1. /\ UNCHANGED <<sovereign, begun, shown, draft, events, certificate, micro, meso, macro>>
      /\ decision' = [decision EXCEPT ![begun] = IF draft.candidate THEN "promote" ELSE "reject"]
      /\ pc' = IF draft.verdict = "certified" THEN "micro" ELSE "report"
  BY DEF Decide, Goto, memory
<1>2. /\ begun \in Episode /\ begun \in Nat /\ Undecided(begun)
      /\ draft \in Certificate /\ certificate[begun] = draft
      /\ draft.candidate => draft.verdict = "certified"
      /\ begun \in Blocked => draft.verdict = "rejected"
  BY DEF Decide, At, IInv, GateTypes, InGate, Drafted, Episode
<1>3. /\ decision'[begun] = IF draft.candidate THEN "promote" ELSE "reject"
      /\ \A e \in Episode : e # begun => decision'[e] = decision[e]
  BY <1>1, <1>2 DEF IInv, GateTypes
<1>4. Blocked' = Blocked /\ \A e \in Episode : Pattern(e)' = Pattern(e) /\ (Told(e)' <=> Told(e))
                                             /\ (Certified(e)' <=> Certified(e))
  BY <1>1, BlockedStays, PatternStays, ToldStays DEF Certified
<1>5. Blocked \subseteq Episode
  BY GateAssumption DEF Blocked, IInv, GateTypes, Episode
<1>6. InGate'
  <2>1. \A e \in Episode : e > begun' => Fresh(e)'
    BY <1>1, <1>2, <1>3, <1>4 DEF IInv, InGate, Fresh, Undecided
  <2>2. ~ Told(begun)' /\ decision'[begun'] # "none" /\ macro'[begun'] = 0 /\ begun' \notin meso'
        /\ (Certified(begun)' <=> draft'.verdict = "certified")
    BY <1>1, <1>2, <1>3 DEF Undecided, Told, Certified
  <2> QED
    BY <1>1, <1>2, <2>1, <2>2 DEF InGate, Drafted
<1>7. RulingStands'
  BY <1>1, <1>2, <1>3, <1>4, <1>5 DEF RulingStands, IInv, GateInv, Certified
<1>8. DecisionOnRecord' /\ ToldIsStored'
  BY <1>1, <1>2, <1>3, <1>4, CertificateIs DEF DecisionOnRecord, ToldIsStored, IInv, GateInv, Undecided
<1>9. MemoryOnRecord'
  <2>1. meso' \subseteq micro'
    BY <1>1 DEF MemoryOnRecord, IInv, GateInv
  <2>2. ASSUME NEW e \in micro' PROVE Certified(e)' /\ decision'[e] # "none"
    <3>1. e \in Episode /\ e \in micro /\ Certified(e) /\ decision[e] # "none"
      BY <1>1, <2>2 DEF MemoryOnRecord, IInv, GateInv, GateTypes
    <3> QED
      BY <1>2, <1>3, <1>4, <3>1 DEF Undecided
  <2>3. ASSUME NEW e \in Episode, macro'[e] # 0
        PROVE  /\ e \in meso' /\ decision'[e] = "promote"
               /\ Support <= macro'[e]
               /\ macro'[e] = Cardinality(Pattern(e)')
    <3>1. /\ e \in meso /\ decision[e] = "promote" /\ Support <= macro[e]
          /\ macro[e] = Cardinality(Pattern(e))
      BY <1>1, <2>3 DEF MemoryOnRecord, IInv, GateInv
    <3>2. e # begun
      BY <1>1, <1>2, <2>3 DEF Undecided
    <3> QED
      BY <1>1, <1>3, <1>4, <3>1, <3>2
  <2> QED
    BY <2>1, <2>2, <2>3 DEF MemoryOnRecord
<1> QED
  BY <1>6, <1>7, <1>8, <1>9 DEF GateInv

\* What goes into the memory of the run was certified and decided.
LEMMA MemoryKeeps ==
  ASSUME IInv, WriteMicro \/ WriteMeso
  PROVE  InGate' /\ GateInv'
<1>1. /\ UNCHANGED <<sovereign, begun, shown, draft, events, certificate, decision, macro>>
      /\ \/ pc' = "meso" /\ micro' = micro \cup {begun} /\ meso' = meso
         \/ /\ pc = "meso" /\ pc' = "macro"
            /\ micro' = micro /\ meso' = meso \cup {begun}
  BY DEF WriteMicro, WriteMeso, At, Goto
<1>2. /\ begun \in Episode /\ begun \in Nat
      /\ draft \in Certificate /\ certificate[begun] = draft
      /\ draft.verdict = "certified" /\ draft.candidate \in BOOLEAN
      /\ decision[begun] # "none" /\ macro[begun] = 0 /\ ~ Told(begun)
      /\ begun \notin meso /\ (pc = "meso" => begun \in micro)
  BY CertificateIs
     DEF WriteMicro, WriteMeso, At, IInv, GateTypes, InGate, Drafted, Episode
<1>3. Blocked' = Blocked /\ \A e \in Episode : (Told(e)' <=> Told(e)) /\ (Certified(e)' <=> Certified(e))
  BY <1>1, BlockedStays, ToldStays DEF Certified
<1>4. Blocked \subseteq Episode /\ Certified(begun) /\ begun \notin Blocked
  <2>1. Blocked \subseteq Episode /\ Certified(begun)
    BY <1>2, GateAssumption DEF Blocked, IInv, GateTypes, Episode, Certified
  <2> QED
    BY <1>2, <2>1 DEF IInv, GateInv, RulingStands
<1>5. \A e \in Episode : macro[e] # 0 => e \in 1..begun /\ e # begun
  <2>1. \A e \in Episode : e > begun => macro[e] = 0
    BY DEF IInv, InGate, Fresh, Undecided
  <2> QED
    BY <1>2, <2>1 DEF Episode
<1>6. \A e \in Episode : macro[e] # 0 => Pattern(e)' = Pattern(e)
  <2> SUFFICES ASSUME NEW e \in Episode, macro[e] # 0
               PROVE  Pattern(e)' = Pattern(e)
    OBVIOUS
  <2>1. ~ (begun <= e)
    BY <1>2, <1>5
  <2>2. ASSUME NEW m
        PROVE  {n \in meso' : m < n /\ n <= e} = {n \in meso : m < n /\ n <= e}
    BY <1>1, <2>1
  <2>3. Listable(e)' = Listable(e)
    BY <1>1, <2>1, <2>2 DEF Listable
  <2> QED
    BY <1>1, <2>3 DEF Pattern
<1>7. InGate'
  <2>1. \A e \in Episode : e > begun' => Fresh(e)'
    BY <1>1, <1>2, <1>3 DEF IInv, InGate, Fresh, Undecided
  <2>2. ~ Told(begun)'
    BY <1>1, <1>2 DEF Told
  <2> QED
    BY <1>1, <1>2, <2>1, <2>2 DEF InGate, Drafted
<1>8. RulingStands'
  BY <1>1, <1>3, <1>4 DEF RulingStands, IInv, GateInv
<1>9. DecisionOnRecord' /\ ToldIsStored'
  BY <1>1, <1>3 DEF DecisionOnRecord, ToldIsStored, IInv, GateInv
<1>10. MemoryOnRecord'
  <2>1. meso' \subseteq micro' /\ \A e \in micro' : Certified(e)' /\ decision'[e] # "none"
    BY <1>1, <1>2, <1>3, <1>4 DEF MemoryOnRecord, IInv, GateInv, GateTypes
  <2>2. \A e \in Episode : macro'[e] # 0 =>
          /\ e \in meso' /\ decision'[e] = "promote"
          /\ Support <= macro'[e]
          /\ macro'[e] = Cardinality(Pattern(e)')
    BY <1>1, <1>6 DEF MemoryOnRecord, IInv, GateInv
  <2> QED
    BY <2>1, <2>2 DEF MemoryOnRecord
<1> QED
  BY <1>7, <1>8, <1>9, <1>10 DEF GateInv

\* A rule is made of the records there are of its pattern.
LEMMA MacroKeeps ==
  ASSUME IInv, WriteMacro
  PROVE  InGate' /\ GateInv'
<1>1. /\ UNCHANGED <<sovereign, begun, shown, draft, events, certificate, decision, micro, meso>>
      /\ pc' = "report"
      /\ macro' = IF draft.candidate /\ ShouldPromote(Pattern(begun))
                  THEN [macro EXCEPT ![begun] = Cardinality(Pattern(begun))]
                  ELSE macro
  BY DEF WriteMacro, Goto
<1>2. /\ begun \in Episode /\ begun \in Nat /\ certificate[begun] = draft
      /\ draft.verdict = "certified" /\ decision[begun] # "none"
      /\ macro[begun] = 0 /\ ~ Told(begun) /\ begun \in meso
  BY DEF WriteMacro, At, IInv, GateTypes, InGate, Episode
<1>3. /\ Blocked' = Blocked
      /\ \A e \in Episode : /\ Pattern(e)' = Pattern(e) /\ (Told(e)' <=> Told(e))
                           /\ (Certified(e)' <=> Certified(e))
  BY <1>1, BlockedStays, PatternStays, ToldStays DEF Certified
<1>4. Blocked \subseteq Episode /\ Certified(begun) /\ begun \notin Blocked
  <2>1. Blocked \subseteq Episode /\ Certified(begun)
    BY <1>2, GateAssumption DEF Blocked, IInv, GateTypes, Episode, Certified
  <2> QED
    BY <1>2, <2>1 DEF IInv, GateInv, RulingStands
<1>5. /\ \A e \in Episode : e # begun => macro'[e] = macro[e]
      /\ macro'[begun] # 0 =>
           /\ decision[begun] = "promote"
           /\ Support <= macro'[begun]
           /\ macro'[begun] = Cardinality(Pattern(begun))
  <2>1. CASE draft.candidate /\ ShouldPromote(Pattern(begun))
    <3>1. Support <= Cardinality(Pattern(begun))
      <4>1. Cardinality(Pattern(begun)) >= Support
        BY <2>1 DEF ShouldPromote
      <4> QED
        BY <1>2, <4>1, PatternIs, GateAssumption DEF IInv
    <3>2. decision[begun] = "promote"
      BY <1>2, <2>1 DEF IInv, GateInv, DecisionOnRecord
    <3> QED
      BY <1>1, <1>2, <2>1, <3>1, <3>2 DEF IInv, GateTypes
  <2>2. CASE ~ (draft.candidate /\ ShouldPromote(Pattern(begun)))
    BY <1>1, <1>2, <2>2
  <2> QED
    BY <2>1, <2>2
<1>6. InGate'
  <2>1. \A e \in Episode : e > begun' => Fresh(e)'
    BY <1>1, <1>2, <1>3, <1>5 DEF IInv, InGate, Fresh, Undecided
  <2> QED
    BY <1>1, <1>2, <2>1 DEF InGate, Drafted
<1>7. RulingStands'
  BY <1>1, <1>3, <1>4, <1>5 DEF RulingStands, IInv, GateInv
<1>8. DecisionOnRecord' /\ ToldIsStored'
  BY <1>1, <1>3 DEF DecisionOnRecord, ToldIsStored, IInv, GateInv
<1>9. MemoryOnRecord'
  <2>1. meso' \subseteq micro' /\ \A e \in micro' : Certified(e)' /\ decision'[e] # "none"
    BY <1>1, <1>3 DEF MemoryOnRecord, IInv, GateInv, GateTypes
  <2>2. \A e \in Episode : macro'[e] # 0 =>
          /\ e \in meso' /\ decision'[e] = "promote"
          /\ Support <= macro'[e]
          /\ macro'[e] = Cardinality(Pattern(e)')
    BY <1>1, <1>2, <1>3, <1>5 DEF MemoryOnRecord, IInv, GateInv
  <2> QED
    BY <2>1, <2>2 DEF MemoryOnRecord
<1> QED
  BY <1>6, <1>7, <1>8, <1>9 DEF GateInv
-----------------------------------------------------------------------------
(* The theorems.                                                           *)

\* At the start there is nothing to agree.
LEMMA StartsRight == Init => IInv
<1> SUFFICES ASSUME Init PROVE IInv
  OBVIOUS
<1>1. GateTypes
  <2>1. shown \in [1..begun -> Shown]
    <3>1. begun = 0 /\ 1..0 = {} /\ shown = [e \in {} |-> 0]
      BY DEF Init
    <3> QED
      BY <3>1
  <2>2. begun \in 0..Episodes
    BY GateAssumption DEF Init
  <2> QED
    BY <2>1, <2>2 DEF Init, GateTypes, Label, Drafted
<1>2. \A e \in Episode : Fresh(e) /\ ~ Certified(e)
  BY NothingIs DEF Init, Fresh, Undecided, Told, Certified
<1>3. Blocked = {}
  BY DEF Init, Blocked
<1> QED
  BY <1>1, <1>2, <1>3
     DEF Init, IInv, InGate, GateInv, RulingStands, DecisionOnRecord, MemoryOnRecord,
         ToldIsStored, Drafted, Fresh, Undecided

\* Every step of the gate and every new runner keep the invariant.
LEMMA StaysRight == IInv /\ [Next]_vars => IInv'
<1> SUFFICES ASSUME IInv, [Next]_vars PROVE IInv'
  OBVIOUS
<1>1. CASE Next
  <2>1. GateTypes'
    BY <1>1, TypesKept DEF IInv
  <2>2. InGate' /\ GateInv'
    BY <1>1, CloseKeeps, QuietKeeps, CertificateKeeps, DecideKeeps, MemoryKeeps, MacroKeeps DEF Next
  <2> QED
    BY <2>1, <2>2 DEF IInv
<1>2. CASE UNCHANGED vars
  <2>1. GateTypes' /\ Blocked' = Blocked
    BY <1>2 DEF IInv, GateTypes, vars, runner, stored, memory, Blocked
  <2>2. \A e \in Episode : Pattern(e)' = Pattern(e) /\ (Told(e)' <=> Told(e))
    BY <1>2, PatternStays, ToldStays DEF vars, stored, memory
  <2>3. InGate'
    BY <1>2 DEF IInv, InGate, vars, runner, stored, memory, Fresh, Undecided, Told, Certified, Blocked
  <2>4. GateInv'
    BY <1>2, <2>1, <2>2
       DEF IInv, GateInv, vars, stored, memory, RulingStands, DecisionOnRecord,
           MemoryOnRecord, ToldIsStored, Certified, Told
  <2> QED
    BY <2>1, <2>3, <2>4 DEF IInv
<1> QED
  BY <1>1, <1>2

\* For any number of episodes, worlds and rulings, and wherever runners stop:
\* certificate, decision, memory, rules and events of an episode agree, and
\* nothing follows from a certificate that the court blocked
\* (promotion_gate.py:232 and on).
THEOREM Gate == Spec => []GateInv
<1>1. IInv => GateInv
  BY DEF IInv
<1> QED
  BY <1>1, StartsRight, StaysRight, PTL DEF Spec

Verdict == [e \in Episode |-> certificate[e].verdict]
Rules == {e \in Episode : macro[e] # 0}

\* A step writes a verdict, lowers it, decides, remembers or makes a rule of
\* the episode in the gate, or whoever reads the records sees nothing of it.
LEMMA StepOfLife == IInv /\ [Next]_vars => [Life!Next]_(Life!vars)
<1> SUFFICES ASSUME IInv, [Next]_vars PROVE Life!Next \/ UNCHANGED Life!vars
  OBVIOUS
<1>1. UNCHANGED <<Verdict, decision, meso, Rules>> => UNCHANGED Life!vars
  BY DEF Life!vars, Verdict, Rules
<1>2. CASE UNCHANGED <<certificate, decision, meso, macro>>
  <2>1. Verdict' = Verdict /\ Rules' = Rules
    BY <1>2 DEF Verdict, Rules
  <2> QED
    BY <1>1, <1>2, <2>1
<1>3. Issue \/ Overrule \/ Decide \/ WriteMeso \/ WriteMacro => begun \in Episode
  BY DEF Issue, Overrule, Decide, WriteMeso, WriteMacro, At, IInv, GateTypes, Episode
<1>4. CASE Issue
  <2>0. PICK d \in Episode : d = begun
    BY <1>3, <1>4
  <2>1. /\ UNCHANGED <<decision, meso, macro>>
        /\ certificate' = [certificate EXCEPT ![begun] = draft]
        /\ begun \in Episode /\ draft \in Certificate
        /\ certificate[begun] = Nothing
    BY <1>4 DEF Issue, memory, At, Drafted, IInv, GateTypes, InGate, Fresh, Episode
  <2>2. draft.verdict \in {"certified", "rejected"} /\ Verdict[begun] = "none"
    BY <2>1, CertificateIs, NothingIs DEF Verdict
  <2>3. Verdict' = [Verdict EXCEPT ![begun] = draft.verdict] /\ Rules' = Rules
    BY <2>1 DEF Verdict, Rules, IInv, GateTypes
  <2>4. Life!Certify(d)
    BY <2>0, <2>1, <2>2, <2>3 DEF Life!Certify, Verdict, Rules
  <2> QED
    BY <2>4 DEF Life!Next
<1>5. CASE Overrule
  <2>0. PICK d \in Episode : d = begun
    BY <1>3, <1>5
  <2>1. /\ UNCHANGED <<decision, meso, macro>>
        /\ certificate' = [certificate EXCEPT ![begun] = draft']
        /\ draft' = IF sovereign THEN Ruled(draft, shown[begun].impression.ruling) ELSE draft
        /\ begun \in Episode /\ draft \in Certificate
        /\ certificate[begun] = draft /\ decision[begun] = "none"
        /\ draft.candidate => draft.verdict = "certified"
    BY <1>5 DEF Overrule, memory, At, Drafted, IInv, GateTypes, InGate, Undecided, Episode
  <2>2. /\ Verdict[begun] = draft.verdict /\ draft.verdict \in {"certified", "rejected"}
        /\ draft'.verdict \in {draft.verdict, "rejected"}
    BY <2>1, CertificateIs, RuledIs DEF Verdict
  <2>3. Verdict' = [Verdict EXCEPT ![begun] = draft'.verdict] /\ Rules' = Rules
    BY <2>1 DEF Verdict, Rules, IInv, GateTypes
  <2>4. CASE draft'.verdict = draft.verdict
    <3>1. Verdict' = Verdict
      BY <2>2, <2>3, <2>4 DEF Verdict
    <3> QED
      BY <1>1, <2>1, <2>3, <3>1
  <2>5. CASE draft'.verdict # draft.verdict
    <3>1. Life!Overrule(d)
      BY <2>0, <2>1, <2>2, <2>3, <2>5 DEF Life!Overrule, Verdict, Rules
    <3> QED
      BY <3>1 DEF Life!Next
  <2> QED
    BY <2>4, <2>5
<1>6. CASE Decide
  <2>0. PICK d \in Episode : d = begun
    BY <1>3, <1>6
  <2>1. /\ UNCHANGED <<certificate, meso, macro>>
        /\ decision' = [decision EXCEPT ![begun] = IF draft.candidate THEN "promote" ELSE "reject"]
        /\ begun \in Episode /\ draft \in Certificate
        /\ certificate[begun] = draft /\ decision[begun] = "none"
        /\ draft.candidate => draft.verdict = "certified"
    BY <1>6 DEF Decide, memory, At, Drafted, IInv, GateTypes, InGate, Undecided, Episode
  <2>2. Verdict[begun] = draft.verdict /\ draft.verdict # "none"
    BY <2>1, CertificateIs DEF Verdict
  <2>3. Verdict' = Verdict /\ Rules' = Rules
    BY <2>1 DEF Verdict, Rules
  <2>4. Life!Decide(d)
    BY <2>0, <2>1, <2>2, <2>3 DEF Life!Decide, Verdict, Rules
  <2> QED
    BY <2>4 DEF Life!Next
<1>7. CASE WriteMeso
  <2>0. PICK d \in Episode : d = begun
    BY <1>3, <1>7
  <2>1. /\ UNCHANGED <<certificate, decision, macro>>
        /\ meso' = meso \cup {begun}
        /\ begun \in Episode /\ certificate[begun].verdict = "certified"
        /\ decision[begun] # "none"
    BY <1>7 DEF WriteMeso, At, IInv, GateTypes, InGate, Episode
  <2>2. Verdict[begun] = "certified" /\ Verdict' = Verdict /\ Rules' = Rules
    BY <2>1 DEF Verdict, Rules
  <2>3. Life!Remember(d)
    BY <2>0, <2>1, <2>2 DEF Life!Remember, Verdict, Rules
  <2> QED
    BY <2>3 DEF Life!Next
<1>8. CASE WriteMacro
  <2>0. PICK d \in Episode : d = begun
    BY <1>3, <1>8
  <2>1. /\ UNCHANGED <<certificate, decision, meso>>
        /\ macro' = macro \/ macro' = [macro EXCEPT ![begun] = Cardinality(Pattern(begun))]
        /\ begun \in Episode /\ begun \in meso
        /\ macro[begun] = 0
    BY <1>8 DEF WriteMacro, At, IInv, GateTypes, InGate, Episode
  <2>2. Verdict' = Verdict
    BY <2>1 DEF Verdict
  <2>3. CASE macro'[begun] = 0
    <3>1. Rules' = Rules
      BY <2>1, <2>3 DEF Rules, IInv, GateTypes
    <3> QED
      BY <1>1, <2>1, <2>2, <3>1
  <2>4. CASE macro'[begun] # 0
    <3>1. decision[begun] = "promote"
      BY <1>8, <2>1, <2>4, StaysRight DEF IInv, GateInv, MemoryOnRecord
    <3>2. Rules' = Rules \cup {begun}
      BY <2>1, <2>4 DEF Rules, IInv, GateTypes
    <3>3. Life!Generalise(d)
      BY <2>0, <2>1, <2>2, <3>1, <3>2 DEF Life!Generalise, Verdict, Rules
    <3> QED
      BY <3>3 DEF Life!Next
  <2> QED
    BY <2>3, <2>4
<1> QED
  <2>1. UNCHANGED <<certificate, decision, meso, macro>> \/ Issue \/ Overrule \/ Decide \/ WriteMeso \/ WriteMacro
    BY DEF Next, vars, stored, memory, Close, Assess, Propose, WriteMicro, Report, Reward, Replace
  <2> QED
    BY <1>2, <1>4, <1>5, <1>6, <1>7, <1>8, <2>1

\* What the gate stores, whatever order of runs, stops and rulings, is a
\* life of certificates as CertificateLife allows it.
THEOREM Lives == Spec => ImplementsLife
<1>1. Init => Life!Init
  <2> SUFFICES ASSUME Init PROVE Life!Init
    OBVIOUS
  <2>1. Verdict = [e \in Episode |-> "none"]
    BY NothingIs DEF Init, Verdict
  <2>2. Rules = {}
    BY DEF Init, Rules
  <2> QED
    BY <2>1, <2>2 DEF Init, Life!Init, Verdict, Rules
<1> QED
  BY <1>1, StepOfLife, StartsRight, StaysRight, PTL DEF Spec, ImplementsLife, Life!Spec
-----------------------------------------------------------------------------
(* The closure is found however long the run has been.                     *)

Closed(e) == [type |-> "episode.closed", episode |-> e]

\* The last event told is that of the episode to be assessed, and what is
\* assessed as valid is written as valid.
InView ==
  /\ pc = "assess" => events # <<>> /\ events[Len(events)] = Closed(begun)
  /\ pc \in {"propose", "issue"} /\ shown[begun].impression.form = "whole" =>
       draft.verdict = "certified"

\* The last event is among the newest.
LEMMA LastListed ==
  ASSUME NewestFirst, GateTypes, events # <<>>
  PROVE  \E i \in 1..Len(Listed) : Listed[i] = events[Len(events)]
<1> DEFINE L == Len(events)
           n == Smaller(EventLimit, L)
<1>1. events \in Seq(Event) /\ L \in Nat /\ L >= 1
  BY DEF GateTypes
<1>2. n \in 1..L
  BY <1>1, GateAssumption DEF Smaller
<1>3. Listed = SubSeq(events, L - n + 1, L)
  BY DEF Listed, Recent
<1>4. Len(Listed) = n /\ Listed[n] = events[L]
  <2>1. L - n + 1 \in 1..L+1 /\ L \in L - n..L /\ L - n + 1 <= L
    BY <1>1, <1>2
  <2> HIDE DEF L, n
  <2> QED
    BY <1>1, <1>2, <1>3, <2>1 DEF L
<1> QED
  BY <1>2, <1>4

\* With the newest events in view, what is assessed as valid is certified.
LEMMA ValidKept ==
  ASSUME NewestFirst, IInv, InView, ValidIsCertified, [Next]_vars
  PROVE  InView' /\ ValidIsCertified'
<1>1. \A e \in Blocked : e \in 1..begun /\ begun \in Nat
  BY DEF Blocked, IInv, GateTypes
<1>2. CASE Close
  <2>1. /\ begun' = begun + 1 /\ pc' = "assess" /\ begun + 1 \in Episode /\ begun \in Nat
        /\ UNCHANGED <<sovereign, certificate>> /\ Tell("episode.closed", begun + 1)
        /\ \A e \in 1..begun : shown'[e] = shown[e]
    BY <1>2, GateAssumption DEF Close, IInv, GateTypes, Episode
  <2>2. events' # <<>> /\ events'[Len(events')] = Closed(begun)'
    <3> DEFINE x == [type |-> "episode.closed", episode |-> begun + 1]
    <3>1. events' = Append(events, x) /\ events \in Seq(Event) /\ x \in Event
      BY <2>1 DEF Tell, Event, IInv, GateTypes
    <3>2. Closed(begun)' = x
      BY <2>1 DEF Closed
    <3> HIDE DEF x
    <3>3. events' # <<>> /\ events'[Len(events')] = x
      BY <3>1
    <3> QED
      BY <3>2, <3>3
  <2>3. \A e \in 1..begun : e \in Blocked' <=> e \in Blocked
    BY <2>1 DEF Blocked
  <2>4. certificate[begun + 1] = Nothing
    BY <2>1 DEF IInv, InGate, Fresh
  <2> QED
    BY <2>1, <2>2, <2>3, <2>4 DEF InView, ValidIsCertified, Certified
<1>3. CASE Assess
  <2>1. \E i \in 1..Len(Listed) : Listed[i] = Closed(begun)
    BY <1>3, LastListed DEF Assess, At, InView, IInv
  <2>2. shown[begun].impression.form = "whole" => Built(begun).verdict = "certified"
    BY <2>1 DEF Built, ClosedEventFound, Closed
  <2>3. draft' = Built(begun) /\ pc' = "propose" /\ UNCHANGED <<sovereign, begun, shown, certificate>>
    BY <1>3 DEF Assess, Goto, stored
  <2> QED
    BY <2>2, <2>3 DEF InView, ValidIsCertified, Certified, Blocked
<1>4. CASE Issue \/ Overrule
  <2>1. /\ UNCHANGED <<sovereign, begun, shown>>
        /\ certificate' = [certificate EXCEPT ![begun] = draft']
        /\ pc' \in {"overrule", "decide"}
    BY <1>4 DEF Issue, Overrule, Goto
  <2>2. begun \in Episode /\ certificate'[begun] = draft'
        /\ \A e \in Episode : e # begun => certificate'[e] = certificate[e]
    BY <1>4, <2>1 DEF Issue, Overrule, At, IInv, GateTypes, Episode
  <2>3. begun \notin Blocked /\ shown[begun].impression.form = "whole" => draft'.verdict = "certified"
    <3>1. CASE Issue
      BY <3>1 DEF Issue, At, InView
    <3>2. CASE Overrule
      <4>1. /\ draft \in Certificate /\ certificate[begun] = draft /\ begun >= 1
            /\ draft.candidate => draft.verdict = "certified"
            /\ draft' = IF sovereign THEN Ruled(draft, shown[begun].impression.ruling) ELSE draft
        BY <3>2 DEF Overrule, At, IInv, GateTypes, InGate, Drafted
      <4>2. begun \in 1..begun
        BY <4>1, <2>2 DEF IInv, GateTypes
      <4>3. begun \notin Blocked /\ shown[begun].impression.form = "whole" => draft.verdict = "certified"
        BY <4>1, <4>2, CertificateIs DEF ValidIsCertified, Certified
      <4>4. begun \notin Blocked /\ sovereign => shown[begun].impression.ruling # "blocked"
        BY <4>2 DEF Blocked
      <4> QED
        BY <4>1, <4>3, <4>4, RuledIs
    <3> QED
      BY <1>4, <3>1, <3>2
  <2>4. Blocked' = Blocked
    BY <2>1, BlockedStays
  <2>5. \A e \in 1..begun : e \in Episode
    BY GateAssumption DEF IInv, GateTypes, Episode
  <2>6. ValidIsCertified'
    BY <2>1, <2>2, <2>3, <2>4, <2>5 DEF ValidIsCertified, Certified
  <2> QED
    BY <2>1, <2>6 DEF InView
<1>5. CASE ~ (Close \/ Assess \/ Issue \/ Overrule)
  <2>1. /\ UNCHANGED <<sovereign, begun, shown, certificate>>
        /\ \/ UNCHANGED <<pc, draft, events>>
           \/ pc = "propose" /\ pc' = "issue" /\ draft' = draft
           \/ pc' \notin {"assess", "propose", "issue"}
    BY <1>5 DEF Next, vars, stored, memory, runner, Propose, Decide, WriteMicro, WriteMeso,
                WriteMacro, Report, Reward, Replace, At, Goto
  <2> QED
    BY <2>1 DEF InView, ValidIsCertified, Certified, Blocked, Closed
<1> QED
  BY <1>2, <1>3, <1>4, <1>5

\* With a storage that lists the newest events (SQLite), a valid episode that
\* no court blocked is never rejected, whatever the limit and however many
\* events the run has (evaluator.py:85).
THEOREM Valid == NewestFirst /\ Spec => []ValidIsCertified
<1>1. Init => InView /\ ValidIsCertified
  BY DEF Init, InView, ValidIsCertified
<1>2. NewestFirst /\ IInv /\ InView /\ ValidIsCertified /\ [Next]_vars => InView' /\ ValidIsCertified'
  BY ValidKept
<1>3. NewestFirst => NewestFirst'
  OBVIOUS
<1> QED
  BY <1>1, <1>2, <1>3, StartsRight, StaysRight, PTL DEF Spec
-----------------------------------------------------------------------------
(* The tail of indicators.                                                 *)

\* The number of indicators kept is what there is, up to the limit.
LEMMA LimitIs ==
  ASSUME NEW n \in Nat
  PROVE  /\ Smaller(MaxHistory, n) \in 0..n /\ Smaller(MaxHistory, n) <= MaxHistory
         /\ MaxHistory \in Nat /\ MaxHistory >= 1
         /\ Smaller(MaxHistory, n) = n \/ Smaller(MaxHistory, n) = MaxHistory
BY GateAssumption DEF Smaller

\* The tracker keeps the last of a series, in their order.
LEMMA KeptIs ==
  ASSUME NEW T, NEW s \in Seq(T), NEW n \in Nat, n = Len(s), NEW k \in Nat,
         k = Smaller(MaxHistory, n)
  PROVE  /\ Kept(s) \in Seq(T) /\ Len(Kept(s)) = k
         /\ \A i \in 1..k : Kept(s)[i] = s[n - k + i]
<1>1. k <= n
  BY LimitIs
<1>2. PICK low \in Int : low = n - k + 1
  OBVIOUS
<1>3. Kept(s) = SubSeq(s, low, n) /\ n \in Int
  BY <1>2 DEF Kept
<1>4. \A i \in low..n : s[i] \in T
  <2>1. \A i \in 1..n : s[i] \in T
    BY ElementOfSeq
  <2> QED
    BY <1>1, <1>2, <2>1
<1>5. /\ SubSeq(s, low, n) \in Seq(T)
      /\ Len(SubSeq(s, low, n)) = IF low <= n THEN n - low + 1 ELSE 0
      /\ \A i \in 1..(n - low + 1) : SubSeq(s, low, n)[i] = s[low + i - 1]
  BY <1>3, <1>4, SubSeqProperties
<1>6. n - low + 1 = k /\ (IF low <= n THEN n - low + 1 ELSE 0) = k
      /\ \A i \in 1..k : low + i - 1 = n - k + i
  BY <1>1, <1>2
<1>7. Len(Kept(s)) = k
  BY <1>3, <1>5, <1>6
<1>8. ASSUME NEW i \in 1..k
      PROVE  Kept(s)[i] = s[n - k + i]
  BY <1>3, <1>5, <1>6
<1> QED
  BY <1>3, <1>5, <1>7, <1>8

\* A sequence and one more element.
LEMMA AppendIs ==
  ASSUME NEW T, NEW s \in Seq(T), NEW n \in Nat, n = Len(s), NEW x \in T
  PROVE  /\ Append(s, x) \in Seq(T) /\ Len(Append(s, x)) = n + 1
         /\ \A i \in 1..n : Append(s, x)[i] = s[i]
         /\ Append(s, x)[n + 1] = x
OBVIOUS

\* What is kept of a series goes on as the series does.
LEMMA KeptGoesOn ==
  ASSUME NEW T, NEW s \in Seq(T), NEW x \in T
  PROVE  Kept(Append(Kept(s), x)) = Kept(Append(s, x))
<1> DEFINE n == Len(s)
           k == Smaller(MaxHistory, n)
<1>1. n \in Nat
  BY LenProperties
<1> HIDE DEF n
<1>2. k \in Nat /\ k <= n
  BY <1>1, LimitIs
<1> DEFINE m == Smaller(MaxHistory, n + 1)
<1>3. m = Smaller(MaxHistory, k + 1) /\ m \in Nat /\ m <= k + 1 /\ m >= k /\ m >= 1
  BY <1>1, GateAssumption DEF Smaller
<1> HIDE DEF k, m
<1> DEFINE r == Kept(s)
           a == Append(r, x)
           b == Append(s, x)
<1>4. /\ r \in Seq(T) /\ Len(r) = k
      /\ \A i \in 1..k : r[i] = s[n - k + i]
  BY <1>1, <1>2, KeptIs DEF n, k
<1> HIDE DEF r
<1>5. /\ a \in Seq(T) /\ Len(a) = k + 1 /\ a[k + 1] = x
      /\ \A i \in 1..k : a[i] = r[i]
  BY <1>2, <1>4, AppendIs
<1>6. /\ b \in Seq(T) /\ Len(b) = n + 1 /\ b[n + 1] = x
      /\ \A i \in 1..n : b[i] = s[i]
  BY <1>1, AppendIs DEF n
<1> HIDE DEF a, b
<1>7. PICK h \in Nat, l \in Nat : h = k + 1 /\ l = n + 1
  BY <1>1, <1>2
<1>8. /\ Kept(a) \in Seq(T) /\ Len(Kept(a)) = m
      /\ \A i \in 1..m : Kept(a)[i] = a[h - m + i]
  <2>1. m = Smaller(MaxHistory, h) /\ h = Len(a)
    BY <1>3, <1>5, <1>7
  <2> QED
    BY <1>3, <1>5, <2>1, KeptIs
<1>9. /\ Kept(b) \in Seq(T) /\ Len(Kept(b)) = m
      /\ \A i \in 1..m : Kept(b)[i] = b[l - m + i]
  <2>1. m = Smaller(MaxHistory, l) /\ l = Len(b)
    BY <1>6, <1>7 DEF m
  <2> QED
    BY <1>3, <1>6, <2>1, KeptIs
<1>10. ASSUME NEW i \in 1..m
       PROVE  Kept(a)[i] = Kept(b)[i]
  <2>1. CASE i = m
    <3>1. h - m + i = k + 1 /\ l - m + i = n + 1
      BY <1>1, <1>2, <1>3, <1>7, <2>1
    <3> QED
      BY <1>5, <1>6, <1>8, <1>9, <3>1
  <2>2. CASE i # m
    <3>1. PICK j \in 1..k : j = h - m + i
      BY <1>2, <1>3, <1>7, <2>2
    <3>2. PICK g \in 1..n : g = l - m + i
      BY <1>1, <1>2, <1>3, <1>7, <2>2
    <3>3. n - k + j = g
      BY <1>1, <1>2, <1>3, <1>7, <3>1, <3>2, SMTT(30)
    <3>4. Kept(a)[i] = r[j] /\ r[j] = s[g]
      BY <1>4, <1>5, <1>8, <3>1, <3>3
    <3>5. Kept(b)[i] = s[g]
      BY <1>6, <1>9, <3>2
    <3> QED
      BY <3>4, <3>5
  <2> QED
    BY <2>1, <2>2
<1>11. Kept(a) = Kept(b)
  BY <1>8, <1>9, <1>10, SeqEqual
<1> QED
  BY <1>11 DEF a, b, r

\* The elements of a sequence after the first m.
LEMMA RestIs ==
  ASSUME NEW T, NEW s \in Seq(T), NEW n \in Nat, n = Len(s), NEW m \in 0..n
  PROVE  /\ SubSeq(s, m + 1, n) \in Seq(T) /\ Len(SubSeq(s, m + 1, n)) = n - m
         /\ \A i \in 1..(n - m) : SubSeq(s, m + 1, n)[i] = s[m + i]
<1>1. PICK low \in Int : low = m + 1
  OBVIOUS
<1>2. n \in Int /\ low <= n + 1
  BY <1>1
<1>3. \A i \in low..n : s[i] \in T
  <2>1. \A i \in 1..n : s[i] \in T
    BY ElementOfSeq
  <2> QED
    BY <1>1, <2>1
<1>4. /\ SubSeq(s, low, n) \in Seq(T)
      /\ Len(SubSeq(s, low, n)) = IF low <= n THEN n - low + 1 ELSE 0
      /\ \A i \in 1..(n - low + 1) : SubSeq(s, low, n)[i] = s[low + i - 1]
  BY <1>2, <1>3, SubSeqProperties
<1>5. n - low + 1 = n - m /\ (IF low <= n THEN n - low + 1 ELSE 0) = n - m
      /\ \A i \in 1..(n - m) : low + i - 1 = m + i
  BY <1>1, <1>2
<1> QED
  BY <1>1, <1>4, <1>5

\* They go on as the sequence does.
LEMMA RestGoesOn ==
  ASSUME NEW T, NEW s \in Seq(T), NEW n \in Nat, n = Len(s), NEW m \in 0..n, NEW x \in T
  PROVE  SubSeq(Append(s, x), m + 1, Len(Append(s, x))) = Append(SubSeq(s, m + 1, n), x)
<1> DEFINE a == Append(s, x)
           r == SubSeq(s, m + 1, n)
<1>1. /\ a \in Seq(T) /\ Len(a) = n + 1 /\ a[n + 1] = x
      /\ \A i \in 1..n : a[i] = s[i]
  BY AppendIs
<1>2. /\ r \in Seq(T) /\ Len(r) = n - m
      /\ \A i \in 1..(n - m) : r[i] = s[m + i]
  BY RestIs
<1> HIDE DEF a, r
<1>3. PICK l \in Nat, k \in Nat : l = n + 1 /\ k = n - m
  <2>1. n + 1 \in Nat /\ n - m \in Nat
    OBVIOUS
  <2> QED
    BY <2>1, Zenon
<1>4. m \in 0..l /\ l - m = k + 1
  BY <1>3
<1> DEFINE t == SubSeq(a, m + 1, l)
           u == Append(r, x)
<1>5. /\ t \in Seq(T) /\ Len(t) = k + 1
      /\ \A i \in 1..(k + 1) : t[i] = a[m + i]
  BY <1>1, <1>3, <1>4, RestIs
<1>6. /\ u \in Seq(T) /\ Len(u) = k + 1 /\ u[k + 1] = x
      /\ \A i \in 1..k : u[i] = r[i]
  BY <1>2, <1>3, AppendIs
<1> HIDE DEF t, u
<1>7. ASSUME NEW i \in 1..(k + 1)
      PROVE  t[i] = u[i]
  <2>1. CASE i = k + 1
    <3>1. m + i = n + 1
      BY <1>3, <2>1
    <3> QED
      BY <1>1, <1>5, <1>6, <2>1, <3>1
  <2>2. CASE i # k + 1
    <3>1. i \in 1..k /\ i \in 1..(n - m) /\ m + i \in 1..n
      BY <1>3, <2>2
    <3> QED
      BY <1>1, <1>2, <1>5, <1>6, <3>1
  <2> QED
    BY <2>1, <2>2
<1>8. t = u
  BY <1>5, <1>6, <1>7, SeqEqual
<1> QED
  BY <1>1, <1>3, <1>8 DEF a, r, t, u

-----------------------------------------------------------------------------
(* The ledger of the certificates.                                         *)

Score == 0..10000
Upto(S, e) == {f \in S : f <= e}

\* Every certificate has its place in the ledger, and a score.
Placed ==
  \A i \in 1..Cardinality(Stored) : \E e \in Stored : Cardinality(Upto(Stored, e)) = i

Scored ==
  /\ draft \in Certificate \cup {Nothing}
  /\ pc \in Drafted => draft.ioc \in Score
  /\ \A e \in Stored : certificate[e].ioc \in Score

\* What could not be read was on record.
Marked == missed \in 0..Cardinality(Stored)

TailInv == Placed /\ Scored /\ Marked /\ SeriesFollowsLedger

\* There are finitely many certificates, and as many up to any of them.
LEMMA StoredFinite ==
  /\ Stored \subseteq Episode /\ IsFiniteSet(Stored) /\ Cardinality(Stored) \in Nat
  /\ \A e : /\ IsFiniteSet(Upto(Stored, e)) /\ Cardinality(Upto(Stored, e)) \in Nat
            /\ Cardinality(Upto(Stored, e)) <= Cardinality(Stored)
<1>1. IsFiniteSet(Episode) /\ Stored \subseteq Episode
  <2>1. 1 \in Int /\ Episodes \in Int
    BY GateAssumption
  <2> QED
    BY <2>1, FS_Interval DEF Episode, Stored
<1>2. IsFiniteSet(Stored)
  BY <1>1, FS_Subset
<1>3. ASSUME NEW e
      PROVE  /\ IsFiniteSet(Upto(Stored, e)) /\ Cardinality(Upto(Stored, e)) \in Nat
             /\ Cardinality(Upto(Stored, e)) <= Cardinality(Stored)
  <2>1. Upto(Stored, e) \subseteq Stored
    BY DEF Upto
  <2> QED
    BY <1>2, <2>1, FS_Subset, FS_CardinalityType
<1> QED
  BY <1>1, <1>2, <1>3, FS_CardinalityType

\* The ledger changes with the certificates only, and not with their verdicts.
LEMMA LedgerStays ==
  ASSUME Stored' = Stored, \A e \in Stored : certificate'[e].ioc = certificate[e].ioc, Placed
  PROVE  Ledger' = Ledger /\ Placed'
<1>1. ASSUME NEW i \in 1..Cardinality(Stored)
      PROVE  certificate'[Nth(i)'].ioc = certificate[Nth(i)].ioc
  <2>1. Nth(i)' = Nth(i)
    BY DEF Nth
  <2>2. Nth(i) \in Stored
    BY DEF Placed, Nth, Upto
  <2> QED
    BY <2>1, <2>2
<1>2. Placed'
  BY DEF Placed, Upto
<1> QED
  BY <1>1, <1>2 DEF Ledger

\* The ledger has one score per certificate.
LEMMA LedgerType ==
  ASSUME Placed, Scored
  PROVE  Ledger \in Seq(Score) /\ Len(Ledger) = Cardinality(Stored)
<1>1. ASSUME NEW i \in 1..Cardinality(Stored)
      PROVE  certificate[Nth(i)].ioc \in Score
  <2>1. Nth(i) \in Stored
    BY DEF Placed, Nth, Upto
  <2> QED
    BY <2>1 DEF Scored
<1>2. Cardinality(Stored) \in Nat
  BY StoredFinite
<1> QED
  BY <1>1, <1>2 DEF Ledger

\* A new certificate is the last of the ledger.
LEMMA LedgerGrows ==
  ASSUME Placed, Scored, certificate \in [Episode -> Certificate \cup {Nothing}],
         begun \in Episode, draft \in Certificate,
         \A e \in Stored : e < begun,
         certificate' = [certificate EXCEPT ![begun] = draft]
  PROVE  /\ Placed' /\ Ledger' = Append(Ledger, draft.ioc) /\ Stored' = Stored \cup {begun}
         /\ Cardinality(Stored') = Cardinality(Stored) + 1
<1>1. Stored' = Stored \cup {begun} /\ begun \notin Stored
  <2>1. draft # Nothing
    BY CertificateIs
  <2>2. begun \notin Stored
    BY GateAssumption DEF Stored, Episode
  <2> QED
    BY <2>1, <2>2 DEF Stored
<1>2. PICK c \in Nat : c = Cardinality(Stored) /\ Cardinality(Stored') = c + 1
  BY <1>1, StoredFinite, FS_AddElement
<1>3. ASSUME NEW e \in Stored
      PROVE  /\ Upto(Stored', e) = Upto(Stored, e)
             /\ Cardinality(Upto(Stored, e)) \in Nat /\ Cardinality(Upto(Stored, e)) <= c
  <2>1. e < begun /\ e \in Int /\ begun \in Int
    BY StoredFinite DEF Episode
  <2>2. Upto(Stored', e) = Upto(Stored, e)
    BY <1>1, <2>1 DEF Upto
  <2> QED
    BY <1>2, <2>2, StoredFinite
<1>4. Cardinality(Upto(Stored', begun)) = c + 1
  <2>1. \A e \in Stored' : e <= begun
    BY <1>1, StoredFinite DEF Episode
  <2>2. Upto(Stored', begun) = Stored'
    BY <2>1 DEF Upto
  <2> QED
    BY <1>2, <2>2
<1>5. ASSUME NEW i \in 1..c
      PROVE  Nth(i)' = Nth(i) /\ Nth(i) \in Stored /\ Cardinality(Upto(Stored, Nth(i))) = i
  <2>1. i # c + 1
    BY <1>2
  <2>2. \A e : e \in Stored' /\ Cardinality(Upto(Stored', e)) = i
                 <=> e \in Stored /\ Cardinality(Upto(Stored, e)) = i
    BY <1>1, <1>3, <1>4, <2>1
  <2>3. (CHOOSE e \in Stored' : Cardinality(Upto(Stored', e)) = i)
          = CHOOSE e \in Stored : Cardinality(Upto(Stored, e)) = i
    BY <2>2, Zenon
  <2>4. Nth(i)' = Nth(i)
    BY <2>3 DEF Nth, Upto
  <2>5. Nth(i) \in Stored /\ Cardinality(Upto(Stored, Nth(i))) = i
    BY <1>2 DEF Placed, Nth, Upto
  <2> QED
    BY <2>4, <2>5
<1>6. Nth(c + 1)' = begun
  <2>1. \A e \in Stored' : Cardinality(Upto(Stored', e)) = c + 1 <=> e = begun
    <3>1. ASSUME NEW e \in Stored
          PROVE  Cardinality(Upto(Stored', e)) # c + 1 /\ e # begun
      BY <1>1, <1>3
    <3> QED
      BY <1>1, <1>4, <3>1
  <2>2. (CHOOSE e \in Stored' : Cardinality(Upto(Stored', e)) = c + 1) = begun
    BY <1>1, <2>1
  <2> QED
    BY <2>2 DEF Nth, Upto
<1>7. Placed'
  <2> SUFFICES ASSUME NEW i \in 1..(c + 1)
               PROVE  \E e \in Stored' : Cardinality(Upto(Stored', e)) = i
    BY <1>2 DEF Placed, Upto
  <2>1. CASE i = c + 1
    BY <1>1, <1>4, <2>1
  <2>2. CASE i # c + 1
    <3>1. i \in 1..c
      BY <1>2, <2>2
    <3> QED
      BY <1>1, <1>3, <1>5, <3>1
  <2> QED
    BY <2>1, <2>2
<1>8. Ledger \in Seq(Score) /\ Len(Ledger) = c
  BY <1>2, LedgerType
<1>9. Ledger' = Append(Ledger, draft.ioc)
  <2>1. Ledger' = [i \in 1..(c + 1) |-> certificate'[Nth(i)'].ioc]
    BY <1>2 DEF Ledger
  <2>2. certificate'[begun] = draft /\ \A e \in Stored : certificate'[e] = certificate[e]
    BY <1>1 DEF Stored
  <2>3. \A i \in 1..c : certificate'[Nth(i)'].ioc = Ledger[i]
    BY <1>2, <1>5, <2>2 DEF Ledger
  <2>4. certificate'[Nth(c + 1)'].ioc = draft.ioc
    BY <1>6, <2>2
  <2> DEFINE x == draft.ioc
             g(i) == certificate'[Nth(i)'].ioc
  <2>5. Append(Ledger, x) = [i \in 1..(c + 1) |-> IF i = c + 1 THEN x ELSE Ledger[i]]
    BY <1>2, <1>8
  <2>6. \A i \in 1..(c + 1) : g(i) = IF i = c + 1 THEN x ELSE Ledger[i]
    <3> SUFFICES ASSUME NEW i \in 1..(c + 1)
                 PROVE  g(i) = IF i = c + 1 THEN x ELSE Ledger[i]
      OBVIOUS
    <3>1. i = c + 1 \/ i \in 1..c
      BY <1>2
    <3> QED
      BY <2>3, <2>4, <3>1
  <2> QED
    BY <2>1, <2>5, <2>6
<1> QED
  BY <1>1, <1>2, <1>7, <1>9

\* The indicator of the certificate that is built is a score.
LEMMA BuiltScore == ASSUME GateTypes, begun >= 1 PROVE Built(begun).ioc \in Score
<1> DEFINE i == shown[begun].impression
           traced == ClosedEventFound(begun) /\ i.form # "broken"
           closed == ClosedEventFound(begun) /\ i.form = "whole"
<1>1. begun \in 1..begun /\ i.continuity \in 0..100
  BY DEF GateTypes, Shown, Impression
<1>2. Bit(closed) \in {0, 1} /\ Bit(traced) \in {0, 1}
  BY DEF Bit
<1>3. Built(begun).ioc = Indicator(i.continuity, closed, traced)
  BY DEF Built
<1> HIDE DEF closed, traced, i
<1>4. PICK c \in 0..100, x \in {0, 1}, y \in {0, 1} :
        c = i.continuity /\ x = Bit(closed) /\ y = Bit(traced)
  BY <1>1, <1>2
<1> DEFINE raw == 45 * c + 2500 * x + 2000 * y - 120
<1>5. Indicator(i.continuity, closed, traced) = IF raw < 0 THEN 0 ELSE raw
  BY <1>4 DEF Indicator
<1>6. raw \in Int /\ raw <= 10000
  BY <1>4
<1> HIDE DEF raw
<1> QED
  BY <1>3, <1>5, <1>6 DEF Score

\* At the start ledger and series are empty.
LEMMA TailInit == Init => TailInv
<1> SUFFICES ASSUME Init PROVE TailInv
  OBVIOUS
<1>1. Stored = {} /\ pc = "idle" /\ draft = Nothing /\ series = Unseeded /\ missed = 0
  BY DEF Init, Stored
<1>2. Cardinality({}) = 0
  BY FS_EmptySet
<1> QED
  BY <1>1, <1>2 DEF TailInv, Placed, Scored, Marked, SeriesFollowsLedger, Drafted

\* A step that leaves the certificates, and puts no draft into the series.
LEMMA TailStays ==
  ASSUME TailInv, certificate' = certificate,
         \/ pc' = pc /\ series' = series /\ missed' = missed /\ draft' = draft
         \/ /\ pc = "propose" /\ pc' = "issue"
            /\ series' = series /\ missed' = missed /\ draft' = draft
         \/ /\ pc \notin {"propose", "issue"} /\ pc' \notin {"propose", "issue"}
            /\ series' = series /\ missed' = missed
            /\ \/ draft' = draft /\ (pc' \in Drafted => pc \in Drafted)
               \/ draft' = Nothing /\ pc' \notin Drafted
         \/ series' = Unseeded /\ missed' = 0 /\ draft' = Nothing /\ pc' \notin Drafted
  PROVE  TailInv'
<1>1. Stored' = Stored
  BY DEF Stored
<1>2. Ledger' = Ledger /\ Placed'
  BY <1>1, LedgerStays DEF TailInv
<1>3. Scored'
  BY <1>1 DEF TailInv, Scored, Drafted
<1>4. SeriesFollowsLedger'
  BY <1>2 DEF TailInv, SeriesFollowsLedger, Record, Drafted
<1>5. Marked'
  BY <1>1, StoredFinite DEF TailInv, Marked
<1> QED
  BY <1>2, <1>3, <1>4, <1>5 DEF TailInv

\* Every step keeps the series the tail of the ledger.
LEMMA TailStep == ASSUME IInv, TailInv, [Next]_vars PROVE TailInv'
<1> USE DEF IInv, TailInv
<1>0. PICK n \in Nat : Ledger \in Seq(Score) /\ n = Len(Ledger) /\ n = Cardinality(Stored)
  BY LedgerType, StoredFinite
<1>1. CASE Assess
  <2>1. /\ draft' = Built(begun) /\ certificate' = certificate /\ pc = "assess" /\ pc' = "propose"
        /\ begun >= 1 /\ Reads
        /\ series' = Kept(Append(Series, Built(begun).ioc))
    BY <1>1 DEF Assess, At, Goto, stored, GateTypes
  <2>2. Built(begun) \in Certificate /\ Built(begun).ioc \in Score
    BY <2>1, BuiltIs, BuiltScore
  <2>3. PICK x \in Score : x = Built(begun).ioc
    BY <2>2
  <2>4. Stored' = Stored /\ Ledger' = Ledger /\ Placed'
    BY <2>1, LedgerStays DEF Stored
  <2>5. PICK m \in 0..n : m = missed'
    BY <1>0, <2>1 DEF Reads, Marked
  <2> DEFINE rest == SubSeq(Ledger, m + 1, n)
  <2>6. Series = Kept(rest)
    BY <1>0, <2>1, <2>5 DEF Series, Reads, Seed, SeriesFollowsLedger, Record
  <2>7. rest \in Seq(Score)
    BY <1>0, <2>5, RestIs
  <2>8. SubSeq(Append(Ledger, x), m + 1, Len(Append(Ledger, x))) = Append(rest, x)
    BY <1>0, <2>3, <2>5, RestGoesOn
  <2> HIDE DEF rest
  <2>9. series' = Kept(Append(rest, x))
    BY <2>1, <2>3, <2>6, <2>7, KeptGoesOn
  <2>10. Record' = Append(Ledger, x)
    BY <2>1, <2>3, <2>4 DEF Record
  <2>11. SeriesFollowsLedger'
    BY <2>5, <2>8, <2>9, <2>10 DEF SeriesFollowsLedger
  <2>12. Scored'
    BY <2>1, <2>2, <2>4 DEF Scored
  <2>13. Marked'
    BY <1>0, <2>4, <2>5 DEF Marked
  <2> QED
    BY <2>4, <2>11, <2>12, <2>13
<1>2. CASE Issue
  <2>1. /\ certificate' = [certificate EXCEPT ![begun] = draft] /\ draft' = draft
        /\ series' = series /\ missed' = missed /\ pc = "issue" /\ pc' = "overrule"
        /\ begun \in Episode /\ draft \in Certificate /\ draft.ioc \in Score
    BY <1>2 DEF Issue, At, Goto, GateTypes, Drafted, Scored, Episode
  <2>2. \A e \in Stored : e < begun
    <3>1. \A e \in Episode : e >= begun => certificate[e] = Nothing
      BY <2>1 DEF InGate, Fresh, Episode
    <3> QED
      BY <2>1, <3>1 DEF Stored, Episode
  <2>3. /\ Placed' /\ Ledger' = Append(Ledger, draft.ioc) /\ Stored' = Stored \cup {begun}
        /\ Cardinality(Stored') = Cardinality(Stored) + 1
    BY <2>1, <2>2, LedgerGrows DEF GateTypes
  <2>4. Scored'
    <3>1. \A e \in Stored' : certificate'[e].ioc \in Score
      BY <2>1, <2>3 DEF Scored, Stored, GateTypes
    <3> QED
      BY <2>1, <3>1 DEF Scored
  <2>5. SeriesFollowsLedger'
    BY <2>1, <2>3 DEF SeriesFollowsLedger, Record
  <2>6. Marked'
    BY <1>0, <2>1, <2>3 DEF Marked
  <2> QED
    BY <2>3, <2>4, <2>5, <2>6
<1>3. CASE Overrule
  <2>1. /\ certificate' = [certificate EXCEPT ![begun] = draft']
        /\ draft' = draft \/ draft' = Ruled(draft, shown[begun].impression.ruling)
        /\ series' = series /\ missed' = missed /\ pc = "overrule" /\ pc' = "decide"
        /\ begun \in Episode /\ draft \in Certificate /\ draft.ioc \in Score
        /\ certificate[begun] = draft /\ (draft.candidate => draft.verdict = "certified")
    BY <1>3 DEF Overrule, At, Goto, GateTypes, Drafted, Scored, Episode, InGate
  <2>2. draft' \in Certificate
    BY <2>1, RuledIs
  <2>3. draft'.ioc = draft.ioc
    BY <2>1 DEF Ruled, Certificate
  <2>4. Stored' = Stored /\ \A e \in Stored : certificate'[e].ioc = certificate[e].ioc
    BY <2>1, <2>2, <2>3, CertificateIs DEF Stored, GateTypes
  <2>5. Ledger' = Ledger /\ Placed'
    BY <2>4, LedgerStays
  <2>6. Scored'
    BY <2>1, <2>2, <2>3, <2>4 DEF Scored
  <2>7. SeriesFollowsLedger'
    BY <2>1, <2>5 DEF SeriesFollowsLedger, Record
  <2>8. Marked'
    BY <2>1, <2>4, StoredFinite DEF Marked
  <2> QED
    BY <2>5, <2>6, <2>7, <2>8
<1>4. CASE Next /\ ~ (Assess \/ Issue \/ Overrule)
  BY <1>4, TailStays DEF Next, Close, Propose, Decide, WriteMicro, WriteMeso, WriteMacro, Report,
     Reward, Replace, At, Goto, stored, memory, Drafted
<1>5. CASE UNCHANGED vars
  BY <1>5, TailStays DEF vars, runner, stored
<1> QED
  BY <1>1, <1>2, <1>3, <1>4, <1>5

\* Both invariants of the gate hold throughout.
LEMMA TailInvariant == Spec => [](IInv /\ TailInv)
BY StartsRight, StaysRight, TailInit, TailStep, PTL DEF Spec

(***************************************************************************)
(* The tail of evidence survives new runners: what the risk tracker holds  *)
(* in memory are the newest indicators on record, and that of the episode  *)
(* in the gate, each once and in order (EpisodeRiskTracker._seed and       *)
(* assess); after a listing that failed, those from the first episode that *)
(* this runner assessed on.  For any number of episodes, limit of the tail *)
(* and replaced runners.                                                   *)
(***************************************************************************)
THEOREM TailSurvives == Spec => []SeriesFollowsLedger
<1>1. TailInv => SeriesFollowsLedger
  BY DEF TailInv
<1> QED
  BY <1>1, TailInvariant, PTL

\* What the tracker keeps is never longer than its limit.
LEMMA SeriesType ==
  ASSUME IInv, TailInv
  PROVE  series \in Seq(Score) \cup {Unseeded} /\ Len(series) <= MaxHistory
<1>1. CASE series = Unseeded
  <2>1. Len(Unseeded) = 1
    BY DEF Unseeded
  <2> QED
    BY <1>1, <2>1, GateAssumption
<1>2. CASE series # Unseeded
  <2>1. PICK s \in Seq(Score) : series = Kept(s)
    <3>1. Ledger \in Seq(Score) /\ Len(Ledger) = Cardinality(Stored)
      BY LedgerType DEF TailInv
    <3>2. PICK c \in Nat : c = Len(Ledger) /\ c = Cardinality(Stored)
      BY <3>1, StoredFinite
    <3>3. CASE pc \in {"propose", "issue"}
      <4>1. PICK x \in Score : x = draft.ioc
        BY <3>3 DEF TailInv, Scored, Drafted
      <4>2. Record \in Seq(Score) /\ Len(Record) = c + 1
        BY <3>1, <3>2, <3>3, <4>1, AppendIs DEF Record
      <4>3. PICK h \in Nat : h = c + 1 /\ missed \in 0..h
        BY <3>2 DEF TailInv, Marked
      <4> QED
        BY <1>2, <4>2, <4>3, RestIs DEF TailInv, SeriesFollowsLedger
    <3>4. CASE pc \notin {"propose", "issue"}
      <4>1. Record = Ledger
        BY <3>4 DEF Record
      <4>2. missed \in 0..c
        BY <3>2 DEF TailInv, Marked
      <4> QED
        BY <1>2, <3>1, <3>2, <4>1, <4>2, RestIs DEF TailInv, SeriesFollowsLedger
    <3> QED
      BY <3>3, <3>4
  <2>2. PICK n \in Nat : n = Len(s)
    BY LenProperties
  <2>3. PICK k \in Nat : k = Smaller(MaxHistory, n) /\ k <= MaxHistory
    BY LimitIs
  <2>4. Kept(s) \in Seq(Score) /\ Len(Kept(s)) = k
    BY <2>2, <2>3, KeptIs
  <2> QED
    BY <2>1, <2>3, <2>4
<1> QED
  BY <1>1, <1>2

\* A rule claims no more support than there are episodes.
LEMMA SupportType == ASSUME IInv PROVE macro \in [Episode -> 0..Episodes]
<1> SUFFICES ASSUME NEW e \in Episode PROVE macro[e] \in 0..Episodes
  BY DEF IInv, GateTypes
<1>1. Episodes \in Nat /\ macro[e] \in Nat
  BY GateAssumption DEF IInv, GateTypes
<1>2. CASE macro[e] # 0
  <2> DEFINE records == Pattern(e)
  <2>1. macro[e] = Cardinality(records)
    BY <1>2 DEF IInv, GateInv, MemoryOnRecord
  <2>2. records \subseteq 1..Episodes
    BY DEF IInv, GateTypes, Pattern, Listable, Episode
  <2>3. IsFiniteSet(1..Episodes) /\ Cardinality(1..Episodes) = Episodes
    <3>1. /\ IsFiniteSet(1..Episodes)
          /\ Cardinality(1..Episodes) = IF 1 > Episodes THEN 0 ELSE Episodes - 1 + 1
      BY <1>1, FS_Interval
    <3> QED
      BY <1>1, <3>1
  <2> HIDE DEF records
  <2>4. Cardinality(records) <= Episodes
    BY <2>2, <2>3, FS_Subset
  <2> QED
    BY <1>1, <2>1, <2>4
<1> QED
  BY <1>1, <1>2

(***************************************************************************)
(* The types of what the gate and the tracker hold and store; among them   *)
(* that the tail is never longer than its limit, that no indicator exceeds *)
(* 1, and that a rule claims at most one record per episode.               *)
(***************************************************************************)
THEOREM TypeInvariant == Spec => []TypeOK
<1>1. ASSUME IInv, TailInv PROVE TypeOK
  <2>1. series \in Seq(0..10000) \cup {Unseeded} /\ Len(series) <= MaxHistory
    BY <1>1, SeriesType DEF Score
  <2>2. macro \in [Episode -> 0..Episodes]
    BY <1>1, SupportType
  <2>3. /\ sovereign \in BOOLEAN /\ pc \in Label /\ scenario \in Scenarios
        /\ begun \in 0..Episodes /\ shown \in [1..begun -> Shown] /\ events \in Seq(Event)
        /\ certificate \in [Episode -> Certificate \cup {Nothing}]
        /\ decision \in [Episode -> {"none", "promote", "reject"}]
        /\ micro \in SUBSET Episode /\ meso \in SUBSET Episode
    BY <1>1 DEF IInv, GateTypes
  <2>4. draft \in Certificate \cup {Nothing}
    BY <1>1 DEF TailInv, Scored
  <2>5. missed \in 0..Episodes
    <3>1. IsFiniteSet(1..Episodes) /\ Cardinality(1..Episodes) = Episodes
      <4>1. 1 \in Int /\ Episodes \in Int
        BY GateAssumption
      <4>2. /\ IsFiniteSet(1..Episodes)
            /\ Cardinality(1..Episodes) = IF 1 > Episodes THEN 0 ELSE Episodes - 1 + 1
        BY <4>1, FS_Interval
      <4> QED
        BY <4>2, GateAssumption
    <3>2. Cardinality(Stored) <= Episodes /\ Cardinality(Stored) \in Nat
      BY <3>1, StoredFinite, FS_Subset DEF Episode
    <3> QED
      BY <1>1, <3>2, GateAssumption DEF TailInv, Marked
  <2> QED
    BY <2>1, <2>2, <2>3, <2>4, <2>5, SMTT(30) DEF TypeOK
<1> QED
  BY <1>1, TailInvariant, PTL
=============================================================================
