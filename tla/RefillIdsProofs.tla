-------------------------- MODULE RefillIdsProofs --------------------------
(***************************************************************************)
(* The safety of a cell's refills, for every number of attempts and every  *)
(* guard below the age at which the grantor reclaims.                      *)
(***************************************************************************)
EXTENDS RefillIds, TLAPS

LEMMA IdRange ==
    /\ 0 \in Ids
    /\ \A i \in Ids : ~LastAttempt(i) => i + 1 \in Ids
    /\ 0 \in 0..Guard /\ 0 \in 0..ReclaimAge
BY IdsAssumption DEF Ids, LastAttempt

LEMMA NextTypeOK == TypeOK /\ [Next]_vars => TypeOK'
<1> SUFFICES ASSUME TypeOK, [Next]_vars PROVE TypeOK'
  OBVIOUS
<1> USE IdRange DEF TypeOK
<1>1. CASE Begin
  BY <1>1 DEF Begin, Draw
<1>2. CASE Reject
  <2>1. CASE LastAttempt(attempt)
    BY <1>2, <2>1 DEF Reject, End
  <2>2. CASE ~LastAttempt(attempt)
    BY <1>2, <2>2 DEF Reject, Draw
  <2> QED
    BY <2>1, <2>2
<1>12. CASE Pass
  BY <1>12 DEF Pass
<1>3. CASE Install
  <2>1. /\ row' \in [Ids -> {"none", "live", "settled"}]
        /\ age' \in [Ids -> 0..ReclaimAge]
        /\ net' \subseteq Ids
    BY <1>3 DEF Install
  <2> QED
    BY <1>3, <2>1 DEF Install, End
<1>4. CASE GiveUp
  BY <1>4 DEF GiveUp, End
<1>5. CASE Drain
  BY <1>5 DEF Drain
<1>6. ASSUME NEW i \in Ids, ServerDraw(i) PROVE TypeOK'
  <2> DEFINE state == IF row[i] = "none" THEN "live" ELSE row[i]
  <2>1. state \in {"live", "settled"}
    OBVIOUS
  <2>2. /\ net' = net \ {i}
        /\ row' = [row EXCEPT ![i] = state]
        /\ pc' \in {pc, "replied"} /\ answer' \in {answer, state}
        /\ aged' \in {aged, age[i]}
        /\ UNCHANGED <<cached, attempt, wait, age, calm>>
    BY <1>6 DEF ServerDraw
  <2> HIDE DEF state
  <2> QED
    BY <2>1, <2>2
<1>7. ASSUME NEW i \in Ids, Expire(i) PROVE TypeOK'
  BY <1>7 DEF Expire
<1>8. ASSUME NEW i \in Ids, Forget(i) PROVE TypeOK'
  BY <1>8 DEF Forget
<1>9. CASE Tick
  <2>1. age' \in [Ids -> 0..ReclaimAge] /\ aged' \in 0..ReclaimAge
    BY <1>9, IdsAssumption DEF Tick, Older
  <2>2. wait' \in 0..Guard
    BY <1>9, IdsAssumption DEF Tick
  <2> QED
    BY <1>9, <2>1, <2>2 DEF Tick
<1>10. CASE BecomeCalm
  BY <1>10 DEF BecomeCalm
<1>11. CASE UNCHANGED vars
  BY <1>11 DEF vars
<1> QED
  BY <1>1, <1>2, <1>3, <1>4, <1>5, <1>6, <1>7, <1>8, <1>9, <1>10, <1>11, <1>12 DEF Next

\* A refill draws within its attempts and waits within its guard, whatever the
\* network and the server do (the redraw loop of refillOnce).
THEOREM TypeCorrect == Spec => []TypeOK
<1>1. Init => TypeOK
  BY IdRange DEF Init, TypeOK
<1> QED
  BY <1>1, NextTypeOK, PTL DEF Spec

-----------------------------------------------------------------------------

\* A grant that was answered and has not been gated is still the live one the answer
\* tells of, or the answer is of an age at which the gate refuses it.
SameGrant == row[attempt] = "live" /\ age[attempt] = aged

AnswerOK == pc = "replied" /\ answer = "live" => SameGrant \/ aged = ReclaimAge

LEMMA NextAnswerOK == TypeOK /\ AnswerOK /\ [Next]_vars => AnswerOK'
<1> SUFFICES ASSUME TypeOK, AnswerOK, [Next]_vars, pc' = "replied", answer' = "live"
             PROVE  SameGrant' \/ aged' = ReclaimAge
  BY DEF AnswerOK
<1>1. CASE Begin \/ Reject \/ Pass \/ Install \/ GiveUp
  BY <1>1 DEF Begin, Reject, Pass, Install, GiveUp, Draw, End
<1>2. CASE Drain \/ BecomeCalm \/ UNCHANGED vars
  BY <1>2 DEF Drain, BecomeCalm, vars, AnswerOK, SameGrant
<1>3. ASSUME NEW i \in Ids, ServerDraw(i)
      PROVE  SameGrant' \/ aged' = ReclaimAge
  <2>1. /\ row' = [row EXCEPT ![i] = IF row[i] = "none" THEN "live" ELSE row[i]]
        /\ UNCHANGED <<attempt, age>>
    BY <1>3 DEF ServerDraw
  <2>2. row[attempt] = "live" => row'[attempt] = "live"
    BY <2>1 DEF TypeOK
  <2>3. CASE pc = "drawing" /\ attempt = i
    <3>1. answer' = (IF row[i] = "none" THEN "live" ELSE row[i]) /\ aged' = age[i]
      BY <1>3, <2>3 DEF ServerDraw
    <3> QED
      BY <2>1, <2>3, <3>1 DEF TypeOK, SameGrant
  <2>4. CASE ~(pc = "drawing" /\ attempt = i)
    <3>1. UNCHANGED <<pc, answer, aged>>
      BY <1>3, <2>4 DEF ServerDraw
    <3> QED
      BY <2>1, <2>2, <3>1 DEF AnswerOK, SameGrant
  <2> QED
    BY <2>3, <2>4
<1>4. ASSUME NEW i \in Ids, Expire(i)
      PROVE  SameGrant' \/ aged' = ReclaimAge
  BY <1>4 DEF Expire, AnswerOK, SameGrant, TypeOK
<1>5. ASSUME NEW i \in Ids, Forget(i)
      PROVE  SameGrant' \/ aged' = ReclaimAge
  BY <1>5 DEF Forget, AnswerOK, SameGrant, TypeOK
<1>6. CASE Tick
  <2>1. UNCHANGED <<pc, attempt, answer, row>> /\ aged' = Older(aged)
    BY <1>6 DEF Tick
  <2>2. row[attempt] = "live" => age'[attempt] = Older(age[attempt])
    BY <1>6 DEF Tick, TypeOK
  <2> QED
    BY <2>1, <2>2, IdsAssumption DEF AnswerOK, SameGrant, Older, TypeOK
<1> QED
  BY <1>1, <1>2, <1>3, <1>4, <1>5, <1>6 DEF Next

\* An answer may wait for its gate as long as it likes, while its id is reclaimed,
\* forgotten and granted again: what the gate lets through is the live lease the answer
\* tells of, because it refuses before the grantor reclaims (leasedbudget.go:469-475).
THEOREM GateIsSound == Spec => GatePassesLive
<1>1. Init => AnswerOK
  BY DEF Init, AnswerOK
<1>2. TypeOK /\ AnswerOK /\ [Next]_vars =>
        [pc # "gated" /\ pc' = "gated" => row[attempt] = "live" /\ age[attempt] = aged]_vars
  <2> SUFFICES ASSUME TypeOK, AnswerOK, [Next]_vars, pc # "gated", pc' = "gated"
               PROVE  SameGrant
    BY DEF SameGrant
  <2>1. Pass
    <3>1. \A i \in Ids : ~ServerDraw(i) /\ ~Expire(i) /\ ~Forget(i)
      BY DEF ServerDraw, Expire, Forget
    <3>2. ~Begin /\ ~Reject /\ ~Install /\ ~GiveUp /\ ~Drain /\ ~Tick /\ ~BecomeCalm
      BY DEF Begin, Reject, Install, GiveUp, Drain, Tick, BecomeCalm, Draw, End
    <3> QED
      BY <3>1, <3>2 DEF Next, vars
  <2>2. pc = "replied" /\ answer = "live" /\ ~(aged > Guard)
    BY <2>1 DEF Pass, TooOld
  <2> QED
    BY <2>2, IdsAssumption DEF AnswerOK, TypeOK
<1> QED
  BY <1>1, <1>2, NextAnswerOK, TypeCorrect, PTL DEF Spec, GatePassesLive

=============================================================================
