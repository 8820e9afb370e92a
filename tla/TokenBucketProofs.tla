------------------------- MODULE TokenBucketProofs -------------------------
(***************************************************************************)
(* The rate bound of TokenBucket, for every rate, burst, clock resolution  *)
(* and size of spend whose products fit in the machine's integers.         *)
(***************************************************************************)
EXTENDS TokenBucket, TLAPS

\* Nothing the bucket computes overflows.
Fits == \A x \in 0..((Burst + Rate) * Second + Burst) : Wrap(x) = x

-----------------------------------------------------------------------------
(* Arithmetic *)

LEMMA ProductOrder ==
    ASSUME NEW a \in Nat, NEW b \in Nat, NEW c \in Nat, a <= b
    PROVE  /\ a * c \in Nat
           /\ b * c \in Nat
           /\ a * c <= b * c
<1>1. PICK d \in Nat : b = a + d
  BY b - a \in Nat
<1>2. b * c = a * c + d * c
  BY <1>1
<1> QED
  BY <1>2

LEMMA RateOrder ==
    ASSUME NEW a \in Nat, NEW b \in Nat, a <= b
    PROVE  /\ Rate * a \in Nat
           /\ Rate * b \in Nat
           /\ Rate * a <= Rate * b
<1>1. Rate \in Nat
  BY BucketAssumption
<1>2. Rate * a = a * Rate /\ Rate * b = b * Rate
  BY <1>1
<1> QED
  BY <1>1, <1>2, ProductOrder

LEMMA Division ==
    ASSUME NEW a \in Nat, NEW b \in Nat \ {0}
    PROVE  /\ a \div b \in Nat
           /\ (a \div b) * b <= a
           /\ a < (a \div b) * b + b
OBVIOUS

LEMMA DivisionSmaller ==
    ASSUME NEW a \in Nat, NEW b \in Nat \ {0}
    PROVE  a \div b <= a
OBVIOUS

-----------------------------------------------------------------------------
(* The accrual *)

\* The threshold of the shortcut, when it does not wrap.
LEMMA FullRefillValue ==
    ASSUME Fits
    PROVE  /\ FullRefill = ((Burst \div Rate) + 1) * Second
           /\ FullRefill \in Nat
           /\ Rate * FullRefill >= Burst * Second
           /\ Rate * FullRefill <= (Burst + Rate) * Second
<1> DEFINE q == Burst \div Rate
<1> USE BucketAssumption
<1>1. /\ q \in Nat
      /\ q * Rate <= Burst
      /\ Burst < q * Rate + Rate
      /\ q <= Burst
  BY Division, DivisionSmaller
<1> HIDE DEF q
<1>2. /\ (q + 1) * Rate \in Nat
      /\ (q + 1) * Rate = q * Rate + Rate
      /\ Burst <= (q + 1) * Rate
      /\ (q + 1) * Rate <= Burst + Rate
  BY <1>1
<1>3. /\ Burst * Second <= ((q + 1) * Rate) * Second
      /\ ((q + 1) * Rate) * Second <= (Burst + Rate) * Second
  BY <1>1, <1>2, ProductOrder
<1>4. Rate * ((q + 1) * Second) = ((q + 1) * Rate) * Second
  BY <1>1
<1>5. /\ (q + 1) * Second \in Nat
      /\ (q + 1) * Second <= (Burst + Rate) * Second
  BY <1>1, ProductOrder
<1>6. q + 1 <= (q + 1) * Second
  BY <1>1, ProductOrder
<1>7. Wrap(q + 1) = q + 1 /\ Wrap((q + 1) * Second) = (q + 1) * Second
  BY <1>1, <1>5, <1>6 DEF Fits
<1>8. FullRefill = (q + 1) * Second
  BY <1>7 DEF FullRefill, q
<1> QED
  BY <1>3, <1>4, <1>5, <1>8 DEF q

\* An accrual never leaves more than the bucket's ceiling, nor more than the gap
\* has earned at the rate.
LEMMA AccruedBounds ==
    ASSUME Fits, NEW t \in 0..Burst, NEW e \in Nat
    PROVE  /\ Accrued(t, e) \in 0..Burst
           /\ Accrued(t, e) * Second <= Burst * Second
           /\ Accrued(t, e) * Second <= t * Second + Rate * e \/ e >= FullRefill
<1> USE BucketAssumption
<1>1. CASE e <= 0
  BY <1>1, ProductOrder DEF Accrued
<1>2. CASE e > 0 /\ e >= FullRefill
  BY <1>2, ProductOrder DEF Accrued
<1>3. CASE e > 0 /\ e < FullRefill
  <2> DEFINE p == Rate * e
             q == p \div Second
  <2>1. p \in Nat /\ p <= (Burst + Rate) * Second
    BY <1>3, FullRefillValue, ProductOrder
  <2>2. q \in Nat /\ q * Second <= p /\ q <= p
    BY <2>1, Division, DivisionSmaller
  <2>3. Wrap(p) = p
    BY <2>1 DEF Fits
  <2>4. Quotient(Wrap(p), Second) = q
    BY <2>1, <2>3 DEF Quotient
  <2> HIDE DEF p, q
  <2>5. t + q \in Nat /\ t + q <= (Burst + Rate) * Second + Burst
    BY <2>1, <2>2
  <2>6. Wrap(t + q) = t + q
    BY <2>5 DEF Fits
  <2>7. Accrued(t, e) = Least(t + q, Burst)
    BY <1>3, <2>4, <2>6, FullRefillValue DEF Accrued, p
  <2>8. Accrued(t, e) \in 0..Burst /\ Accrued(t, e) <= t + q
    BY <2>2, <2>7 DEF Least
  <2>9. Accrued(t, e) * Second <= (t + q) * Second
    BY <2>2, <2>8, ProductOrder
  <2>10. (t + q) * Second = t * Second + q * Second
    BY <2>2
  <2>11. Accrued(t, e) * Second <= t * Second + p
    BY <2>2, <2>8, <2>9, <2>10, <2>1
  <2>12. Accrued(t, e) * Second <= Burst * Second
    BY <2>8, ProductOrder
  <2> QED
    BY <2>8, <2>11, <2>12 DEF p
<1> QED
  BY <1>1, <1>2, <1>3, FullRefillValue

-----------------------------------------------------------------------------
(* The invariant *)

\* An exact bucket holds at least what this one would after its next accrual.
Covered == allowance >= Least(Burst * Second, tokens * Second + Rate * gap)

BucketInv == TypeOK /\ Covered

LEMMA InitInv == Init => BucketInv
<1> USE BucketAssumption
<1> SUFFICES ASSUME Init PROVE BucketInv
  OBVIOUS
<1>1. Burst * Second \in Nat
  BY ProductOrder
<1>2. Rate * gap = 0
  BY DEF Init
<1> QED
  BY <1>1, <1>2 DEF Init, BucketInv, TypeOK, Covered, Least

\* After an accrual the exact bucket holds the accrued tokens.
LEMMA AccruedCovered ==
    ASSUME Fits, BucketInv
    PROVE  /\ Accrued(tokens, gap) \in 0..Burst
           /\ allowance >= Accrued(tokens, gap) * Second
<1> USE BucketAssumption
<1>1. tokens \in 0..Burst /\ gap \in Nat /\ allowance \in Int
  BY DEF BucketInv, TypeOK
<1>2. /\ tokens * Second \in Nat
      /\ Burst * Second \in Nat
      /\ Rate * gap \in Nat
  BY <1>1, ProductOrder
<1>3. CASE gap >= FullRefill
  <2> DEFINE a == Accrued(tokens, gap)
  <2>1. /\ Rate * FullRefill \in Nat
        /\ Rate * FullRefill <= Rate * gap
        /\ Burst * Second <= Rate * FullRefill
    BY <1>1, <1>3, FullRefillValue, RateOrder
  <2>2. Burst * Second <= Rate * gap
    BY <1>2, <2>1
  <2>3. allowance >= Burst * Second
    BY <1>1, <1>2, <2>2 DEF BucketInv, Covered, Least
  <2>4. a \in 0..Burst
    BY <1>1, AccruedBounds
  <2> HIDE DEF a
  <2>5. a * Second \in Nat /\ a * Second <= Burst * Second
    BY <2>4, ProductOrder
  <2>6. allowance >= a * Second
    BY <1>1, <1>2, <2>3, <2>5
  <2> QED
    BY <2>4, <2>6 DEF a
<1>4. CASE ~(gap >= FullRefill)
  <2> DEFINE a == Accrued(tokens, gap) * Second
  <2>1. /\ a <= Burst * Second
        /\ a <= tokens * Second + Rate * gap
    BY <1>1, <1>4, AccruedBounds
  <2>2. a \in Nat
    BY <1>1, AccruedBounds, ProductOrder
  <2> HIDE DEF a
  <2>3. allowance >= a
    BY <1>1, <1>2, <2>1, <2>2 DEF BucketInv, Covered, Least
  <2> QED
    BY <1>1, <2>3, AccruedBounds DEF a
<1> QED
  BY <1>3, <1>4

\* A Spend that leaves t tokens and an exact bucket that holds them.
LEMMA Accrues ==
    ASSUME TypeOK, NEW t \in 0..Burst, tokens' = t, gap' = 0,
           waiting' \in [Callers -> Sizes \cup {0}], allowance' \in Int,
           allowance' >= t * Second
    PROVE  BucketInv'
<1> USE BucketAssumption
<1>1. t * Second \in Nat /\ Burst * Second \in Nat /\ Rate * gap' = 0
  BY ProductOrder
<1>2. Covered'
  BY <1>1 DEF Covered, Least
<1> QED
  BY <1>2 DEF BucketInv, TypeOK

LEMMA NextInv == Fits /\ BucketInv /\ [Next]_vars => BucketInv'
<1> USE BucketAssumption
<1> SUFFICES ASSUME Fits, BucketInv, [Next]_vars PROVE BucketInv'
  OBVIOUS
<1> DEFINE a == Accrued(tokens, gap)
<1>1. TypeOK /\ a \in 0..Burst /\ allowance \in Int /\ allowance >= a * Second
  BY AccruedCovered DEF BucketInv, TypeOK
<1>2. CASE Tick
  <2>1. /\ tokens * Second \in Nat
        /\ Burst * Second \in Nat
        /\ Rate * gap \in Nat
        /\ gap \in Nat
    BY <1>1, ProductOrder DEF TypeOK
  <2>2. gap' \in 0..MaxGap /\ gap' <= gap + 1
    BY <1>1, <1>2 DEF Tick, TypeOK, Least
  <2>3. Rate * gap' \in Nat /\ Rate * gap' <= Rate * (gap + 1)
    <3>1. gap' \in Nat /\ gap + 1 \in Nat
      BY <2>1, <2>2
    <3> QED
      BY <2>2, <3>1, RateOrder
  <2>4. Rate * (gap + 1) = Rate * gap + Rate
    BY <2>1
  <2> DEFINE full == Burst * Second
             before == tokens * Second + Rate * gap
             after == tokens * Second + Rate * gap'
  <2>5. Covered'
    <3>1. full \in Nat /\ before \in Nat /\ after \in Nat /\ after <= before + Rate
      BY <2>1, <2>3, <2>4
    <3>2. allowance >= Least(full, before)
      BY DEF BucketInv, Covered
    <3>3. allowance' = Least(allowance + Rate, full) /\ tokens' = tokens
      BY <1>2 DEF Tick
    <3> HIDE DEF full, before, after
    <3>4. allowance' >= Least(full, after)
      BY <1>1, <3>1, <3>2, <3>3 DEF Least
    <3> QED
      BY <3>3, <3>4 DEF Covered, full, after
  <2>6. TypeOK'
    BY <1>1, <1>2, <2>1, <2>2 DEF Tick, TypeOK, Least
  <2> QED
    BY <2>5, <2>6 DEF BucketInv
<1>3. ASSUME NEW c \in Callers, NEW n \in Sizes, Throttled(c, n) PROVE BucketInv'
  <2>1. waiting' \in [Callers -> Sizes \cup {0}]
    BY <1>1, <1>3 DEF Throttled, TypeOK
  <2> QED
    BY <1>1, <1>3, <2>1, Accrues DEF Throttled
<1>4. ASSUME NEW c \in Callers, NEW n \in Sizes, Served(c, n) PROVE BucketInv'
  <2>1. n \in Nat /\ a - n \in 0..Burst /\ a \in Nat
    BY <1>1, <1>4 DEF Served
  <2>2. (a - n) * Second = a * Second - n * Second
    BY <2>1
  <2>3. n * Second \in Nat /\ a * Second \in Nat
    BY <2>1, ProductOrder
  <2>4. allowance' \in Int /\ allowance' >= (a - n) * Second
    BY <1>1, <1>4, <2>2, <2>3 DEF Served
  <2>5. waiting' \in [Callers -> Sizes \cup {0}]
    BY <1>1, <1>4 DEF Served, TypeOK
  <2> QED
    BY <1>1, <1>4, <2>1, <2>4, <2>5, Accrues DEF Served
<1>5. ASSUME NEW c \in Callers, NEW n \in Sizes, Unavailable(c, n) PROVE BucketInv'
  <2>1. waiting' \in [Callers -> Sizes \cup {0}]
    BY <1>1, <1>5 DEF Unavailable, TypeOK
  <2> QED
    BY <1>1, <1>5, <2>1, Accrues DEF Unavailable
<1>6. CASE UNCHANGED vars
  BY <1>1, <1>6 DEF vars, BucketInv, TypeOK, Covered
<1> QED
  BY <1>2, <1>3, <1>4, <1>5, <1>6 DEF Next, Spend

\* The bucket stays within its ceiling, and the state within its types.
THEOREM BucketTypeCorrect == Fits => (Spec => []TypeOK)
<1> SUFFICES ASSUME Fits PROVE Spec => []TypeOK
  OBVIOUS
<1>1. BucketInv => TypeOK
  BY DEF BucketInv
<1> QED
  BY <1>1, InitInv, NextInv, PTL DEF Spec

\* Where nothing overflows, no unit is served ahead of an exact bucket of the
\* configured rate and burst: accruing late, in whole tokens, and with the
\* shortcut for long gaps never lets one through early (accrueTokensLocked).
THEOREM RateKept == Fits => (Spec => []NeverTooFast)
<1> SUFFICES ASSUME Fits PROVE Spec => []NeverTooFast
  OBVIOUS
<1>1. BucketInv => NeverTooFast
  <2> SUFFICES ASSUME BucketInv PROVE NeverTooFast
    OBVIOUS
  <2>1. Accrued(tokens, gap) * Second \in Nat
    BY AccruedCovered, BucketAssumption, ProductOrder
  <2> QED
    BY <2>1, AccruedCovered DEF NeverTooFast, BucketInv, TypeOK
<1> QED
  BY <1>1, InitInv, NextInv, PTL DEF Spec

=============================================================================
