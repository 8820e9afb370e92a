---------------------------- MODULE TokenBucket ----------------------------
(***************************************************************************)
(* The pacing gate of a budget cell: its token bucket (accrueTokensLocked  *)
(* and steps (b), (d), (e) of Spend), with the arithmetic of its machine   *)
(* integers.  LeasedBudget leaves the numbers out and lets the gate        *)
(* throttle any spend; here they are exact, and what the cell has cached   *)
(* is a choice.                                                            *)
(*                                                                         *)
(* Only the gap since the last accrual matters of the clock.  The cell is  *)
(* shared: while one caller is throttled others spend, take its tokens and *)
(* move the time of the last accrual.  A throttled caller tries again with *)
(* the same units.                                                         *)
(***************************************************************************)
EXTENDS Integers

CONSTANTS
    Rate,       \* tokens per second; a paced cell, so above 0
    Burst,      \* the bucket's ceiling
    Second,     \* clock ticks in a second (nsPerSec)
    Width,      \* bits of a machine integer
    Callers,    \* the goroutines that call Spend on the cell
    Sizes,      \* the n of the Spend calls
    Patience,   \* least time between two Spends while a caller is throttled
    MaxGap      \* bound of the model: gaps are not told apart beyond it

ASSUME BucketAssumption ==
    /\ Rate \in Nat \ {0}
    /\ Burst \in Nat \ {0}
    /\ Second \in Nat \ {0}
    /\ Width \in Nat \ {0}
    /\ Sizes \subseteq Nat \ {0}
    /\ Patience \in Nat
    /\ MaxGap \in Nat

VARIABLES
    tokens,     \* tokens in the bucket, as of the last accrual
    gap,        \* time since the last accrual
    waiting,    \* units each caller was last throttled for; 0 is not throttled
    allowance   \* history: what an exact bucket would hold, in 1/Second tokens

vars == <<tokens, gap, waiting, allowance>>

Least(a, b) == IF a <= b THEN a ELSE b

-----------------------------------------------------------------------------
(* Machine arithmetic *)

\* Two's complement: the value x wraps to.
Wrap(x) == ((x + 2^(Width - 1)) % 2^Width) - 2^(Width - 1)

\* Division that truncates towards zero.
Quotient(a, b) == IF a >= 0 THEN a \div b ELSE -((-a) \div b)

\* The gap that fills any bucket.
FullRefill == Wrap(Wrap((Burst \div Rate) + 1) * Second)

\* Mutant of Accrued: the bucket has no ceiling.
AccruedUncapped(t, e) ==
    IF e <= 0 THEN t
    ELSE IF e >= FullRefill THEN Burst
    ELSE t + Quotient(Wrap(Rate * e), Second)

\* Mutant of Accrued: a part of a token counts as a whole one.
AccruedRoundedUp(t, e) ==
    IF e <= 0 THEN t
    ELSE IF e >= FullRefill THEN Burst
    ELSE Least(Wrap(t + Quotient(Wrap(Rate * e) + Second - 1, Second)), Burst)

\* Mutant of Accrued: the rate is divided first.
AccruedBySecond(t, e) ==
    IF e <= 0 THEN t
    ELSE IF e >= FullRefill THEN Burst
    ELSE Least(Wrap(t + Wrap(Quotient(Rate, Second) * e)), Burst)

\* The tokens once a gap e has been accrued on t tokens.
Accrued(t, e) ==
    IF e <= 0 THEN t
    ELSE IF e >= FullRefill THEN Burst
    ELSE Least(Wrap(t + Quotient(Wrap(Rate * e), Second)), Burst)

-----------------------------------------------------------------------------

\* A bucket starts full.
Init ==
    /\ tokens = Burst
    /\ gap = 0
    /\ waiting = [c \in Callers |-> 0]
    /\ allowance = Burst * Second

\* Time passes; an exact bucket accrues continuously.
Tick ==
    /\ gap' = Least(gap + 1, MaxGap)
    /\ allowance' = Least(allowance + Rate, Burst * Second)
    /\ UNCHANGED <<tokens, waiting>>

Nobody == \A c \in Callers : waiting[c] = 0

\* Who may call Spend now: a caller that is not throttled, or one that is, with the
\* same units; and neither too soon after the last while one is throttled.
MayCall(c, n) == waiting[c] \in {0, n} /\ (Nobody \/ gap >= Patience)

\* Every paced Spend accrues first, however it then ends.
Throttled(c, n) ==
    /\ MayCall(c, n)
    /\ Accrued(tokens, gap) < n
    /\ tokens' = Accrued(tokens, gap)
    /\ gap' = 0
    /\ waiting' = [waiting EXCEPT ![c] = n]
    /\ UNCHANGED allowance

\* The cell serves the units, and the tokens are debited.
Served(c, n) ==
    /\ MayCall(c, n)
    /\ Accrued(tokens, gap) >= n
    /\ tokens' = Accrued(tokens, gap) - n
    /\ gap' = 0
    /\ waiting' = [waiting EXCEPT ![c] = 0]
    /\ allowance' = allowance - n * Second

\* The cell has not the units cached: the accrual stays, nothing is debited.
Unavailable(c, n) ==
    /\ MayCall(c, n)
    /\ Accrued(tokens, gap) >= n
    /\ tokens' = Accrued(tokens, gap)
    /\ gap' = 0
    /\ waiting' = [waiting EXCEPT ![c] = 0]
    /\ UNCHANGED allowance

Spend(c, n) == Throttled(c, n) \/ Served(c, n) \/ Unavailable(c, n)

Next == Tick \/ \E c \in Callers, n \in Sizes : Spend(c, n)

\* Time goes on, and whoever is throttled tries again.
Spec ==
    /\ Init
    /\ [][Next]_vars
    /\ WF_vars(Tick)
    /\ \A c \in Callers : WF_vars(\E n \in Sizes : waiting[c] = n /\ Spend(c, n))

-----------------------------------------------------------------------------
(* Properties *)

TypeOK ==
    /\ tokens \in 0..Burst
    /\ gap \in 0..MaxGap
    /\ waiting \in [Callers -> Sizes \cup {0}]
    /\ allowance \in Int

\* Delivery is shaped to the rate: what is served never runs ahead of an exact
\* bucket of that rate and ceiling, over any stretch of time.  The bucket accrues
\* only when it is looked at and in whole tokens, and takes a shortcut for long
\* gaps (accrueTokensLocked); none of it may let a unit through early.
NeverTooFast == allowance >= 0

PassesGate(c, n) == Served(c, n) \/ Unavailable(c, n)

\* However the callers interleave, they cannot all be throttled for ever for units the
\* bucket can hold: either there are always times again when nobody is, or spends keep
\* passing the gate.  (One caller may starve: the others can take every token.)  A
\* throttled spend is "to be retried after tokens accrue" (ErrPacingThrottled), so
\* tokens must accrue.
GateOpens ==
    \/ []<>Nobody
    \/ []<><<\E c \in Callers, n \in Sizes : PassesGate(c, n)>>_vars

=============================================================================
