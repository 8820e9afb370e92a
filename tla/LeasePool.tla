------------------------------ MODULE LeasePool ------------------------------
(***************************************************************************)
(* The budget pool the node caches draw from: the server side of the       *)
(* BudgetService.  The repository holds no server; its integration test    *)
(* serves an in-process one (fakeBudgetSrv) whose grant, report and return *)
(* handlers are modelled line by line.  Two operations exist only in the   *)
(* documentation and in proto/ and are modelled from there: the forced     *)
(* expiry of a timed lease, and the controller's Reconcile.                *)
(*                                                                         *)
(* A lease id is <<holder, nonce>> (makeLeaseID).  A lease of the fake     *)
(* server is a row here for ever: its absence is the state "none", its     *)
(* tombstone is the state "returned" or "expired".                         *)
(***************************************************************************)
EXTENDS Integers, FiniteSets, Functions

CONSTANTS
    Holders,    \* the node caches drawing on the one pool
    MaxNonce,   \* bound of the model: lease ids per holder are 0..MaxNonce
    Cap,        \* units the budget is defined with
    Ttl,        \* lease time to live; 0 is a budget that is not timed
    Late,       \* how long after the ttl the grantor waits to reclaim
    MaxTime     \* bound of the model: the last value of the clock

ASSUME PoolAssumption ==
    /\ IsFiniteSet(Holders)
    /\ MaxNonce \in Nat
    /\ Cap \in Nat
    /\ Ttl \in Nat
    /\ Late \in Nat
    /\ MaxTime \in Nat

VARIABLES
    now,        \* real time, suspended time included
    available,  \* units that may still be granted
    leasedOut,  \* units granted and neither attested nor settled
    spent,      \* units booked as spent
    attested,   \* the part of spent that holders reported
    lease       \* one row per lease id

poolVars == <<available, leasedOut, spent, attested, lease>>

-----------------------------------------------------------------------------

LeaseIds == Holders \X (0..MaxNonce)

Row == [state     : {"none", "live", "returned", "expired"},
        amount    : Nat,
        spent     : Nat,     \* cumulative spend folded from reports
        grantedMs : Nat]

NoRow == [state |-> "none", amount |-> 0, spent |-> 0, grantedMs |-> 0]

IsLive(id) == lease[id].state = "live"

\* The sum of a function's values on a finite domain.  (The fold of the community
\* modules, spelt out: TLC takes sums at every step it checks against the escrow.)
Total(f) ==
    LET sum[s \in SUBSET DOMAIN f] ==
          IF s = {} THEN 0
          ELSE LET x == CHOOSE x \in s : TRUE IN f[x] + sum[s \ {x}]
    IN  sum[DOMAIN f]

Least(a, b) == IF a <= b THEN a ELSE b
Largest(a, b) == IF a >= b THEN a ELSE b

PoolTypeOK ==
    /\ now \in Nat
    /\ available \in Int
    /\ leasedOut \in Int
    /\ spent \in Int
    /\ attested \in Int
    /\ lease \in [LeaseIds -> Row]

\* BudgetDefine: the pool starts with its cap available.  The clock starts at
\* 1 because a monotonic reading of 0 means "un-anchored" to the caches.
PoolInit ==
    /\ now = 1
    /\ available = Cap
    /\ leasedOut = 0
    /\ spent = 0
    /\ attested = 0
    /\ lease = [id \in LeaseIds |-> NoRow]

-----------------------------------------------------------------------------

\* A draw under a new id is granted what the pool still has, up to amount.  A
\* known id changes nothing: a live one is echoed with its first timing, a
\* settled one is refused.  The reply is the row this step leaves behind.
BudgetGrant(id, amount) ==
    LET grant == Least(amount, available) IN
    IF lease[id].state = "none" /\ grant > 0
    THEN /\ lease' = [lease EXCEPT ![id] =
                        [state |-> "live", amount |-> grant,
                         spent |-> 0, grantedMs |-> now]]
         /\ available' = available - grant
         /\ leasedOut' = leasedOut + grant
         /\ UNCHANGED <<spent, attested>>
    ELSE UNCHANGED poolVars

\* The cumulative spend of a row once a report is folded in: never lower than
\* before, never above the grant.
Folded(row, reported) == Largest(row.spent, Least(reported, row.amount))

\* A report moves newly attested units from leasedOut to spent; without a live
\* lease it is refused.
BudgetReport(id, reported) ==
    LET units == Folded(lease[id], reported)
        delta == units - lease[id].spent
    IN
    IF IsLive(id)
    THEN /\ lease' = [lease EXCEPT ![id].spent = units]
         /\ leasedOut' = leasedOut - delta
         /\ spent' = spent + delta
         /\ attested' = attested + delta
         /\ UNCHANGED available
    ELSE UNCHANGED poolVars

\* Mutant of BudgetReturn: the tombstone is not looked at.
ReturnTwice(id, reported) ==
    LET row == lease[id]
        units == Folded(row, reported)
        delta == units - row.spent
    IN  /\ lease' = [lease EXCEPT ![id].spent = units, ![id].state = "returned"]
        /\ leasedOut' = leasedOut - (row.amount - row.spent)
        /\ available' = available + (row.amount - units)
        /\ spent' = spent + delta
        /\ attested' = attested + delta

\* A return folds the final report, credits the rest of the grant back and
\* leaves a tombstone; without a live lease it does nothing.
BudgetReturn(id, reported) ==
    LET row == lease[id]
        units == Folded(row, reported)
        delta == units - row.spent
    IN
    IF IsLive(id)
    THEN /\ lease' = [lease EXCEPT ![id].spent = units, ![id].state = "returned"]
         /\ leasedOut' = leasedOut - (row.amount - row.spent)
         /\ available' = available + (row.amount - units)
         /\ spent' = spent + delta
         /\ attested' = attested + delta
    ELSE UNCHANGED poolVars

\* External: the grantor reclaims a timed lease, late, and books the whole
\* unreported tail as spent.
Expire(id) ==
    LET row == lease[id] IN
    /\ Ttl > 0
    /\ IsLive(id)
    /\ now >= row.grantedMs + Ttl + Late
    /\ lease' = [lease EXCEPT ![id].state = "expired"]
    /\ leasedOut' = leasedOut - (row.amount - row.spent)
    /\ spent' = spent + (row.amount - row.spent)
    /\ UNCHANGED <<available, attested>>

\* External: the controller sets the pool's spend to the ledger's total, not
\* below what was attested nor above the cap, and the difference to what was
\* booked becomes available again.
Reconcile(acked) ==
    LET booked == Largest(attested, acked) IN
    /\ acked \in 0..Cap
    /\ spent' = booked
    /\ available' = available + (spent - booked)
    /\ UNCHANGED <<leasedOut, attested, lease>>

-----------------------------------------------------------------------------

\* Every unit of the cap is in exactly one of the pool's three accounts, and the
\* accounts agree with the lease rows: what the server's bookkeeping must keep
\* over every order of grants, reports, returns, expiries and reconciles.
Conservation ==
    /\ Cap = available + leasedOut + spent
    /\ leasedOut = Total([id \in LeaseIds |->
                            IF IsLive(id) THEN lease[id].amount - lease[id].spent
                            ELSE 0])
    /\ attested = Total([id \in LeaseIds |-> lease[id].spent])
    /\ attested <= spent

=============================================================================
