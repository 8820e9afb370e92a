---------------------------- MODULE LeasedBudget ----------------------------
(***************************************************************************)
(* The node-side lease cache of a budget (leasedbudget.go), for several    *)
(* holders over one LeasePool.                                             *)
(*                                                                         *)
(* A holder is one Acquired Budget: a cell with a current and a buffered   *)
(* chunk, goroutines that Spend from it, background refills, and a Return. *)
(* The cell's mutex is held over whole critical sections only, so each of  *)
(* them is one action; what runs without it (the closed flag, the          *)
(* compare-and-swap of refilling, every RPC, the freshness gate) is a step *)
(* of its own.  An RPC is a request put in net.  The server takes requests *)
(* in any order; one that is never taken is lost, and one taken after its  *)
(* caller gave up is late.  A holder that crashes or is suspended is one   *)
(* that takes no further step while the clock goes on.                     *)
(***************************************************************************)
EXTENDS LeasePool, Sequences

CONSTANTS
    NoChunk,       \* stands for a nil *leaseChunk
    Spenders,      \* the goroutines of a holder that call Spend
    Slots,         \* room for background refills that run at the same time
    ChunkUnits,    \* units asked for per refill
    SpendSizes,    \* the n of the Spend calls
    Guard,         \* self_guard echoed by the server
    MaxPause,      \* max_pause_budget echoed by the server; 0 is no fence
    MaxAttempts,   \* maxRefillAttempts
    Skew,          \* how far a holder's wall clock may be off
    Gap,           \* longest time from the freshness gate to the install
    ClockFails,    \* whether reading CLOCK_BOOTTIME fails, persistently
    Paced,         \* whether the node token bucket is on (WithRate)
    SpinOutlasts,  \* whether Return's bounded spin outlasts a refill
    LateReconcile, \* whether a Reconcile may be taken with an outdated figure
    MaxCalls       \* bound of the model: Reconcile calls under way

ASSUME CacheAssumption ==
    /\ NoChunk \notin [id : LeaseIds, remaining : Nat, deadline : Int,
                       spent : Nat, reported : Nat]
    /\ ChunkUnits \in Nat \ {0}
    /\ SpendSizes \subseteq Nat \ {0}
    /\ Guard \in Nat
    /\ MaxPause \in Nat
    /\ MaxAttempts \in Nat \ {0}
    /\ Skew \in Nat
    /\ Gap \in Nat
    /\ ClockFails \in BOOLEAN
    /\ Paced \in BOOLEAN
    /\ SpinOutlasts \in BOOLEAN
    /\ LateReconcile \in BOOLEAN
    /\ MaxCalls \in Nat

VARIABLES
    cur, nxt,      \* the cell's double buffer
    lastSeen,      \* clock of the last served spend; 0 is un-anchored
    maxPause,      \* the fence installed by a grant; 0 is none yet
    nonce,         \* nonce of the next logical refill
    closed,        \* set by Return
    refilling,     \* the single-flight flag
    phase,         \* where the holder is between Acquire and Return
    settle,        \* chunks Return has taken and not yet settled
    spender,       \* where each Spend call is
    refill,        \* the refill running in each slot
    skew,          \* wall clock minus real time
    calls,         \* Reconcile calls the server has not taken
    net,           \* requests the server has not taken
    served         \* history: units Spend has served from each lease

cellVars == <<cur, nxt, lastSeen, maxPause, nonce>>
flagVars == <<closed, refilling, phase, settle>>
procVars == <<spender, refill>>
vars == <<now, poolVars, cellVars, flagVars, procVars, skew, calls, net, served>>

-----------------------------------------------------------------------------
(* Types *)

LeaseChunk == [id : LeaseIds, remaining : Nat, deadline : Int,
               spent : Nat, reported : Nat]

Request == [kind : {"draw", "report", "return"}, id : LeaseIds, units : Nat]

DrawRequest(id) == [kind |-> "draw", id |-> id, units |-> ChunkUnits]
ReportRequest(id, units) == [kind |-> "report", id |-> id, units |-> units]
ReturnRequest(id, units) == [kind |-> "return", id |-> id, units |-> units]

\* A Reconcile carries the ledger's total; asOf is a history, the settlements when
\* the ledger was read.
ReconcileCall == [acked : 0..Cap, asOf : [LeaseIds -> Nat]]

\* A refill's locals.  nonce is its own copy, rep the spend it attests, row the
\* server's answer to its draw, gatedAt when that answer passed the gate.
Refill == [pc      : {"idle", "begin", "reporting", "reported", "drawing",
                      "replied", "gated", "done"},
           nonce   : 0..MaxNonce,
           attempt : 0..MaxAttempts,
           rep     : [id : LeaseIds \cup {NoChunk}, spent : Nat],
           row     : Row,
           gatedAt : Nat]

IdleRefill == [pc |-> "idle", nonce |-> 0, attempt |-> 0,
               rep |-> [id |-> NoChunk, spent |-> 0],
               row |-> NoRow, gatedAt |-> 0]

\* A refill about to take its snapshot.
BegunRefill == [IdleRefill EXCEPT !.pc = "begin"]

\* A refill that only has its deferred reset left to do.
EndedRefill == [IdleRefill EXCEPT !.pc = "done"]

CellTypeOK ==
    /\ cur \in [Holders -> LeaseChunk \cup {NoChunk}]
    /\ nxt \in [Holders -> LeaseChunk \cup {NoChunk}]
    /\ lastSeen \in [Holders -> Nat]
    /\ maxPause \in [Holders -> {0, MaxPause}]
    /\ nonce \in [Holders -> 0..(MaxNonce + 1)]

FlagTypeOK ==
    /\ closed \in [Holders -> BOOLEAN]
    /\ refilling \in [Holders -> BOOLEAN]
    /\ phase \in [Holders -> {"new", "acquiring", "open", "drain", "settle",
                              "await", "returned"}]
    /\ settle \in [Holders -> Seq(LeaseChunk)]

SpenderTypeOK ==
    spender \in [Holders -> [Spenders -> {"idle", "lock", "trigger", "cas"}]]

RefillTypeOK == refill \in [Holders -> [Slots -> Refill]]

TypeOK ==
    /\ PoolTypeOK
    /\ CellTypeOK
    /\ FlagTypeOK
    /\ SpenderTypeOK
    /\ RefillTypeOK
    /\ skew \in [Holders -> (-Skew)..Skew]
    /\ calls \subseteq ReconcileCall
    /\ net \subseteq Request
    /\ served \in [LeaseIds -> Nat]

-----------------------------------------------------------------------------
(* Clocks and helpers of the cell *)

\* Mutant of nowMono: a clock that does not advance while the host is suspended.
FrozenClock == 1

\* The suspend-aware monotonic clock: CLOCK_BOOTTIME counts real time, and 0 is
\* read for it when the system call fails.
nowMono == IF ClockFails THEN 0 ELSE now

\* The wall clock the freshness gate compares with the server's granted_ms.
wallNow(h) == now + skew[h]

\* The deadline of a chunk of a budget that is not timed: later than any time.
MaxMonoDeadline == MaxTime + 1

lowWatermark == Largest(ChunkUnits \div 4, 1)

\* cur once promoteLocked has dropped it if it is expired or drained.
Kept(c) == IF c # NoChunk /\ (nowMono >= c.deadline \/ c.remaining = 0)
           THEN NoChunk ELSE c

\* cur and nxt after promoteLocked: an empty cur takes the buffered chunk, which
\* is dropped too if its own deadline has passed.
PromotedCur(c, x) ==
    IF Kept(c) = NoChunk /\ x # NoChunk
    THEN IF nowMono >= x.deadline THEN NoChunk ELSE x
    ELSE Kept(c)

\* Mutant of PromotedNext: the promoted chunk is left in the buffer too.
PromotedNextKept(c, x) == x

PromotedNext(c, x) == IF Kept(c) = NoChunk THEN NoChunk ELSE x

\* Mutant of Installed: the deadline forgets self_guard.
InstalledUnguarded(id, row) ==
    [id |-> id, remaining |-> row.amount,
     deadline |-> IF Ttl > 0 THEN nowMono + Ttl ELSE MaxMonoDeadline,
     spent |-> 0, reported |-> 0]

\* Mutant of Installed: a partial grant is taken for a full one.
InstalledInFull(id, row) ==
    [id |-> id, remaining |-> ChunkUnits,
     deadline |-> IF Ttl > 0 THEN nowMono + Ttl - Guard ELSE MaxMonoDeadline,
     spent |-> 0, reported |-> 0]

\* The chunk an install buffers.
Installed(id, row) ==
    [id |-> id, remaining |-> row.amount,
     deadline |-> IF Ttl > 0 THEN nowMono + Ttl - Guard ELSE MaxMonoDeadline,
     spent |-> 0, reported |-> 0]

makeLeaseID(h, k) == <<h, k>>

\* Mutant of NextNonce: a committed refill does not rotate the nonce.
SameNonce(k) == k

\* The nonce of the next logical refill, once one with nonce k has committed.
NextNonce(k) == k + 1

\* Mutant of MayRefill: no single-flight guard.
AlwaysRefill(h) == TRUE

\* What the compare-and-swap of the single-flight flag tests.
MayRefill(h) == ~refilling[h]

-----------------------------------------------------------------------------

Init ==
    /\ PoolInit
    /\ cur = [h \in Holders |-> NoChunk]
    /\ nxt = [h \in Holders |-> NoChunk]
    /\ lastSeen = [h \in Holders |-> 0]
    /\ maxPause = [h \in Holders |-> 0]
    /\ nonce = [h \in Holders |-> 0]
    /\ closed = [h \in Holders |-> FALSE]
    /\ refilling = [h \in Holders |-> FALSE]
    /\ phase = [h \in Holders |-> "new"]
    /\ settle = [h \in Holders |-> << >>]
    /\ spender = [h \in Holders |-> [t \in Spenders |-> "idle"]]
    /\ refill = [h \in Holders |-> [w \in Slots |-> IdleRefill]]
    /\ skew \in [Holders -> (-Skew)..Skew]
    /\ calls = {}
    /\ net = {}
    /\ served = [id \in LeaseIds |-> 0]

-----------------------------------------------------------------------------

\* The next place of a Spend call, and the next state of a refill.
SpenderGoesTo(h, t, pc) == spender' = [spender EXCEPT ![h][t] = pc]
RefillBecomes(h, w, r) == refill' = [refill EXCEPT ![h][w] = r]

-----------------------------------------------------------------------------
(* Spend *)

\* Spend up to its check of the closed flag, which is made without the lock.
SpendBegin(h, t) ==
    /\ phase[h] \notin {"new", "acquiring"}
    /\ spender[h][t] = "idle"
    /\ ~closed[h]
    /\ SpenderGoesTo(h, t, "lock")
    /\ UNCHANGED <<now, poolVars, cellVars, flagVars, refill, skew, calls, net,
                   served>>

\* More than the pause budget has passed since the last served spend.
Fenced(h) ==
    /\ maxPause[h] > 0
    /\ lastSeen[h] # 0
    /\ nowMono - lastSeen[h] > maxPause[h]

\* (a) The self-fence drops both chunks, re-anchors, and asks for a refill.
SelfFence(h, t) ==
    /\ spender[h][t] = "lock"
    /\ Fenced(h)
    /\ cur' = [cur EXCEPT ![h] = NoChunk]
    /\ nxt' = [nxt EXCEPT ![h] = NoChunk]
    /\ lastSeen' = [lastSeen EXCEPT ![h] = nowMono]
    /\ SpenderGoesTo(h, t, "trigger")
    /\ UNCHANGED <<now, poolVars, maxPause, nonce, flagVars, refill, skew,
                   calls, net, served>>

\* (b) The token bucket is short.  Its arithmetic is left out: a paced cell may
\* throttle any spend.  Nothing else changes, and no refill is asked for.
PaceOut(h, t) ==
    /\ spender[h][t] = "lock"
    /\ ~Fenced(h)
    /\ Paced
    /\ SpenderGoesTo(h, t, "idle")
    /\ UNCHANGED <<now, poolVars, cellVars, flagVars, refill, skew, calls, net,
                   served>>

\* Mutant of CanServe: the units left are not compared with n.
ServesAnyChunk(h, n) == PromotedCur(cur[h], nxt[h]) # NoChunk

\* Whether, after promotion, cur can serve n units.
CanServe(h, n) ==
    LET c == PromotedCur(cur[h], nxt[h]) IN c # NoChunk /\ c.remaining >= n

\* (c), (d) Promote, then serve n units from cur; a cur left under the low
\* watermark with nothing buffered asks for a refill.
SpendCached(h, t, n) ==
    LET c == PromotedCur(cur[h], nxt[h])
        x == PromotedNext(cur[h], nxt[h])
    IN
    /\ spender[h][t] = "lock"
    /\ ~Fenced(h)
    /\ CanServe(h, n)
    /\ cur' = [cur EXCEPT ![h] =
                 [c EXCEPT !.remaining = @ - n, !.spent = @ + n]]
    /\ nxt' = [nxt EXCEPT ![h] = x]
    /\ lastSeen' = [lastSeen EXCEPT ![h] = nowMono]
    /\ served' = [served EXCEPT ![c.id] = @ + n]
    /\ SpenderGoesTo(h, t, IF c.remaining - n < lowWatermark /\ x = NoChunk
                           THEN "trigger" ELSE "idle")
    /\ UNCHANGED <<now, poolVars, maxPause, nonce, flagVars, refill, skew,
                   calls, net>>

\* (c), (e) Promote, refuse n units, and ask for a refill.
SpendRefused(h, t, n) ==
    /\ spender[h][t] = "lock"
    /\ ~Fenced(h)
    /\ ~CanServe(h, n)
    /\ cur' = [cur EXCEPT ![h] = PromotedCur(cur[h], nxt[h])]
    /\ nxt' = [nxt EXCEPT ![h] = PromotedNext(cur[h], nxt[h])]
    /\ SpenderGoesTo(h, t, "trigger")
    /\ UNCHANGED <<now, poolVars, lastSeen, maxPause, nonce, flagVars, refill,
                   skew, calls, net, served>>

\* requestRefill, first half: a closed cell starts no refill.
TriggerCheck(h, t) ==
    /\ spender[h][t] = "trigger"
    /\ SpenderGoesTo(h, t, IF closed[h] THEN "idle" ELSE "cas")
    /\ UNCHANGED <<now, poolVars, cellVars, flagVars, refill, skew, calls, net,
                   served>>

\* requestRefill, second half: the compare-and-swap won, a refill goroutine
\* starts in a free slot.
StartRefill(h, t, w) ==
    /\ spender[h][t] = "cas"
    /\ MayRefill(h)
    /\ refill[h][w].pc = "idle"
    /\ refilling' = [refilling EXCEPT ![h] = TRUE]
    /\ RefillBecomes(h, w, BegunRefill)
    /\ SpenderGoesTo(h, t, "idle")
    /\ UNCHANGED <<now, poolVars, cellVars, closed, phase, settle, skew, calls,
                   net, served>>

\* The compare-and-swap lost: a refill is in flight.
AlreadyRefilling(h, t) ==
    /\ spender[h][t] = "cas"
    /\ ~MayRefill(h)
    /\ SpenderGoesTo(h, t, "idle")
    /\ UNCHANGED <<now, poolVars, cellVars, flagVars, refill, skew, calls, net,
                   served>>

-----------------------------------------------------------------------------
(* Acquire and refillOnce *)

\* Acquire runs its first refill itself: no other goroutine has the cell yet and
\* the single-flight flag is not set.
Acquire(h, w) ==
    /\ phase[h] = "new"
    /\ phase' = [phase EXCEPT ![h] = "acquiring"]
    /\ RefillBecomes(h, w, BegunRefill)
    /\ UNCHANGED <<now, poolVars, cellVars, closed, refilling, settle, spender,
                   skew, calls, net, served>>

\* The snapshot finds a chunk buffered already, or (a bound of the model) no
\* lease id left.
RefillNotNeeded(h, w) ==
    /\ refill[h][w].pc = "begin"
    /\ nxt[h] # NoChunk \/ nonce[h] > MaxNonce
    /\ RefillBecomes(h, w, EndedRefill)
    /\ UNCHANGED <<now, poolVars, cellVars, flagVars, spender, skew, calls, net,
                   served>>

\* The snapshot, when cur has spend it has not attested: report it first.
RefillAttest(h, w) ==
    /\ refill[h][w].pc = "begin"
    /\ nxt[h] = NoChunk
    /\ nonce[h] <= MaxNonce
    /\ cur[h] # NoChunk
    /\ cur[h].spent > cur[h].reported
    /\ RefillBecomes(h, w,
         [refill[h][w] EXCEPT !.pc = "reporting",
                              !.nonce = nonce[h],
                              !.rep = [id |-> cur[h].id, spent |-> cur[h].spent]])
    /\ net' = net \cup {ReportRequest(cur[h].id, cur[h].spent)}
    /\ UNCHANGED <<now, poolVars, cellVars, flagVars, spender, skew, calls,
                   served>>

\* The snapshot, when there is nothing to attest: the first draw.
RefillDraw(h, w) ==
    /\ refill[h][w].pc = "begin"
    /\ nxt[h] = NoChunk
    /\ nonce[h] <= MaxNonce
    /\ cur[h] # NoChunk => cur[h].spent <= cur[h].reported
    /\ RefillBecomes(h, w,
         [refill[h][w] EXCEPT !.pc = "drawing",
                              !.nonce = nonce[h]])
    /\ net' = net \cup {DrawRequest(makeLeaseID(h, nonce[h]))}
    /\ UNCHANGED <<now, poolVars, cellVars, flagVars, spender, skew, calls,
                   served>>

\* The report was accepted: note it on cur if cur is still that chunk.
RefillReported(h, w) ==
    LET r == refill[h][w] IN
    /\ r.pc = "reported"
    /\ cur' = [cur EXCEPT ![h] =
                 IF @ # NoChunk /\ @.id = r.rep.id
                 THEN [@ EXCEPT !.reported = r.rep.spent] ELSE @]
    /\ RefillBecomes(h, w,
         [refill[h][w] EXCEPT !.pc = "drawing",
                              !.rep = IdleRefill.rep])
    /\ net' = net \cup {DrawRequest(makeLeaseID(h, r.nonce))}
    /\ UNCHANGED <<now, poolVars, nxt, lastSeen, maxPause, nonce, flagVars,
                   spender, skew, calls, served>>

\* The report failed, or its answer was lost: draw all the same.
ReportFailed(h, w) ==
    /\ refill[h][w].pc \in {"reporting", "reported"}
    /\ RefillBecomes(h, w,
         [refill[h][w] EXCEPT !.pc = "drawing",
                              !.rep = IdleRefill.rep])
    /\ net' = net \cup {DrawRequest(makeLeaseID(h, refill[h][w].nonce))}
    /\ UNCHANGED <<now, poolVars, cellVars, flagVars, spender, skew, calls,
                   served>>

\* Mutant of Redraw: the turns of the redraw loop are not counted.
RedrawUncounted(h, w) ==
    LET r == refill[h][w] IN
    IF r.nonce < MaxNonce
    THEN /\ RefillBecomes(h, w, [r EXCEPT !.pc = "drawing", !.nonce = @ + 1,
                                          !.row = NoRow])
         /\ net' = net \cup {DrawRequest(makeLeaseID(h, r.nonce + 1))}
    ELSE /\ RefillBecomes(h, w, EndedRefill)
         /\ UNCHANGED net

\* The next turn of the redraw loop, with a fresh nonce, or its exhaustion.
Redraw(h, w) ==
    LET r == refill[h][w] IN
    IF r.attempt + 1 < MaxAttempts /\ r.nonce < MaxNonce
    THEN /\ RefillBecomes(h, w, [r EXCEPT !.pc = "drawing",
                                          !.nonce = @ + 1,
                                          !.attempt = @ + 1,
                                          !.row = NoRow])
         /\ net' = net \cup {DrawRequest(makeLeaseID(h, r.nonce + 1))}
    ELSE /\ RefillBecomes(h, w, EndedRefill)
         /\ UNCHANGED net

\* The answer is AlreadyExists: the id is tombstoned.
RefillSettled(h, w) ==
    /\ refill[h][w].pc = "replied"
    /\ refill[h][w].row.state \in {"returned", "expired"}
    /\ Redraw(h, w)
    /\ UNCHANGED <<now, poolVars, cellVars, flagVars, spender, skew, calls,
                   served>>

\* Mutant of Stale: no freshness gate.
NeverStale(h, row) == FALSE

\* The transit of a timed grant took longer than self_guard, as the holder's
\* wall clock has it.
Stale(h, row) == Ttl > 0 /\ wallNow(h) - row.grantedMs > Guard

\* The freshness gate rejects the grant.
RefillStale(h, w) ==
    /\ refill[h][w].pc = "replied"
    /\ refill[h][w].row.state = "live"
    /\ Stale(h, refill[h][w].row)
    /\ Redraw(h, w)
    /\ UNCHANGED <<now, poolVars, cellVars, flagVars, spender, skew, calls,
                   served>>

\* The pool has no capacity, or the draw failed or was never answered.
RefillGivesUp(h, w) ==
    /\ \/ refill[h][w].pc = "drawing"
       \/ refill[h][w].pc = "replied"
    /\ RefillBecomes(h, w, EndedRefill)
    /\ UNCHANGED <<now, poolVars, cellVars, flagVars, spender, skew, calls, net,
                   served>>

\* The freshness gate passes the grant.  The cell's lock is not held.
RefillFresh(h, w) ==
    /\ refill[h][w].pc = "replied"
    /\ refill[h][w].row.state = "live"
    /\ ~Stale(h, refill[h][w].row)
    /\ RefillBecomes(h, w,
         [refill[h][w] EXCEPT !.pc = "gated",
                              !.gatedAt = now])
    /\ UNCHANGED <<now, poolVars, cellVars, flagVars, spender, skew, calls, net,
                   served>>

\* Under the lock: buffer the chunk, stamp its deadline, set the fence, rotate
\* the nonce, promote.
RefillInstall(h, w) ==
    LET r == refill[h][w]
        x == Installed(makeLeaseID(h, r.nonce), r.row)
    IN
    /\ r.pc = "gated"
    /\ cur' = [cur EXCEPT ![h] = PromotedCur(cur[h], x)]
    /\ nxt' = [nxt EXCEPT ![h] = PromotedNext(cur[h], x)]
    /\ maxPause' = [maxPause EXCEPT ![h] = IF MaxPause > 0 THEN MaxPause ELSE @]
    /\ lastSeen' = [lastSeen EXCEPT ![h] = nowMono]
    /\ nonce' = [nonce EXCEPT ![h] = NextNonce(r.nonce)]
    /\ RefillBecomes(h, w, EndedRefill)
    /\ UNCHANGED <<now, poolVars, flagVars, spender, skew, calls, net, served>>

\* Mutant of RefillDone: the deferred reset of the single-flight flag is lost.
RefillDoneKeepsFlag(h, w) ==
    /\ refill[h][w].pc = "done"
    /\ RefillBecomes(h, w, IdleRefill)
    /\ phase' = [phase EXCEPT ![h] = IF @ = "acquiring" THEN "open" ELSE @]
    /\ UNCHANGED <<now, poolVars, cellVars, closed, refilling, settle, spender,
                   skew, calls, net, served>>

\* The refill ends: Acquire returns the Budget, or the single-flight flag falls.
RefillDone(h, w) ==
    /\ refill[h][w].pc = "done"
    /\ RefillBecomes(h, w, IdleRefill)
    /\ IF phase[h] = "acquiring"
       THEN phase' = [phase EXCEPT ![h] = "open"] /\ UNCHANGED refilling
       ELSE refilling' = [refilling EXCEPT ![h] = FALSE] /\ UNCHANGED phase
    /\ UNCHANGED <<now, poolVars, cellVars, closed, settle, spender, skew,
                   calls, net, served>>

-----------------------------------------------------------------------------
(* Return *)

\* Return closes the cell, then spins for the refill in flight.  It may be
\* called again once it is done.
ReturnBegin(h) ==
    /\ phase[h] \in {"open", "returned"}
    /\ closed' = [closed EXCEPT ![h] = TRUE]
    /\ phase' = [phase EXCEPT ![h] = "drain"]
    /\ UNCHANGED <<now, poolVars, cellVars, refilling, settle, procVars, skew,
                   calls, net, served>>

\* The chunks of the cell, in the order they are settled.
Held(h) == (IF cur[h] = NoChunk THEN << >> ELSE <<cur[h]>>)
           \o (IF nxt[h] = NoChunk THEN << >> ELSE <<nxt[h]>>)

\* The spin ends, because no refill is in flight or because its bound is
\* reached, and Return takes the chunks under the lock.
ReturnTake(h) ==
    /\ phase[h] = "drain"
    /\ ~refilling[h] \/ ~SpinOutlasts
    /\ settle' = [settle EXCEPT ![h] = Held(h)]
    /\ cur' = [cur EXCEPT ![h] = NoChunk]
    /\ nxt' = [nxt EXCEPT ![h] = NoChunk]
    /\ phase' = [phase EXCEPT ![h] = "settle"]
    /\ UNCHANGED <<now, poolVars, lastSeen, maxPause, nonce, closed, refilling,
                   procVars, skew, calls, net, served>>

\* Mutant of FinalSpend: settle at the spend last attested.
StaleSpend(c) == c.reported

\* The spend a chunk is settled at.
FinalSpend(c) == c.spent

\* The RPC that settles the next chunk.
ReturnCall(h) ==
    /\ phase[h] = "settle"
    /\ settle[h] # << >>
    /\ net' = net \cup {ReturnRequest(Head(settle[h]).id, FinalSpend(Head(settle[h])))}
    /\ phase' = [phase EXCEPT ![h] = "await"]
    /\ UNCHANGED <<now, poolVars, cellVars, closed, refilling, settle, procVars,
                   skew, calls, served>>

\* Mutant of ReturnNext: a chunk whose RPC failed is tried again.
ReturnRetries(h) ==
    /\ phase[h] = "await"
    /\ phase' = [phase EXCEPT ![h] = "settle"]
    /\ UNCHANGED <<now, poolVars, cellVars, closed, refilling, settle, procVars,
                   skew, calls, net, served>>

\* Mutant of ReturnNext: the first chunk whose RPC fails ends the loop.
ReturnStops(h) ==
    /\ phase[h] = "await"
    /\ settle' = [settle EXCEPT ![h] = << >>]
    /\ phase' = [phase EXCEPT ![h] = "settle"]
    /\ UNCHANGED <<now, poolVars, cellVars, closed, refilling, procVars, skew,
                   calls, net, served>>

\* It is answered, or fails: either way Return goes on and never comes back to
\* that chunk.
ReturnNext(h) ==
    /\ phase[h] = "await"
    /\ settle[h] # << >>
    /\ settle' = [settle EXCEPT ![h] = Tail(@)]
    /\ phase' = [phase EXCEPT ![h] = "settle"]
    /\ UNCHANGED <<now, poolVars, cellVars, closed, refilling, procVars, skew,
                   calls, net, served>>

ReturnEnd(h) ==
    /\ phase[h] = "settle"
    /\ settle[h] = << >>
    /\ phase' = [phase EXCEPT ![h] = "returned"]
    /\ UNCHANGED <<now, poolVars, cellVars, closed, refilling, settle, procVars,
                   skew, calls, net, served>>

-----------------------------------------------------------------------------
(* The server, the grantor's reclaim, the controller, and time *)

\* The server takes a draw.  A refill still waiting for it has its answer: the
\* row as the handler leaves it.
ServerDraw(m) ==
    /\ m.kind = "draw"
    /\ BudgetGrant(m.id, m.units)
    /\ refill' = [h \in Holders |-> [w \in Slots |->
                    LET r == refill[h][w] IN
                    IF r.pc = "drawing" /\ makeLeaseID(h, r.nonce) = m.id
                    THEN [r EXCEPT !.pc = "replied", !.row = lease'[m.id]]
                    ELSE r]]
    /\ net' = net \ {m}
    /\ UNCHANGED <<now, cellVars, flagVars, spender, skew, calls, served>>

\* The server takes a report; only an accepted one is answered without error.
ServerReport(m) ==
    /\ m.kind = "report"
    /\ BudgetReport(m.id, m.units)
    /\ refill' = [h \in Holders |-> [w \in Slots |->
                    LET r == refill[h][w] IN
                    IF /\ r.pc = "reporting"
                       /\ r.rep = [id |-> m.id, spent |-> m.units]
                       /\ IsLive(m.id)
                    THEN [r EXCEPT !.pc = "reported"]
                    ELSE r]]
    /\ net' = net \ {m}
    /\ UNCHANGED <<now, cellVars, flagVars, spender, skew, calls, served>>

\* The server takes a return.
ServerReturn(m) ==
    /\ m.kind = "return"
    /\ BudgetReturn(m.id, m.units)
    /\ net' = net \ {m}
    /\ UNCHANGED <<now, cellVars, flagVars, procVars, skew, calls, served>>

Reclaim(id) ==
    /\ Expire(id)
    /\ UNCHANGED <<now, cellVars, flagVars, procVars, skew, calls, net, served>>

\* What the pool has settled of each lease: the spend reported while it is live,
\* all that was served from it once it is returned or reclaimed.
Settled == [id \in LeaseIds |-> IF IsLive(id) THEN lease[id].spent ELSE served[id]]

\* The controller reads the ledger of all units served and calls Reconcile with the
\* total (or with the cap, to which the server would lower it).
ControllerReconcile(acked) ==
    /\ Cardinality(calls) < MaxCalls
    /\ acked = Least(Total(served), Cap)
    /\ calls' = calls \cup {[acked |-> acked, asOf |-> Settled]}
    /\ UNCHANGED <<now, poolVars, cellVars, flagVars, procVars, skew, net, served>>

\* Nothing has been settled since the figure of the call was read.
UpToDate(c) == c.asOf = Settled

\* External: the server takes a Reconcile, however late; one it never takes is lost.
\* Nothing in the request tells it how old the figure is (budget.proto:102-109), so
\* that it is in time is an assumption: LateReconcile is FALSE.
ServerReconcile(c) ==
    /\ LateReconcile \/ UpToDate(c)
    /\ Reconcile(c.acked)
    /\ calls' = calls \ {c}
    /\ UNCHANGED <<now, cellVars, flagVars, procVars, skew, net, served>>

\* Time passes, whatever the holders do: this is also how a pause or a suspend
\* happens.  Gap bounds how long a gated refill can be kept from its install.
Tick ==
    /\ now < MaxTime
    /\ \A h \in Holders, w \in Slots :
         refill[h][w].pc = "gated" => now < refill[h][w].gatedAt + Gap
    /\ now' = now + 1
    /\ UNCHANGED <<poolVars, cellVars, flagVars, procVars, skew, calls, net,
                   served>>

-----------------------------------------------------------------------------

SpendStep(h, t) ==
    \/ SpendBegin(h, t)
    \/ SelfFence(h, t)
    \/ PaceOut(h, t)
    \/ \E n \in SpendSizes : SpendCached(h, t, n) \/ SpendRefused(h, t, n)
    \/ TriggerCheck(h, t)
    \/ AlreadyRefilling(h, t)
    \/ \E w \in Slots : StartRefill(h, t, w)

RefillStep(h, w) ==
    \/ RefillNotNeeded(h, w)
    \/ RefillAttest(h, w)
    \/ RefillDraw(h, w)
    \/ RefillReported(h, w)
    \/ ReportFailed(h, w)
    \/ RefillSettled(h, w)
    \/ RefillStale(h, w)
    \/ RefillGivesUp(h, w)
    \/ RefillFresh(h, w)
    \/ RefillInstall(h, w)
    \/ RefillDone(h, w)

ReturnStep(h) ==
    ReturnTake(h) \/ ReturnCall(h) \/ ReturnNext(h) \/ ReturnEnd(h)

Next ==
    \/ \E h \in Holders, t \in Spenders : SpendStep(h, t)
    \/ \E h \in Holders, w \in Slots : Acquire(h, w) \/ RefillStep(h, w)
    \/ \E h \in Holders : ReturnBegin(h) \/ ReturnStep(h)
    \/ \E m \in net : ServerDraw(m) \/ ServerReport(m) \/ ServerReturn(m)
    \/ \E id \in LeaseIds : Reclaim(id)
    \/ \E acked \in 0..Cap : ControllerReconcile(acked)
    \/ \E c \in calls : ServerReconcile(c)
    \/ Tick

Spec == Init /\ [][Next]_vars

-----------------------------------------------------------------------------
(* Properties *)

\* What a STRICT budget is for: the units served by all holders together never
\* exceed the cap, whatever crashes, pauses, losses and reconciles happen
\* (leasedbudget.go:19-24).
NoOverspend == Total(served) <= Cap

\* The chunks of a cell that a Spend may still serve from, now or once promoted.
Cached(h) == {cur[h], nxt[h]} \ {NoChunk}

\* What the deadlines of a timed budget rest on: the clock can be read, and the skew
\* of a wall clock plus a pause between gate and install is within the grantor's
\* lateness.  An untimed lease is never reclaimed, and asks nothing of the clocks.
TimingSound == Ttl > 0 => ~ClockFails /\ Skew + Gap <= Late

\* A chunk that is not past its deadline is backed by a lease the server has
\* neither reclaimed nor settled: the holder stops early and the grantor reclaims
\* late (the deadline stamped at install against the forced expiry).
SpendableIsLive ==
    \A h \in Holders : \A c \in Cached(h) : nowMono < c.deadline => IsLive(c.id)

\* A unit is never served from a lease that is settled or reclaimed, whatever
\* suspensions, fences, refills and expiries lie between the draw of a chunk and the
\* Spend that serves from it (steps (a) to (d) of Spend).
ServesOnlyLive ==
    [][\A id \in LeaseIds : served'[id] # served[id] => IsLive(id)]_vars

\* What the server knows of a lease is never more than what was served from it,
\* which is never more than it granted; and a returned lease was attested in
\* full.  The cumulative reports of refillOnce and Return must keep this through
\* loss, delay and overtaking, and an id must never be spent from twice.
LeaseAccounting ==
    \A id \in LeaseIds :
        /\ lease[id].spent <= served[id]
        /\ served[id] <= lease[id].amount
        /\ lease[id].state = "returned" => lease[id].spent = served[id]

\* The two buffers hold different leases of the holder's own, and each chunk
\* accounts for its whole grant: units left plus units served.  An install, a
\* promotion or a return must neither lose nor double units.
CacheMatches ==
    \A h \in Holders :
        /\ \A c \in Cached(h) : /\ c.id[1] = h
                                /\ c.spent = served[c.id]
                                /\ c.remaining + c.spent = lease[c.id].amount
                                /\ c.reported <= c.spent
        /\ cur[h] # NoChunk /\ nxt[h] # NoChunk => cur[h].id # nxt[h].id

Active(h) == {w \in Slots : refill[h][w].pc # "idle"}

Drawing(h) == {w \in Active(h) : refill[h][w].pc \notin {"begin", "done"}}

\* At most one refill per cell runs (requestRefill's compare-and-swap), and
\* while one is past its snapshot the buffer it will install into stays empty, so
\* that an install never overwrites a chunk that could still be spent.
RefillOwnsBuffer ==
    \A h \in Holders :
        /\ \A v, w \in Active(h) : v = w
        /\ Drawing(h) # {} => nxt[h] = NoChunk

\* The return of chunk c has been asked for at its full spend, or is not needed.
Requested(c) == \/ ReturnRequest(c.id, c.spent) \in net
                \/ lease[c.id].state \in {"returned", "expired"}

\* Return drops no chunk before it has asked for its settlement, at every unit served
\* from it: the failure of one RPC must not cost the chunk behind it its own
\* ("folds each held chunk's final cumulative spent", leasedbudget.go:253-255).
SettlesEach ==
    [][\A h \in Holders : settle'[h] # settle[h] =>
         \A i \in DOMAIN settle[h] :
           settle[h][i] \in Range(settle'[h]) \/ Requested(settle[h][i])]_vars

\* How many more steps a refill may take, its turns of the redraw loop included.
StepsLeft(r) ==
    CASE r.pc = "idle" -> 0
      [] r.pc = "done" -> 1
      [] r.pc = "gated" -> 2 * (MaxAttempts - r.attempt) + 2
      [] r.pc = "replied" -> 2 * (MaxAttempts - r.attempt) + 3
      [] r.pc = "drawing" -> 2 * (MaxAttempts - r.attempt) + 4
      [] r.pc = "reported" -> 2 * (MaxAttempts - r.attempt) + 5
      [] r.pc = "reporting" -> 2 * (MaxAttempts - r.attempt) + 6
      [] r.pc = "begin" -> 2 * (MaxAttempts - r.attempt) + 7

\* Whatever is answered, by whom and when, each change of a refill in flight brings
\* its end nearer: stale grants, tombstones and late answers can neither restart it
\* nor make it spin ("cannot spin forever", leasedbudget.go:49-52).
RefillsAdvance ==
    [][\A h \in Holders, w \in Slots :
         refill[h][w].pc # "idle" /\ refill'[h][w] # refill[h][w] =>
           StepsLeft(refill'[h][w]) \in 0..(StepsLeft(refill[h][w]) - 1)]_vars

\* The caches and the pool together are an escrow: units are allotted within
\* the cap, consumed only while they are held, and released once.
Unserved == [id \in LeaseIds |->
               IF IsLive(id) THEN lease[id].amount - served[id] ELSE 0]

E == INSTANCE Escrow WITH consumed <- Total(served), held <- Total(Unserved)

ImplementsEscrow == E!Spec

-----------------------------------------------------------------------------
(* Liveness.  A live holder runs its goroutines, and every RPC of a refill or   *)
(* a Return ends, by an answer or by its context (refillTimeout).  Nothing is   *)
(* assumed of the server, of the clock, or of the callers of Spend.             *)

FairSpec ==
    /\ Spec
    /\ \A h \in Holders : WF_vars(ReturnStep(h))
    /\ \A h \in Holders, w \in Slots : WF_vars(RefillStep(h, w))

\* The single-flight flag always falls again: a refill whose every RPC fails,
\* is lost or is rejected must not block the refills after it.
RefillEnds == \A h \in Holders : refilling[h] ~> ~refilling[h]

\* Return ends, even when refills race with the closing of the Budget and none of
\* its RPCs is answered.
ReturnCompletes == \A h \in Holders : phase[h] = "drain" ~> phase[h] = "returned"

=============================================================================
