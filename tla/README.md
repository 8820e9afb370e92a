# A verification of the WaveSpan Go SDK

The SDK is a client library: most of it builds one request, sends it and wraps
the answer. One part is a protocol of its own, the node-side lease cache of a
budget (`src/leasedbudget.go`), and money depends on it: units drawn from a shared
pool are spent from memory, with no RPC, by many nodes at once, while nodes
crash, are suspended and lose messages. This project models that part in full,
with the server it draws from, and the other parts that keep state between
calls or whose calls can go wrong in more than one step: the shard-aware router
from `Dial` to `Close`, writes with an idempotency key and their retries, and the
row streams of scans and queries.

## Inventory

| Part | Source | State | Operations | What makes it correct |
|---|---|---|---|---|
| Lease cache | `leasedbudget.go` | per cell: two chunks, nonce, fence anchor and budget, closed and refilling flags, token bucket | `Acquire`, `Spend`, background refill, `Return`, `Remaining` | the cap is never overspent; a unit is served only from a live lease; units are neither lost nor doubled; one refill at a time; refills and `Return` end |
| Clock | `leasedbudget_clock_*.go` | none | `nowMono` | counts suspended time; fails safe |
| Pool (server) | `leasedbudget_integration_test.go` (in-process server), `proto/` | available, leased out, spent; leases and tombstones | define, grant, report, return; documented only: forced expiry, reconcile | cap = available + leased out + spent; grants and returns are idempotent by lease id |
| Controller client | `budget.go` | idempotency key | `Define`, `Grant`, `Report`, `Return`, `Reconcile`, `Stat` | single RPCs |
| Shard router | `shardaware.go` | leader table, time of the last refresh | `clientForKey`, `noteError`, `refresh`, `ShardForKey` | every write goes to some core; the table recovers after a leadership change; refreshes are rate-limited |
| Collections client | `collections.go` | idempotency key | sets, hashes, sorted sets, bulk removal | a retry carries the key of its write, a new write does not |
| Key-value client | `kv.go`, `options.go` | a scan's stream, pending frame and trailer | `Put`, `Get`, `Delete`, `Scan`, `Rows` | every row once, trailer only at the end, stream released |
| Graph client | `cypher.go`, `value.go` | a query's stream | `Query`, `Rows`, `ValueToGo`, `GoToValue` | the same; conversions are inverse where they are defined |
| Client | `client.go`, `errors.go` | connections | `Dial`, `Close` | connections opened are closed |
| Vector, backup | `vector.go`, `backup.go` | none | single RPCs | |
| Command line, examples | `examples/` | none | | |
| Generated code, schemas | `internal/gen/`, `proto/` | none | | |

How they interact. A `Budget` belongs to a `LeasedBudgetClient`, which sends
`BudgetGrant` itself and `BudgetReport` and `BudgetReturn` through the
controller client. Goroutines of the application call `Spend`; a `Spend` that
finds too little starts one background goroutine that reports and draws. The
cell's mutex guards the chunks, `closed` and `refilling` are atomics read and
written without it, and no RPC is made under the lock. Controller and collection
writes go through the shard router when it is on, which learns leaders from
`TierInfo` and is told of failed writes.

What is hard. Spends, a refill and a `Return` interleave at every unlock;
a message may be lost, late, or overtaken; a request whose caller gave up is still
executed; a holder may be suspended between any two instructions while the
grantor's clock goes on; and two clocks (the holder's wall clock and its
monotonic one) stand in for the grantor's. The router's table is read by every
write and replaced by refreshes that overlap, whose calls share one timeout; cores
fail or hang meanwhile and leaders move. A write may be applied after its caller
gave up and sent it again. A stream may end, fail or be cancelled under an
iterator whose consumer may break off and come back. `PROJECT.json` lists each
hazard at its line.

## Modules

* `LeasePool`: the pool. `BudgetGrant`, `BudgetReport` and `BudgetReturn` are the
  handlers of the integration test's server; `Expire` (a timed lease is reclaimed
  `Late` after its ttl and its whole unreported tail booked as spent) and
  `Reconcile` are modelled from the documentation (`budget.go:161-166`,
  `leasedbudget.go:444-445`). The pool's accounting identity is `Conservation`.
  The test's server takes no account of time; the lease rows keep the
  `granted_ms` it echoes.
* `LeasedBudget`: holders over one `LeasePool`. A holder is a cell (`cur`,
  `nxt`, `lastSeen`, `maxPause`, `nonce`), its flags (`closed`, `refilling`), the
  goroutines in `Spend` (`spender`), its refills (`refill`) and its `Return`
  (`phase`, `settle`). A critical section under the mutex is one action; each
  step made without it is an action of its own:
  * `Spend`: `SpendBegin` (closed check), then one of `SelfFence`, `PaceOut`,
    `SpendCached`, `SpendRefused` (lines 299-351), then `TriggerCheck` and
    `StartRefill` or `AlreadyRefilling` (`requestRefill`).
  * refill: `RefillNotNeeded`, `RefillAttest` or `RefillDraw` (snapshot),
    `RefillReported` or `ReportFailed`, then per attempt `RefillSettled`,
    `RefillStale`, `RefillGivesUp` or `RefillFresh`, then `RefillInstall` and
    `RefillDone` (the deferred reset). `Acquire` runs the same refill without the
    flag.
  * `Return`: `ReturnBegin`, `ReturnTake`, then `ReturnCall` and `ReturnNext`
    per chunk, `ReturnEnd`.
  * the server takes a request from `net` in `ServerDraw`, `ServerReport`,
    `ServerReturn`; `Reclaim` and `Tick` are the grantor's reclaim and time.
  * the controller reads the ledger and calls `Reconcile` with its total in
    `ControllerReconcile`; the server takes the call in `ServerReconcile`, any time
    later, or never. `LateReconcile` says whether it may do so after a settlement the
    figure does not know of (`UpToDate`).
* `Escrow`: what a STRICT budget promises, without leases, clocks or messages.
  `LeasedBudget` implements it under `consumed <- Total(served)` and `held <-` the
  unserved units of live leases (`ImplementsEscrow`).
* `MCLeasedBudget`: symmetry sets and a state constraint for TLC.
* `TokenBucket`: the pacing gate of a cell (`accrueTokensLocked` and the branches
  of `Spend` around it), with its 64-bit arithmetic scaled down to a width the
  checker can exhaust. Its state is the bucket, the gap since the last
  accrual, and the units each caller was last throttled for; `allowance` is a history
  variable, the level of an exact bucket of the same rate and ceiling. The callers share
  the bucket: while one is throttled others spend, take its tokens and move the time of
  the last accrual. The self-fence comes before the
  gate and leaves the bucket alone; a negative gap needs a clock that fails
  and recovers, and is left out.
* `RouteKey`: `routeKey` and `ShardForKey`, a name being a sequence of bytes. The
  hash is a constant.
* `ShardRouter`: the router with the client that owns it and the goroutines that
  write through it.
  * `Dial`: `DialMain`, `DialCore` for each core of the list in its order, then the
    first refresh, run by `Dialer`. `DialCoreFails` begins the clean-up instead, and `Close`
    that of an open client: `CloseCore` is one turn of the loop of `newShardRouter` or
    `close`, `CloseMain` closes the main connection after it. Writes may still be in flight
    while `Close` goes from core to core.
  * a write: `Write` (the read lock of `clientForKey`), perhaps a refresh and
    `Reread`, then the call: `CallServed`, `CallFails` or `CallTimesOut`; after
    `CallFails`, `NoteError`. `BudgetWriteFails` is a failed write of the budget
    client, which shares the hook but not the routing.
  * a refresh: one `TierInfo` at a time in `TierAnswered`, `TierFailed` or
    `RefreshTimesOut` (the shared context is over, and with it every other call of
    this refresh), then `Install` under the lock.
  * the cluster: `Elect`, `ChangeHealth` and `Settle`. What a core says of leaders
    before the cluster settles is any mixture of older leaders and none
    (`Reports`). `led` is a history variable.
* `KeyedWrites`: callers that share the sub-client of `Client.Collections`, derive
  keyed ones from it (`WithIdempotencyKey`), send (`Send`), give up (`CallFails`)
  and send again; the network; a server that applies a key once (`ApplyRequest`,
  `RepeatAnswer`), as the documentation of the key says. A caller sends again only
  a write made with a key whose request has room for it: `BulkRemove` has none.
  `Put` and `Delete` carry a key in the same way, one call at a time.
* `ExactlyOnce`: what a key promises. `KeyedWrites` implements it, with the same
  `log` and `result`.
* `RowStream`: `Scan` with its eagerly read first frame and `pending`, or `Query`;
  `Rows`, `RecvFrame`, `RecvEnd` are the iterator, `Continue` and `Break` its
  consumer (a break ends the replay of the first frame and the loop alike); a `Rows` from
  idle is a new iteration over the same result.
  The frames are headers, rows and one trailer (a query's `QueryMeta`), in any
  order the wire allows: the header need not come first. gRPC is external: an end
  is returned by every later `Recv`, and reading it, or cancelling, releases the
  stream.
* `RefillIds`: the lease ids one cell draws under, over refills without end
  (`requestRefill`, the redraw loop of `refillOnce`). `LeasedBudget` numbers the
  nonces of a holder and stops at the last; here id `i` is the cell's nonce plus `i`, so an
  install moves every id down by what the nonce moved up, and the state stays
  finite with no bound on refills. `Begin` starts at id 0 whatever was drawn before, as the code
  takes its copy of the nonce from the cell; `Reject` is a tombstone or a stale
  grant, `Pass` the freshness gate let through, `Install` what follows it under the lock, after
  any pause; `GiveUp` is an error or no capacity. The budget is
  timed, the clocks agree, one chunk is buffered at a time, and the report before
  the draw, which fails without effect on it, is left out. `Forget` is the collection
  of a tombstone after the dedup window (`budget.proto:53`; the test's server
  keeps its tombstones for ever), which also happens while a refill has the answer to that id
  in hand.
* `LeasedBudgetProofs`, `LeaseAccountingProofs`, `EscrowProofs`, `TokenBucketProofs`,
  `ShardRouterProofs` (with `RouteKey`), `KeyedWritesProofs`, `RowStreamProofs`,
  `RefillIdsProofs`: theorems and proofs. `MCShardRouter`: one collection name, and the sum
  of the bytes as the hash.

Conventions of the model. A crash is a holder that takes no further step, a
suspension one that takes none while `Tick` goes on: no action is needed for
either, and every run includes both. A request left in `net` is lost; one taken
after its caller gave up is late. A report or return whose answer is lost looks
to the caller like one that failed (`ReportFailed`, `ReturnNext`); the
server may take it all the same. `net` is a set: a request sent twice is taken
once, which for the idempotent handlers is all that repetition could show, and the
redraws of an id are separate requests in time. A lease id is `<<holder, nonce>>`,
so that two holders never share one (`randomHolder`; its fallback, the clock, is
left out). The server's holder check cannot fail between caches, as ids carry the
holder, and is left out. `n <= 0` and a `Spend` on a closed cell change nothing
and are stuttering steps. Time is in ticks; milliseconds and nanoseconds are the
same unit.

Bounds. `MaxNonce` (lease ids per holder) stops refills, `MaxTime` stops the
clock; neither is in the code. `Slots` is room for refills running at once: the
code allows one, and two slots are what a lost compare-and-swap would need to
show. `MaxAttempts` is 4 in the code and in `refill_ids`, 2 or 1 in the other runs: what differs
between the second attempt and the fourth is only the nonce. `Gap` bounds how long
a refill may sit between the freshness gate and the install; the code does not
bound it, which is why it is a hypothesis of the theorems and why
`paused_install` fails. `MaxCalls` bounds the Reconcile calls under way. In `ShardRouter`, `MaxUnwell` bounds the cores that are
down or hung at a time, and `RefreshMin`, one second in the code, is one tick: ages
of the table are told apart only up to it. `MaxSends` bounds the retries of a write
and `MaxFrames` the length of a stream; the theorems hold for every value of them.
`Patience` is the least time between two `Spend`s of a paced cell while somebody is throttled.
In `RefillIds`, ages and waits are told apart up to `ReclaimAge` and `Guard` only, which is
all the code compares them with.

## Runs

| Run | Instance | Question | Result |
|---|---|---|---|
| `one_holder` | 1 holder, 1 spender, 2 slots, cap 3, chunk 2, ttl 2, guard 1, lateness 1, fence 1, 2 ids, clock to 4, spends of 1 and 2, pacing on, no Reconcile | the safety invariants of a cell and its pool; `Return` settles each chunk | hold |
| `two_holders` | 2 holders, 1 id each, cap 1, chunk 1, ttl 1, no guard, no fence, clock to 2, 1 Reconcile under way | the cap; the escrow refinement; nothing served from a dead lease | hold |
| `liveness` | 1 holder, timed and fenced, 2 ids, clock to 3, spends of 1 and 2, the spin may give up | refills end, `Return` ends; no step of a refill sets it back; accounting through an abandoned spin | hold |
| `paused_install` | gap 2 against lateness 1, 1 Reconcile under way | cap kept when the holder is suspended between gate and install | violated |
| `pacing` | 2 callers, 7-bit integers, rate 3, burst 6, a second of 4 ticks, spends of 1, 2 and 5, 2 ticks or more between them while one is throttled | the bucket's bounds and rate; the gate goes on letting spends through | hold |
| `pacing_starved` | 1 caller, rate 1, a second of 4 ticks, retries after 1 tick or more | the gate goes on letting spends through | violated |
| `routing` | 2 cores, 2 replicas, 1 shard, 2 writers, one core unwell at a time, no forwarding | the table's truth, owned connections through every failure of `Dial` and `Close`; writes end; the table settles | hold |
| `stale_table` | 2 cores, 3 replicas, 1 writer, cores forward writes | the table settles | violated |
| `keyed_writes` | 3 writes, one a `BulkRemove`, each sent at most twice | exactly once, through the refinement; keys not shared | hold |
| `streams` | up to 4 frames | rows once and in order; summaries and ends mean what they say; iterations end | hold |
| `undrained_stream` | up to 4 frames | a drained stream is released | violated |
| `refill_ids` | 4 draws per refill, as in the code, guard 1, reclaim after 2 | a cell is refilled while its loop can reach an unused id; what passes its gate is still live | hold |

The bounds suffice for the interesting cases: with cap 3 and chunk 2 the second
grant is partial; two ids per holder let a draw be repeated under one id, meet a
tombstone, be stale and be redrawn; a clock to 4 lets a lease
live, be fenced and be reclaimed while its holder sleeps; two holders with
one id each and a cap of one unit suffice for one to draw and serve again what the
other lost or what a Reconcile gave back. The two are kept apart because together they
have more states than TLC can visit in minutes: `one_holder` has the partial grants, the two
buffers, the guard and the fence, `two_holders` the contention and the Reconcile. Two writers let refreshes overlap and install in
either order, and two cores let the first one hang or report nothing where the second
reports a leader. With one shard no report is partial, so that nothing is shown of the
forgetting of some shards' leaders (below). Three writes are what it takes for one to share a client with another while a third
has no key; a second send is already the retry of something that was applied. Four
frames hold a stray first frame, two rows around a break, and a trailer. The four ids in
reach of a refill may be stale, tombstoned, lost, late and new in any mixture. Every action
and every disjunct of `Next` fires in a passing run. One Reconcile under way is enough for every
order of its reading and its taking with the steps of leases. The
constraint `NoDeadCalls` cuts off the states after a call has become outdated: where
`LateReconcile` is FALSE such a call can only be lost, and the behaviours
without it are explored as well. Time stops at `MaxTime`, so the
liveness run assumes nothing of it.

### Fairness

`FairSpec` is weak fairness of each step of a refill and of a `Return`, of a
live holder. The code justifies it: a refill's RPCs run under a context of
`refillTimeout` and a `Return`'s under the caller's, taken to end too, so that each ends by an answer
or an error (`ReportFailed`, `RefillGivesUp` and `ReturnNext` are always possible
while one is pending); the mutex is held for a few instructions only; goroutines
are scheduled. `Return`'s spin is bounded, and may end before the refill does. Nothing is assumed
of the server, the clock, the network, or of callers of `Spend`.
In `TokenBucket` the clock advances and throttled callers retry, both fairly: they do
what `ErrPacingThrottled` tells them to. `GateOpens` says that while anybody is throttled
some `Spend` keeps passing the gate. That each caller is served in the end is not claimed: the
bucket is no queue, and others may take every token a large spend waits for. Nor may the
spends of all callers together come faster than `Patience`, or nothing accrues at all
(`pacing_starved`).

In `ShardRouter` time passes, and each goroutine goes on with its refresh or its write:
a call to a core that is up or down ends by itself, one to a core that hangs with
its context (two seconds for a refresh; a write's own is taken to end). The
application is taken to go on writing to each collection: `Write` is strongly
fair, because a `Write` of one collection is disabled while every goroutine is in
another. Nothing is assumed of the cluster, which need not settle; `TableSettles`
says what happens if it does and the client is not closed. In `RowStream` the
stream ends, by the server or by the deadline of its call, the goroutine runs, and
the consumer's loop body ends.

In `RefillIds` callers go on spending, the refill's goroutine runs, and once the network is
calm the draw that is waited for is delivered and its answer reaches the gate in time. The pause
between the gate and the install may have any length. That it becomes calm is
not assumed: `RefillsWhileSpare` says what happens if it does. Nothing is assumed of
time, of older draws, which may arrive late or never, or of when tombstones are collected.

### What the violated runs show

1. `paused_install`. The gate compares the wall clock with `granted_ms` at line
   472 and the deadline is anchored at a new monotonic reading at 477. A holder
   suspended in between, longer than the grantor's margin, serves past the forced
   expiry; the controller's `Reconcile` then frees the units once more and the cap
   is exceeded. The documentation claims this can never happen
   (`leasedbudget.go:19-24`). `TimingSound` names the missing bound, and the
   theorems hold under it. Without it, `OverspendIsBounded` says how much may be served
   too much, and `CapHoldsUnreconciled` that it takes a `Reconcile`.
2. `pacing_starved`. Accrual truncates to whole tokens but always moves
   `lastTokenMon`, so that spends that come within the time of one token, of one caller or
   of several, never gain one (`leasedbudget.go:31-33, 372-377`).
3. `stale_table`. The comments promise a refresh "on a short interval"
   (`shardaware.go:57`) and a table that "is proactively rebuilt" (73). The code
   refreshes only for an unknown leader or after a failed write. Where a core forwards
   a write it does not lead, no write fails, and a table that names an old
   leader is kept for ever, with a hop for every write. Without forwarding
   (`routing`) the failing writes repair it.
4. `undrained_stream`. `dispatch` stops at the trailer, and a query's `Rows` at the
   metadata, before the EOF that would release the stream, although `Scan` says
   that draining releases it (`kv.go:139-140`) and `Rows` that the stream "is closed
   when iteration finishes" (213).

### What is not as documented, without a run of its own

* `nowMono` returning 0 for good disarms the deadlines and, as 0 is also
  "un-anchored", the fence: less eager, not more (`leasedbudget_clock_linux.go:15-17`).
  `ClockFails` in `LeasedBudget` is this behaviour, and `TimingSound` excludes it.
* A `cur` with one unit left hides a full `next` from a `Spend` of two, against the
  comment "nothing cached can satisfy the spend" (`leasedbudget.go:345`).
* `requestRefill` checks the closed flag before its compare-and-swap, so a refill
  may start after `Return`, which says "no further refills start"
  (`leasedbudget.go:253-254`). Its chunk is stranded until it expires; nothing is
  overspent.
* A refill advances its own copy of the nonce past a rejected id
  (`leasedbudget.go:440, 461, 473`) and only an install writes it back (491), so that a
  refill that ends otherwise loses the advance and the next one draws the rejected id
  again, against "redraw with a fresh nonce (the same id would echo the same stale
  granted_ms forever)" (471). Up to three such ids cost each later refill a turn of its
  loop (`refill_ids`); with all four used up, no refill can succeed until the server
  has reclaimed those leases and collected their tombstones. The hypothesis `Spare` of
  `RefillsWhileSpare` is this limit.
* A `Reconcile` carries a total its caller read some time before (`budget.go:161-175`), and the
  request does not say how old it is. Read before further spends and taken after the leases
  they were made from have been reclaimed, it gives back units that were served, and another
  holder serves them again: with `LateReconcile` TRUE, `two_holders` overspends (read 0
  units, serve one, reclaim, reconcile, draw and serve). The documentation says that it
  recovers headroom "without overspend" (`budget.go:161-162`) and asks for the total of the
  acknowledged spend, not for its being current. The server is not in this
  repository; `LateReconcile = FALSE` takes it, or the controller, to see to it, and
  `CapHolds` and `CachesAreAnEscrow` assume it by name. `OverspendIsBounded` does not.
* `noteError` reads `lastRefresh` before its refresh and only the end of a refresh writes it
  (`shardaware.go:141-146, 185`), so that as many refreshes start as there are writes that
  fail until the first of them has ended, and an error burst while no core answers keeps one
  running for each writer. The interval is said to be a floor "so an error burst cannot
  hammer TierInfo" (73-74). What holds is only that a refresh starts no sooner than the interval after
  the last end of one, which is the guard itself and not checked.
* A core that knows only some leaders, and answers first, replaces a complete table
  (`shardaware.go:178-181, 186-188`): "on total failure the existing table is kept"
  (152) says nothing of a partial one.
* `fullRefillNs` wraps when `burst/rate` exceeds 9.2e9, and every gap then tops the
  bucket up (`leasedbudget.go:355, 367-369`). `Fits` excludes it.
* `Reconcile` sends the key that is documented to affect only `Define`
  (`budget.go:35-37, 169`), and `BulkRemove` drops the key of its sub-client
  (`collections.go:317`): a caller must not retry it.
* `GoToValue` accepts every unsigned integer (`value.go:62-63`), but one above the
  `int64` range becomes negative (88); it rejects the typed slices its comment mentions.

## Proofs

`LeasedBudgetProofs` proves, for every value of the constants that satisfies
`PoolAssumption` and `CacheAssumption` (they give each constant its type, and say
that `Holders` is finite and that `NoChunk` is not a chunk):

* `TypeCorrect`: `Spec => []TypeOK`. `TypeOK` is inductive, proved one action at a
  time from lemmas on the updates of a spender, a refill and a cell.
* `SingleFlight`: `Spec => []RefillOwnsBuffer`. The inductive invariant is
  `FlightInv`: at most one slot is in flight; one that is has the flag up or runs
  for `Acquire`, before any `Spend`; and past its snapshot `nxt` is nil. That only
  `Acquire` may refill without the flag, and that no `Spend` runs until it has
  returned, is what makes the compare-and-swap sufficient.
* `RefillsAreBounded`: `Spec => RefillsAdvance`, and `FlagHasOwner`: `Spec => []FlagOwned`.
  Together they are all of `RefillEnds` but its fairness. `StepsLeft` bounds the steps a
  refill has left by its place and its attempt, and each of its own steps and each
  answer lowers it; `SingleFlight` is needed, as `Acquire` must not begin a second refill
  in a slot in use. The flag is up only while a refill is in flight, and the step that ends
  that refill lowers it; a refill of `Acquire` leaves it alone, which is right only
  because it is down then.
* `StopsEarly`: `TimingSound => (Spec => []SpendableIsLive)`. The inductive
  invariant is `LeaseInv`, over `TypeOK` and `FlightInv`. A chunk in a cell is of
  a lease of an earlier nonce, that was granted, that nobody has given up, and its
  deadline is no later than `granted_ms + ttl + Late`. A lease is given up once
  `Return` has taken its chunk: it is waiting to be settled, its return is in `net`,
  or the server has credited it. Only leases of earlier nonces are given up, and a
  refill in flight draws under a nonce not used yet: this is where the rotation of
  the nonce and single flight are needed. What a refill was answered is still
  the lease's timing, and past the gate it is at most `Gap` old. An expired lease
  was timed and reclaimed late. With the gate's skew and `Gap` within `Late`, the
  deadline an install stamps is then no later than the grantor's, so that a chunk
  before its deadline is neither given up nor expired: it is live.
  `TimingSound` asks nothing of an untimed budget: its leases are never reclaimed.
* `NeverServesStale`: `TimingSound => (Spec => ServesOnlyLive)`, an action property:
  only `SpendCached` changes `served`, and what it serves from is a cached chunk
  before its deadline.

`LeaseAccountingProofs` builds on these lemmas and on `FlightInv`, but assumes nothing of
clocks and deadlines: units are accounted for even where a lease may be served stale.

* `ReportsAreTrue` and `BuffersAddUp`: `Spec => []LeaseAccounting` and
  `Spec => []CacheMatches`. Neither is inductive: a return in `net` may be taken at any
  later time, and must still name what was served. The invariant `AccountInv` follows
  the units of a lease: nothing is served from it before the install (`InstalledFirst`);
  while it is cached, its one chunk has spent what was served and nothing settles
  it (`ChunkOK`); once `Return` has taken the chunk, the figure is final in `settle` and
  in every return under way (`SettleOK`, `RequestOK`), while a report, under way or
  held by a refill, names at most what was served. The rotation of the nonce keeps an
  install from reviving an id, and single flight keeps two refills from sharing one.
* `ReturnSettlesEach`: `Spec => SettlesEach`. Only `ReturnNext` drops a chunk; by then its return
  is in `net`, or the server has taken it, and what the server has settled stays settled
  (`HolderOnly`, `RequestGoesOn`, `RowsGoOn`), with the figure `ReturnTake` took under the lock.
* `CapIsConserved`: the pool's three accounts always add up to `Cap`, the part
  of `Conservation` that needs no sum.

`EscrowProofs` proves what a STRICT budget is for. Its theorems are about sums over
all leases, so it begins with what a sum is. `Total` folds a function in the order in
which `CHOOSE` picks elements; `SumsExist` and `SumsAgree` show that the fold has a value for
each subset, `SumsSplit` that any element may be taken out first, and from these follow
`TotalUpdate` (one changed value moves the sum by the change), `TotalMonotone` and
`TotalAdds`. The library's induction over finite sets cannot be used here, as its
theorem takes an operator; each of these proofs picks instead a smallest set of which the claim
fails (`SmallestSubset`, from the well-foundedness of strict inclusion), takes one
element away, and meets a contradiction.

* `AccountsAgree`: `Spec => []Conservation`, with no hypothesis on clocks. The invariant is
  `Books`: `leasedOut` is the sum of the unattested parts of the live leases, `attested` the sum
  of what their rows record, and no more is attested than spent. Each handler changes one
  row (`OneRow`), and its account moves by the same amount.
* `CapHolds`: `TimingSound /\ ~LateReconcile => (Spec => []NoOverspend)`. That the accounts add up to
  `Cap` is not enough: a `Reconcile` counts as spent units that are still leased out, so that
  `available` may fall below zero, or gives back part of what an expiry booked, so that it
  grows again; what protects the cap is that `spent` still covers what holders have served. The invariant is `Covered`. What is exposed, the whole amount of
  a live lease and what was served from any other, stays within `Cap`; what is settled,
  the attested part of a live lease and what was served from any other, stays within `spent`. A
  grant takes what it exposes from `available`; a return or an expiry books at least
  what was served (`AccountInv` says that a return names it exactly, and an expiry books the whole
  tail); a `Reconcile` books what the ledger showed was served when the call was made, and as nothing
  has been settled since (`CallsOK`, `ReadCounts`), that is no less than what is settled: this is
  the only place where `~LateReconcile` matters. A `Spend`
  changes neither sum, because it serves from a live lease: this is `SpendableIsLive`, and the only
  place where the clocks matter. `Covered` was checked with TLC on the instances
  of `one_holder` and `two_holders` first.
* `CachesAreAnEscrow`: `TimingSound /\ ~LateReconcile => (Spec => ImplementsEscrow)`. `EscrowState` maps
  `Covered` to the escrow's bound; then every server step that moves one row is an escrow step
  on what that lease holds (`RowMovesEscrow`: set aside, or given up), a `SpendCached`
  consumes what was held, and all other steps stutter.

What becomes of the cap where `TimingSound` fails, as in `paused_install`, is the subject
of three more theorems of `EscrowProofs`. They assume nothing of clocks, pauses, deadlines or the age of a `Reconcile`;
their invariants were checked with TLC on the instance of `paused_install` first.

* `OverspendIsBounded`: `Spec => [](Total(served) <= Cap + Total(Tails))`, where the tail of
  an expired lease is the part of it no report attested. The invariant is `Promised`: units
  leased out and units attested stay within `Cap`. Only a grant raises their sum, and
  it is within `available`; a report moves units from the one to the other, and a
  `Reconcile` never gives back what was attested. What a holder serves from a dead lease comes
  out of that lease's tail.
* `CapHoldsUnreconciled`: `Spec /\ Unreconciled => []NoOverspend`, where `Unreconciled` says
  that no step is a `ServerReconcile`. The invariant is `Tally`: `spent` is exactly
  what each row is charged, the whole amount of an expired lease and the attested part of any
  other, and `available` is never negative. The tail is booked whether or not it is served, so a late
  holder serves what is paid for ("safety never depends on this report",
  `leasedbudget.go:444-445`). The clocks protect the `Reconcile`, which gives the tail back.
* `ReturnedInFull`: under the same hypothesis, once every granted lease has been returned,
  `spent = Total(served)` and `available = Cap - Total(served)`: settling is exact.

`TokenBucketProofs` proves `RateKept`, `Fits => (Spec => []NeverTooFast)`, and
`BucketTypeCorrect`, where `Fits` says that `Wrap` changes no number up to
`(Burst + Rate) * Second + Burst`.
The invariant, `Covered`, is that the exact bucket holds at least what this one
would hold after accruing the present gap. `AccruedBounds` bounds an accrual by the
ceiling and by what the gap has earned, through the truncating division and the
shortcut (`FullRefillValue`: a gap at the threshold has earned a full bucket).

`ShardRouterProofs` begins with `RouteKeyInjective`: the length prefixes keep the routing
keys of different collections apart, for names of less than 2^32 bytes; and
`ShardForKeyInRange`, which the router's types rest on. Of the router it classifies every step by what it does to the goroutines
(`Moves`: a step of a writer, of a refresh, the hand-over to the first refresh, or
an `Install`), and rests on `RouterAssumption` only.

* `OnlyLeadersReported`: `Spec => []TableWasReported`. The table alone is not
  inductive: what a refresh has found but not yet installed must be as true, since it is
  installed after any number of elections (`Reported`).
* `NoConnectionLost`: `Spec => []ConnectionsOwned`. The invariant `Dialed` says what is open
  wherever `Dial` or `Close` is: the main connection and the cores below `i` while it dials,
  those from `j` up while a loop closes, so that its last turn leaves only the main one. `Roles`
  is needed too: the client opens only at the end of `Dial`'s own refresh.

`KeyedWritesProofs` proves `WritesOnce`, `Spec => ImplementsExactlyOnce`, and
`KeysNotShared`. The invariant `Inv` says that requests carry the key of their own
sub-client; that a write without a key was sent once, so that its only request is
under way or its effect in the log, not both; that the server's table of keys
holds the place of every keyed write in the log; and that answers name that place.

`RowStreamProofs` proves `RowsInOrder`, `TrailerMeansAll` and `NoSilentTruncation`. The invariant (`Yielded`, `Accounted`, `Ended`) relates what was
yielded to what was read and the one frame kept for replay, and says that a trailer
is the last frame; `EOFKept` that an EOF that was read has released the stream, so
that no later cancellation turns a complete result into a truncated one.

`RefillIdsProofs` proves `TypeCorrect` and `GateIsSound`, `Spec => GatePassesLive`, for
refills without end. An answer may wait for its gate while its lease is reclaimed,
forgotten and granted again under the same id, so that it is not always backed; the invariant
`AnswerOK` says that it is (`SameGrant`: by the very grant it tells of), or that it has come of an
age at which the gate refuses it. The install may come any time after the gate, and installs
a lease that may be gone; what that costs is the subject of `LeasedBudget`, its `Gap` and
`paused_install`.

Only model-checked: liveness (`RefillEnds`, `ReturnCompletes`, `GateOpens`,
`WriteEnds`, `TableSettles`, `IterationEnds`, `RefillsWhileSpare`), because fairness and
`ENABLED` are beyond these provers. Every other property of a passing run is a theorem.

## Not modelled

Of the lease cache: a suspension inside a critical section, such as between the reading of
the clock in `Spend` and the decrement a few instructions later (`leasedbudget.go:302-331`), which
would let one unit be served past the deadline it was checked against; the token bucket's numbers inside the composed model (`PaceOut`
may throttle any spend; `TokenBucket` has the numbers); `Remaining` (a read);
`randomHolder`'s entropy fallback; the epoch, pacing parameters and dedup window of the
pool, which are the server's.

Of the client: the choice of an endpoint, transport credentials, call metadata and
the wrapping of errors, which keep no state; FNV-1a itself, of which only its being
a function matters. A client without a router sends collection writes over the main
connection and has none of `ShardRouter`'s state. Timeouts of the context a caller
passes are steps of the caller's calls.

Parts without state or order of their own: reads and listings of collections and
keys, vector and backup calls and the other options each fill one request, send it and
convert one answer. `ValueToGo` and `GoToValue` are recursive conversions without
state; what they compute for every value needs induction over values, and an
enumeration of small ones would restate the `switch`. The command line and the examples parse
arguments and print.

Most lines of the repository (`internal/gen/`, 20,000 of 24,000) are generated from
the `.proto` files and hold no logic of this SDK; the hand-written package is
about 2,400 lines, of which the parts above are modelled.

## Plan

1. `LeasePool`, `Escrow`, `LeasedBudget`, their runs and theorems. Done.
2. `TokenBucket`, its runs and its rate bound. Done.
3. `RouteKey`, `ShardRouter`: runs, liveness, and its safety as theorems. Done.
4. `KeyedWrites`, `ExactlyOnce`: the refinement, checked and proved. Done.
5. `RowStream`: runs, and its safety as theorems. Done.
6. Proofs of `LeaseAccounting` and `CacheMatches`, and of the pool's balance. Done.
7. Starvation of refills by a nonce that is not kept (`leasedbudget.go:456-475`):
   `RefillIds`. Done.
8. `EscrowProofs`: `Conservation`, `NoOverspend` and the escrow refinement for every
   value of the constants. Done.
9. What holds of the cap without sound timing, the bound on a refill's steps and the
   owner of its flag, and `RefillIdsProofs`. Done.
10. `Reconcile` as a message, the loops that close connections, callers that share a paced cell,
    and the gate and the install as two steps. Done.
