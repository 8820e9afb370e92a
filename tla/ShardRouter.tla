---------------------------- MODULE ShardRouter ----------------------------
(***************************************************************************)
(* The shard-aware router (shardaware.go) and the collection and budget    *)
(* writes that use it (collections.go, budget.go), from Dial to Close      *)
(* (client.go).                                                            *)
(*                                                                         *)
(* The router keeps a table of the leaders it has heard of.  It is read by *)
(* every collection write and replaced whole by a refresh, which asks one  *)
(* core after another for TierInfo without holding the lock: each access   *)
(* under the RWMutex is one action, each RPC outcome another.  Writes run  *)
(* in any number of goroutines at once, each with its own refresh.         *)
(*                                                                         *)
(* The cluster is the environment: leaders move, cores fail, hang and      *)
(* recover, and a core may report an older leader, or none, of a shard     *)
(* until the cluster has settled.                                          *)
(***************************************************************************)
EXTENDS RouteKey, FiniteSets

CONSTANTS
    NCores,        \* addresses given to WithShardAwareRouting
    NReplicas,     \* replicas of a shard; those above NCores have no address
    DataShards,    \* N, the width of the hash directory
    Collections,   \* the <<namespace, collection>> names written to
    Writers,       \* goroutines that write
    Dialer,        \* the goroutine that runs Dial
    NoCore,        \* stands for a shard the table does not hold
    Main,          \* the connection every other call uses
    RefreshMin,    \* the least time between refreshes
    Forwards,      \* whether a core forwards a write to the shard's leader
    MaxUnwell      \* a bound: the cores that are down or hung at a time

ASSUME RouterAssumption ==
    /\ NCores \in Nat \ {0}
    /\ NReplicas \in Nat \ {0}
    /\ DataShards \in Nat \ {0}
    /\ \A k \in Collections : Fnv64a(routeKey(k[1], k[2])) \in Nat
    /\ Dialer \notin Writers
    /\ NoCore \notin Int
    /\ Main \notin Int
    /\ RefreshMin \in Nat \ {0}
    /\ Forwards \in BOOLEAN
    /\ MaxUnwell \in Nat

Cores == 0..(NCores - 1)
Shards == FirstDataShard..(FirstDataShard + DataShards - 1)
Procs == Writers \cup {Dialer}

VARIABLES
    phase,         \* where the Client is between Dial and Close
    dialed,        \* i, the cores newShardRouter has dialed
    at,            \* j, the next core a loop of Close calls comes to
    open,          \* connections that are open
    table,         \* shardLeader
    age,           \* time since lastRefresh, not told apart beyond RefreshMin
    proc,          \* where each goroutine is
    leader,        \* the replica leading each shard, or the last to have led it
    led,           \* history: the replicas that have led each shard
    health,        \* of each core: up, down (it refuses) or hung (no answer)
    settled        \* whether the cluster has settled

clusterVars == <<leader, led, health, settled>>
routerVars == <<table, age>>
clientVars == <<phase, dialed, at, open>>
vars == <<clientVars, routerVars, proc, clusterVars>>

-----------------------------------------------------------------------------
(* Types *)

Table == [Shards -> Cores \cup {NoCore}]

\* The table of a shardLeader that is empty; of a refresh, the nil one.
EmptyTable == [s \in Shards |-> NoCore]

\* A goroutine's locals: the shard it writes to, the core it asks or calls next,
\* what its refresh has found, where it goes on after it, and whether the
\* context of the call is over.
Process == [pc      : {"idle", "refresh", "install", "reread", "call", "error"},
            shard   : Shards,
            core    : Cores,
            found   : Table,
            then    : {"idle", "reread"},
            expired : BOOLEAN]

Idle == [pc |-> "idle", shard |-> FirstDataShard, core |-> 0,
         found |-> EmptyTable, then |-> "idle", expired |-> FALSE]

TypeOK ==
    /\ phase \in {"new", "dialing", "abandoning", "failed",
                  "priming", "open", "closing", "closed"}
    /\ dialed \in 0..NCores
    /\ at \in 0..NCores
    /\ open \subseteq Cores \cup {Main}
    /\ table \in Table
    /\ age \in 0..RefreshMin
    /\ proc \in [Procs -> Process]
    /\ leader \in [Shards -> 1..NReplicas]
    /\ led \in [Shards -> SUBSET (1..NReplicas)]
    /\ health \in [Cores -> {"up", "down", "hung"}]
    /\ settled \in BOOLEAN

-----------------------------------------------------------------------------
(* Dial and Close *)

Init ==
    /\ phase = "new"
    /\ dialed = 0
    /\ at = 0
    /\ open = {}
    /\ table = EmptyTable
    /\ age = RefreshMin
    /\ proc = [p \in Procs |-> Idle]
    /\ leader \in [Shards -> 1..NReplicas]
    /\ led = [s \in Shards |-> {leader[s]}]
    /\ health = [c \in Cores |-> "up"]
    /\ settled = FALSE

\* The main connection; with grpc.NewClient it is made lazily, so that this
\* fails only for options it cannot use.
DialMain ==
    /\ phase = "new"
    /\ \/ phase' = "dialing" /\ open' = {Main}
       \/ phase' = "failed" /\ UNCHANGED open
    /\ UNCHANGED <<dialed, at, routerVars, proc, clusterVars>>

\* newShardRouter dials the cores in their order; after the last it refreshes.
DialCore ==
    /\ phase = "dialing"
    /\ dialed < NCores
    /\ open' = open \cup {dialed}
    /\ dialed' = dialed + 1
    /\ IF dialed + 1 = NCores
       THEN /\ phase' = "priming"
            /\ proc' = [proc EXCEPT ![Dialer] = [Idle EXCEPT !.pc = "refresh"]]
       ELSE UNCHANGED <<phase, proc>>
    /\ UNCHANGED <<at, routerVars, clusterVars>>

\* A core's address cannot be used: what has been dialed is closed again.
DialCoreFails ==
    /\ phase = "dialing"
    /\ dialed < NCores
    /\ phase' = "abandoning"
    /\ UNCHANGED <<dialed, at, open, routerVars, proc, clusterVars>>

\* Close may come while writes are in flight; their calls then fail, one core
\* after another.  That the cluster had settled is forgotten: what it says unsettled
\* includes what it says settled, and only an open client is promised more.
Close ==
    /\ phase = "open"
    /\ phase' = "closing"
    /\ settled' = FALSE
    /\ UNCHANGED <<dialed, at, open, routerVars, proc, leader, led, health>>

\* Mutant of CoresLeft: the loop stops one short.
CoresLeftShort == at + 1 < dialed

\* The condition of both loops that close cores: those dialed before the one that
\* failed, or all.
CoresLeft == at < dialed

\* One turn of either loop.
CloseCore ==
    /\ phase \in {"abandoning", "closing"}
    /\ CoresLeft
    /\ open' = open \ {at}
    /\ at' = at + 1
    /\ UNCHANGED <<phase, dialed, routerVars, proc, clusterVars>>

\* After the loop Dial, or Close, closes the main connection and returns.
CloseMain ==
    /\ phase \in {"abandoning", "closing"}
    /\ ~CoresLeft
    /\ open' = open \ {Main}
    /\ phase' = IF phase = "abandoning" THEN "failed" ELSE "closed"
    /\ UNCHANGED <<dialed, at, routerVars, proc, clusterVars>>

-----------------------------------------------------------------------------
(* The routing of a write *)

Becomes(p, r) == proc' = [proc EXCEPT ![p] = r]

\* Mutant of Route: an unknown leader's shard is taken for a core.
RouteUnreduced(s) == IF table[s] = NoCore THEN s ELSE table[s]

\* The core of a shard, or a deterministic one if its leader is unknown.
Route(s) == IF table[s] = NoCore THEN s % NCores ELSE table[s]

\* A refresh starts at the first core.
Refreshing(r, then) == [r EXCEPT !.pc = "refresh", !.core = 0, !.then = then]

\* clientForKey up to the read unlock: an unknown leader and an old table ask
\* for a refresh first.
Write(w, k) ==
    LET s == ShardForKey(k[1], k[2], DataShards)
        r == [Idle EXCEPT !.shard = s]
    IN
    /\ phase = "open"
    /\ proc[w].pc = "idle"
    /\ Becomes(w, IF table[s] = NoCore /\ age >= RefreshMin
                  THEN Refreshing(r, "reread")
                  ELSE [r EXCEPT !.pc = "call", !.core = Route(s)])
    /\ UNCHANGED <<clientVars, routerVars, clusterVars>>

\* clientForKey after its refresh: read the table again.
Reread(w) ==
    /\ proc[w].pc = "reread"
    /\ Becomes(w, [proc[w] EXCEPT !.pc = "call", !.core = Route(proc[w].shard),
                                  !.then = "idle"])
    /\ UNCHANGED <<clientVars, routerVars, clusterVars>>

-----------------------------------------------------------------------------
(* refresh *)

\* Mutant of Leaders: the replica id is taken for the core's index.
LeadersOffByOne(report) ==
    [s \in Shards |-> IF report[s] \in Cores THEN report[s] ELSE NoCore]

\* The table of one core's TierInfo: replica R is core R - 1, a shard with no
\* leader or one without an address is left out.  (Rows of meta shards, which are
\* skipped, are left out of the reports.)
Leaders(report) ==
    [s \in Shards |-> IF report[s] - 1 \in Cores THEN report[s] - 1 ELSE NoCore]

\* A refresh that has nothing from core c goes on to the next one, if any.
NextCore(r) == IF r.core + 1 \in Cores THEN [r EXCEPT !.core = @ + 1]
                                       ELSE [r EXCEPT !.pc = "install"]

\* A refresh takes the first report that names a leader.
Answered(r, report) ==
    IF Leaders(report) = EmptyTable THEN NextCore(r)
    ELSE [r EXCEPT !.pc = "install", !.found = Leaders(report)]

\* What a core may say of the leaders; 0 is none, as while one is elected.
Reports ==
    {report \in [Shards -> 0..NReplicas] :
        \A s \in Shards :
            IF settled THEN report[s] = leader[s]
            ELSE report[s] \in led[s] \cup {0}}

\* Whether a call to core c is answered.
Answers(c) == c \in open /\ health[c] = "up"

\* Whether it fails by itself: refused, or on a closed connection.
Fails(c) == c \notin open \/ health[c] = "down"

\* Whether it lasts until its context is over.
Hangs(c) == c \in open /\ health[c] = "hung"

TierAnswered(p, report) ==
    /\ proc[p].pc = "refresh"
    /\ Answers(proc[p].core)
    /\ report \in Reports
    /\ Becomes(p, Answered(proc[p], report))
    /\ UNCHANGED <<clientVars, routerVars, clusterVars>>

\* Mutant of TierFailed: the same core is asked again.
TierFailedRetries(p) ==
    /\ proc[p].pc = "refresh"
    /\ Fails(proc[p].core)
    /\ UNCHANGED vars

TierFailed(p) ==
    /\ proc[p].pc = "refresh"
    /\ Fails(proc[p].core)
    /\ Becomes(p, NextCore(proc[p]))
    /\ UNCHANGED <<clientVars, routerVars, clusterVars>>

\* The context of the refresh, one for all its calls, is over: the calls to the
\* other cores fail at once.  The write's own context may be over as well; Dial's
\* has no end.
RefreshTimesOut(p) ==
    /\ proc[p].pc = "refresh"
    /\ Hangs(proc[p].core)
    /\ \E over \in BOOLEAN :
         /\ over => p # Dialer
         /\ Becomes(p, [proc[p] EXCEPT !.pc = "install", !.expired = over])
    /\ UNCHANGED <<clientVars, routerVars, clusterVars>>

\* The table as a refresh leaves it: on total failure the old one is kept.
Installed(found) == IF found = EmptyTable THEN table ELSE found

\* The end of a refresh, under the lock; Dial returns the client after its own.
Install(p) ==
    /\ proc[p].pc = "install"
    /\ table' = Installed(proc[p].found)
    /\ age' = 0
    /\ Becomes(p, IF proc[p].then = "idle" THEN Idle
                  ELSE [proc[p] EXCEPT !.pc = "reread", !.core = 0,
                                       !.found = EmptyTable])
    /\ phase' = IF p = Dialer THEN "open" ELSE phase
    /\ UNCHANGED <<dialed, at, open, clusterVars>>

-----------------------------------------------------------------------------
(* The call of a write, and noteError *)

\* The leader of a shard, where a core at hand can be.
LedBy(s, c) == leader[s] = c + 1

\* Whether a forwarded write reaches the leader: one without an address in the
\* client's list is taken to be up.
Reaches(s) == /\ Forwards
              /\ \A c \in Cores : LedBy(s, c) => health[c] = "up"

LeaderHangs(s) == \E c \in Cores : LedBy(s, c) /\ health[c] = "hung"

\* The write is served, by the leader itself or through it.
CallServed(w) ==
    /\ proc[w].pc = "call"
    /\ ~proc[w].expired
    /\ Answers(proc[w].core)
    /\ LedBy(proc[w].shard, proc[w].core) \/ Reaches(proc[w].shard)
    /\ Becomes(w, Idle)
    /\ UNCHANGED <<clientVars, routerVars, clusterVars>>

\* It fails while its context is still good: the core cannot be reached, does
\* not lead and does not reach the leader, or rejects the write.
CallFails(w) ==
    /\ proc[w].pc = "call"
    /\ ~proc[w].expired
    /\ Answers(proc[w].core) \/ Fails(proc[w].core)
    /\ Becomes(w, [Idle EXCEPT !.pc = "error"])
    /\ UNCHANGED <<clientVars, routerVars, clusterVars>>

\* It fails because its context is over, waiting for the core or for the leader
\* behind it; noteError then does nothing.
CallTimesOut(w) ==
    /\ proc[w].pc = "call"
    /\ \/ proc[w].expired
       \/ Hangs(proc[w].core)
       \/ Answers(proc[w].core) /\ Forwards /\ LeaderHangs(proc[w].shard)
    /\ Becomes(w, Idle)
    /\ UNCHANGED <<clientVars, routerVars, clusterVars>>

\* A budget write, which goes over the main connection, fails.
BudgetWriteFails(w) ==
    /\ phase = "open"
    /\ proc[w].pc = "idle"
    /\ Becomes(w, [Idle EXCEPT !.pc = "error"])
    /\ UNCHANGED <<clientVars, routerVars, clusterVars>>

\* Mutant of StaleTable: the comparison is the wrong way round.
FreshTable == age < RefreshMin

\* noteError's read of lastRefresh.
StaleTable == age >= RefreshMin

\* noteError: a refresh, unless the last one was too short ago.
NoteError(w) ==
    /\ proc[w].pc = "error"
    /\ Becomes(w, IF StaleTable THEN Refreshing(proc[w], "idle") ELSE Idle)
    /\ UNCHANGED <<clientVars, routerVars, clusterVars>>

-----------------------------------------------------------------------------
(* The cluster and time *)

Elect(s, r) ==
    /\ ~settled
    /\ leader' = [leader EXCEPT ![s] = r]
    /\ led' = [led EXCEPT ![s] = @ \cup {r}]
    /\ UNCHANGED <<clientVars, routerVars, proc, health, settled>>

ChangeHealth(c, h) ==
    /\ ~settled
    /\ health' = [health EXCEPT ![c] = h]
    /\ Cardinality({d \in Cores : health'[d] # "up"}) <= MaxUnwell
    /\ UNCHANGED <<clientVars, routerVars, proc, leader, led, settled>>

\* The cluster settles: every shard is led by a core that is up, no core hangs,
\* and every core that is up knows the leaders.
Settle ==
    /\ ~settled
    /\ \A c \in Cores : health[c] # "hung"
    /\ \A s \in Shards : \E c \in Cores : LedBy(s, c) /\ health[c] = "up"
    /\ settled' = TRUE
    /\ UNCHANGED <<clientVars, routerVars, proc, leader, led, health>>

Tick ==
    /\ age' = IF age < RefreshMin THEN age + 1 ELSE age
    /\ UNCHANGED <<clientVars, table, proc, clusterVars>>

-----------------------------------------------------------------------------

DialStep == DialMain \/ DialCore \/ DialCoreFails

CloseStep == Close \/ CloseCore \/ CloseMain

RefreshStep(p) ==
    \/ \E report \in Reports : TierAnswered(p, report)
    \/ TierFailed(p)
    \/ RefreshTimesOut(p)
    \/ Install(p)

WriteStep(w) ==
    \/ Reread(w)
    \/ CallServed(w)
    \/ CallFails(w)
    \/ CallTimesOut(w)
    \/ NoteError(w)

\* What becomes of the cluster once Close has begun is of no consequence.
ClusterStep ==
    /\ phase \notin {"closing", "closed"}
    /\ \/ \E s \in Shards, r \in 1..NReplicas : Elect(s, r)
       \/ \E c \in Cores, h \in {"up", "down", "hung"} : ChangeHealth(c, h)
       \/ Settle

Next ==
    \/ DialStep
    \/ CloseStep
    \/ \E w \in Writers : (\E k \in Collections : Write(w, k)) \/ WriteStep(w)
    \/ \E w \in Writers : BudgetWriteFails(w)
    \/ \E p \in Procs : RefreshStep(p)
    \/ ClusterStep
    \/ Tick

Spec == Init /\ [][Next]_vars

-----------------------------------------------------------------------------
(* Properties *)

\* Whatever overlapping refreshes read and install, and in whatever order, the
\* table never names a core that has not led the shard (refresh's mapping of
\* replica ids to indexes).  A write whose leader is unknown may still go to one
\* that has not: it takes the core of the shard's number.
TableWasReported ==
    \A s \in Shards : table[s] # NoCore => table[s] + 1 \in led[s]

\* Dial either fails and leaves no connection open, at whichever core it failed,
\* or gives its writes the connections they need; and Close leaves none open
\* (the loops of newShardRouter and close, and the closing of the main one).
ConnectionsOwned ==
    /\ phase \in {"failed", "closed"} => open = {}
    /\ phase \in {"priming", "open"} => open = Cores \cup {Main}

-----------------------------------------------------------------------------
(* Liveness.  Goroutines run; a call to a hung core ends with its context, one  *)
(* to a core that is up or down by itself.  The application keeps writing to    *)
(* each collection.  Nothing is assumed of the cluster before it settles.       *)

FairSpec ==
    /\ Spec
    /\ WF_vars(Tick)
    /\ \A p \in Procs : WF_vars(RefreshStep(p))
    /\ \A w \in Writers : WF_vars(WriteStep(w))
    /\ \A k \in Collections : SF_vars(\E w \in Writers : Write(w, k))

\* A write ends, in an answer or an error, whatever cores hang, leaders move or
\* refreshes its routing goes through.
WriteEnds == \A w \in Writers : proc[w].pc # "idle" ~> proc[w].pc = "idle"

\* The table holds the leader of every shard.
Right == \A s \in Shards : table[s] # NoCore /\ LedBy(s, table[s])

\* Once the cluster has settled, the client comes to route every write to its
\* leader for good, and no refresh begun before that undoes it ("refreshed on a
\* short interval and lazily after a write error", shardRouter).
TableSettles == <>[](settled /\ phase = "open") => <>[]Right

=============================================================================
