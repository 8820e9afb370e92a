------------------------- MODULE ShardRouterProofs -------------------------
(***************************************************************************)
(* The safety of the shard-aware router, for every number of cores,        *)
(* replicas, shards and goroutines.                                        *)
(***************************************************************************)
EXTENDS ShardRouter, SequenceTheorems, TLAPS

-----------------------------------------------------------------------------
(* The routing key: a directory entry for every collection, and a keyspace      *)
(* position that no two collections share                                       *)

Byte == {b \in Nat : b < 256}
Uint32 == {n \in Nat : n < 4294967296}

\* A name whose length a uint32 holds.
Name == {n \in Seq(Byte) : Len(n) \in Uint32}

\* ShardForKey stays within the directory, whatever its width.
LEMMA ShardForKeyInRange ==
    ASSUME NEW ns, NEW coll, NEW n \in Nat \ {0},
           Fnv64a(routeKey(ns, coll)) \in Nat
    PROVE  ShardForKey(ns, coll, n) \in FirstDataShard..(FirstDataShard + n - 1)
<1> DEFINE h == Fnv64a(routeKey(ns, coll))
<1>1. h % n \in 0..(n - 1)
  OBVIOUS
<1>2. ShardForKey(ns, coll, n) = FirstDataShard + (h % n)
  BY DEF ShardForKey
<1> HIDE DEF h
<1> QED
  BY <1>1, <1>2 DEF FirstDataShard

-----------------------------------------------------------------------------
(* The encoding of lengths *)

LEMMA PutUint32Type ==
    ASSUME NEW n \in Nat
    PROVE  PutUint32(n) \in Seq(Byte) /\ Len(PutUint32(n)) = 4
<1>1. \A x \in Nat : x % 256 \in Byte
  BY SMT DEF Byte
<1>2. /\ n \div 16777216 \in Nat
      /\ n \div 65536 \in Nat
      /\ n \div 256 \in Nat
  BY SMT
<1> DEFINE a == (n \div 16777216) % 256
           b == (n \div 65536) % 256
           c == (n \div 256) % 256
           d == n % 256
<1>3. a \in Byte /\ b \in Byte /\ c \in Byte /\ d \in Byte
  BY <1>1, <1>2
<1>4. PutUint32(n) = <<a, b, c, d>>
  BY SMT DEF PutUint32
<1> HIDE DEF a, b, c, d
<1> QED
  BY <1>3, <1>4

LEMMA LastDigit ==
    ASSUME NEW n \in Nat
    PROVE  n = (n \div 256) * 256 + (n % 256)
BY SMT

\* The four bytes of a uint32 are its digits.
LEMMA PutUint32Value ==
    ASSUME NEW n \in Uint32
    PROVE  n = PutUint32(n)[1] * 16777216 + PutUint32(n)[2] * 65536
                 + PutUint32(n)[3] * 256 + PutUint32(n)[4]
<1> DEFINE a == n \div 16777216
           b == n \div 65536
           c == n \div 256
<1>1. n \in Nat /\ a \in Nat /\ a < 256 /\ b \in Nat /\ c \in Nat
  BY SMT DEF Uint32
<1>2. n = c * 256 + (n % 256)
  BY <1>1, LastDigit
<1>3. c = b * 256 + (c % 256)
  <2>1. c \div 256 = b
    BY <1>1, SMT
  <2> QED
    BY <1>1, <2>1, LastDigit
<1>4. b = a * 256 + (b % 256)
  <2>1. b \div 256 = a
    BY <1>1, SMT
  <2> QED
    BY <1>1, <2>1, LastDigit
<1>5. PutUint32(n) = <<a % 256, b % 256, c % 256, n % 256>>
  BY SMT DEF PutUint32
<1>6. a % 256 = a
  BY <1>1, SMT
<1> HIDE DEF a, b, c
<1>7. n = a * 16777216 + (b % 256) * 65536 + (c % 256) * 256 + (n % 256)
  BY <1>1, <1>2, <1>3, <1>4, SMT
<1> QED
  BY <1>5, <1>6, <1>7, SMT

LEMMA PutUint32Injective ==
    ASSUME NEW m \in Uint32, NEW n \in Uint32,
           PutUint32(m) = PutUint32(n)
    PROVE  m = n
BY PutUint32Value, SMT

-----------------------------------------------------------------------------
(* Concatenation *)

\* Concatenation, under a name the provers do not expand.
Cat(s, t) == s \o t

LEMMA CatParts ==
    ASSUME NEW S, NEW a \in Seq(S), NEW b \in Seq(S)
    PROVE  /\ Cat(a, b) \in Seq(S)
           /\ Len(Cat(a, b)) = Len(a) + Len(b)
           /\ \A i \in 1..Len(a) : Cat(a, b)[i] = a[i]
           /\ \A i \in 1..Len(b) : Cat(a, b)[Len(a) + i] = b[i]
BY DEF Cat

LEMMA CatAssociative ==
    ASSUME NEW S, NEW a \in Seq(S), NEW b \in Seq(S), NEW c \in Seq(S)
    PROVE  Cat(Cat(a, b), c) = Cat(a, Cat(b, c))
BY ConcatAssociative DEF Cat

\* Sequences cut after the same length agree on both parts, if they are equal.
LEMMA CatCancel ==
    ASSUME NEW S, NEW a \in Seq(S), NEW b \in Seq(S), NEW r \in Seq(S), NEW s \in Seq(S)
    PROVE  Cat(a, r) = Cat(b, s) /\ Len(a) = Len(b) => a = b /\ r = s
<1>1. /\ Len(Cat(a, r)) = Len(a) + Len(r)
      /\ \A i \in 1..Len(a) : Cat(a, r)[i] = a[i]
      /\ \A i \in 1..Len(r) : Cat(a, r)[Len(a) + i] = r[i]
  BY DEF Cat
<1>2. /\ Len(Cat(b, s)) = Len(b) + Len(s)
      /\ \A i \in 1..Len(b) : Cat(b, s)[i] = b[i]
      /\ \A i \in 1..Len(s) : Cat(b, s)[Len(b) + i] = s[i]
  BY DEF Cat
<1> HAVE Cat(a, r) = Cat(b, s) /\ Len(a) = Len(b)
<1>3. Len(r) = Len(s)
  BY <1>1, <1>2
<1>4. \A i \in 1..Len(a) : a[i] = b[i]
  BY <1>1, <1>2
<1>5. \A i \in 1..Len(r) : r[i] = s[i]
  BY <1>1, <1>2, <1>3
<1> QED
  BY <1>3, <1>4, <1>5, SeqEqual

-----------------------------------------------------------------------------
(* The encoding of names *)

\* A name preceded by its length, as appendChunk adds it.
Chunk(n) == Cat(PutUint32(Len(n)), n)

LEMMA NameParts ==
    ASSUME NEW n \in Name
    PROVE  /\ n \in Seq(Byte)
           /\ Len(n) \in Uint32
           /\ PutUint32(Len(n)) \in Seq(Byte)
           /\ Len(PutUint32(Len(n))) = 4
           /\ Chunk(n) \in Seq(Byte)
<1>1. n \in Seq(Byte) /\ Len(n) \in Uint32 /\ Len(n) \in Nat
  BY DEF Name
<1>2. PutUint32(Len(n)) \in Seq(Byte) /\ Len(PutUint32(Len(n))) = 4
  BY <1>1, PutUint32Type
<1> QED
  BY <1>1, <1>2, CatParts DEF Chunk

\* A chunk at the start of a key is read back, and so is what follows it.
LEMMA ChunkUnique ==
    ASSUME NEW a \in Name, NEW b \in Name,
           NEW r \in Seq(Byte), NEW s \in Seq(Byte),
           Cat(Chunk(a), r) = Cat(Chunk(b), s)
    PROVE  a = b /\ r = s
<1> DEFINE k == PutUint32(Len(a))
           l == PutUint32(Len(b))
<1>1. /\ a \in Seq(Byte) /\ k \in Seq(Byte) /\ Len(k) = 4 /\ Len(a) \in Uint32
      /\ b \in Seq(Byte) /\ l \in Seq(Byte) /\ Len(l) = 4 /\ Len(b) \in Uint32
  BY NameParts
<1>2. k = l => Len(a) = Len(b)
  BY <1>1, PutUint32Injective
<1>3. Cat(Cat(k, a), r) = Cat(Cat(l, b), s)
  BY DEF Chunk
<1> HIDE DEF k, l
<1>4. Cat(k, Cat(a, r)) = Cat(l, Cat(b, s))
  BY <1>1, <1>3, CatAssociative
<1>5. Cat(a, r) \in Seq(Byte) /\ Cat(b, s) \in Seq(Byte)
  BY <1>1, CatParts
<1>6. k = l /\ Cat(a, r) = Cat(b, s)
  BY <1>1, <1>4, <1>5, CatCancel
<1> QED
  BY <1>1, <1>2, <1>6, CatCancel

LEMMA KeyIsChunks ==
    ASSUME NEW n \in Name, NEW c \in Name
    PROVE  routeKey(n, c) = Cat(Chunk(n), Chunk(c))
<1>1. \A d, b : appendChunk(d, b) = Cat(Cat(d, PutUint32(Len(b))), b)
  BY DEF appendChunk, Cat
<1>2. Cat(<< >>, PutUint32(Len(n))) = PutUint32(Len(n))
  BY NameParts DEF Cat
<1>3. appendChunk(<< >>, n) = Chunk(n)
  BY <1>1, <1>2 DEF Chunk
<1>4. appendChunk(Chunk(n), c) = Cat(Chunk(n), Chunk(c))
  <2>1. Cat(Cat(Chunk(n), PutUint32(Len(c))), c) = Cat(Chunk(n), Cat(PutUint32(Len(c)), c))
    BY NameParts, CatAssociative
  <2> QED
    BY <1>1, <2>1 DEF Chunk
<1> QED
  BY <1>3, <1>4 DEF routeKey

\* Two collections, of one namespace or of two, never share a position in the
\* ordered keyspace: the lengths keep ("ab", "c") apart from ("a", "bc"), for
\* every name whose length fits its four bytes (routeKey).
THEOREM RouteKeyInjective ==
    ASSUME NEW ns1 \in Name, NEW coll1 \in Name,
           NEW ns2 \in Name, NEW coll2 \in Name,
           routeKey(ns1, coll1) = routeKey(ns2, coll2)
    PROVE  ns1 = ns2 /\ coll1 = coll2
<1>1. Cat(Chunk(ns1), Chunk(coll1)) = Cat(Chunk(ns2), Chunk(coll2))
  BY KeyIsChunks
<1>2. ns1 = ns2 /\ Chunk(coll1) = Chunk(coll2)
  BY <1>1, NameParts, ChunkUnique
<1>3. Cat(Chunk(coll1), << >>) = Cat(Chunk(coll2), << >>)
  BY <1>2
<1>4. << >> \in Seq(Byte)
  OBVIOUS
<1>5. coll1 = coll2
  BY <1>3, <1>4, ChunkUnique
<1> QED
  BY <1>2, <1>5

-----------------------------------------------------------------------------
(* Values *)

LEMMA CoreRange == Cores \subseteq Int /\ 0 \in Cores /\ NoCore \notin Cores /\ Main \notin Cores
BY RouterAssumption DEF Cores

LEMMA ShardRange == FirstDataShard \in Shards /\ Shards \subseteq Nat
BY RouterAssumption DEF Shards, FirstDataShard

\* A write's shard is one the table has a place for.
LEMMA ShardOfWrite ==
    ASSUME NEW k \in Collections
    PROVE  ShardForKey(k[1], k[2], DataShards) \in Shards
BY RouterAssumption, ShardForKeyInRange DEF Shards

LEMMA EmptyTableType == EmptyTable \in Table
BY DEF EmptyTable, Table

LEMMA IdleType == Idle \in Process
BY EmptyTableType, CoreRange, ShardRange DEF Idle, Process

\* A report's table names cores only, each the one a replica id stands for.
LEMMA LeadersType ==
    ASSUME NEW report \in [Shards -> 0..NReplicas]
    PROVE  /\ Leaders(report) \in Table
           /\ \A s \in Shards :
                Leaders(report)[s] # NoCore => Leaders(report)[s] + 1 = report[s]
<1>1. \A s \in Shards : report[s] \in Int
  BY RouterAssumption
<1> QED
  BY <1>1, CoreRange DEF Leaders, Table

LEMMA RouteType ==
    ASSUME TypeOK, NEW s \in Shards
    PROVE  Route(s) \in Cores
<1>1. table[s] \in Cores \cup {NoCore}
  BY DEF TypeOK, Table
<1>2. s % NCores \in Cores
  BY RouterAssumption, ShardRange DEF Cores
<1> QED
  BY <1>1, <1>2 DEF Route

LEMMA RefreshingType ==
    ASSUME NEW r \in Process, NEW then \in {"idle", "reread"}
    PROVE  /\ Refreshing(r, then) \in Process
           /\ Refreshing(r, then).pc = "refresh"
           /\ Refreshing(r, then).found = r.found
           /\ Refreshing(r, then).then = then
BY CoreRange DEF Refreshing, Process

LEMMA NextCoreType ==
    ASSUME NEW r \in Process
    PROVE  /\ NextCore(r) \in Process
           /\ NextCore(r).pc \in {r.pc, "install"}
           /\ NextCore(r).found = r.found
           /\ NextCore(r).then = r.then
BY DEF NextCore, Process

LEMMA AnsweredType ==
    ASSUME NEW r \in Process, NEW report \in [Shards -> 0..NReplicas]
    PROVE  /\ Answered(r, report) \in Process
           /\ Answered(r, report).pc \in {r.pc, "install"}
           /\ Answered(r, report).found \in {r.found, Leaders(report)}
           /\ Answered(r, report).then = r.then
<1>1. Leaders(report) \in Table
  BY LeadersType
<1>2. [r EXCEPT !.pc = "install", !.found = Leaders(report)] \in Process
  BY <1>1 DEF Process
<1> QED
  BY <1>1, <1>2, NextCoreType DEF Answered, Process

-----------------------------------------------------------------------------
(* What the steps of one goroutine do *)

LEMMA ProcType ==
    ASSUME TypeOK, NEW p \in Procs
    PROVE  /\ proc[p] \in Process
           /\ proc[p].shard \in Shards
           /\ proc[p].core \in Cores
           /\ proc[p].found \in Table
           /\ proc[p].then \in {"idle", "reread"}
BY DEF TypeOK, Process

\* A step that changes nothing but its goroutine's locals.
Local == UNCHANGED <<clientVars, routerVars, clusterVars>>

\* A write goes on from a client that is open, or from where it is; it finds no
\* leaders by itself.
WriterMove(w, r) ==
    /\ r \in Process
    /\ Becomes(w, r)
    /\ phase = "open" \/ proc[w].pc # "idle"
    /\ r.found \in {EmptyTable, proc[w].found}

\* A refresh stays one until it installs, and finds what a core reports.
RefreshMove(p, r) ==
    /\ r \in Process
    /\ Becomes(p, r)
    /\ proc[p].pc = "refresh"
    /\ r.pc \in {"refresh", "install"}
    /\ r.then = proc[p].then
    /\ r.found = proc[p].found \/ \E report \in Reports : r.found = Leaders(report)

LEMMA WriteMoves ==
    ASSUME TypeOK, NEW w \in Writers,
           (\E k \in Collections : Write(w, k)) \/ WriteStep(w) \/ BudgetWriteFails(w)
    PROVE  Local /\ \E r : WriterMove(w, r)
<1>0. w \in Procs /\ proc[w] \in Process
  BY ProcType DEF Procs
<1>1. Idle \in Process /\ Idle.pc = "idle" /\ Idle.found = EmptyTable
  BY IdleType DEF Idle
<1>2. ASSUME NEW k \in Collections, Write(w, k) PROVE Local /\ \E r : WriterMove(w, r)
  <2> DEFINE s == ShardForKey(k[1], k[2], DataShards)
             i == [Idle EXCEPT !.shard = s]
             call == [i EXCEPT !.pc = "call", !.core = Route(s)]
             next == IF table[s] = NoCore /\ age >= RefreshMin
                     THEN Refreshing(i, "reread") ELSE call
  <2>1. Becomes(w, next) /\ Local /\ phase = "open"
    BY <1>2, Zenon DEF Write, Local
  <2>2. s \in Shards
    BY ShardOfWrite
  <2> HIDE DEF s
  <2>3. i \in Process /\ i.found = EmptyTable
    BY <1>1, <2>2 DEF Process
  <2>4. Route(s) \in Cores
    BY <2>2, RouteType
  <2>5. call \in Process /\ call.pc = "call" /\ call.found = EmptyTable
    BY <2>3, <2>4 DEF Process
  <2>6. /\ Refreshing(i, "reread") \in Process
        /\ Refreshing(i, "reread").found = EmptyTable
    BY <2>3, RefreshingType
  <2> HIDE DEF call, i
  <2>7. /\ next \in Process
        /\ next.found = EmptyTable
    BY <2>5, <2>6
  <2> HIDE DEF next
  <2>8. WriterMove(w, next)
    BY <2>1, <2>7 DEF WriterMove
  <2> QED
    BY <2>1, <2>8
<1>3. CASE Reread(w)
  <2> DEFINE next == [proc[w] EXCEPT !.pc = "call", !.core = Route(proc[w].shard),
                                     !.then = "idle"]
  <2>1. Route(proc[w].shard) \in Cores
    BY <1>0, ProcType, RouteType
  <2>2. next \in Process /\ next.pc = "call" /\ next.found = proc[w].found
    BY <1>0, <2>1 DEF Process
  <2>3. Becomes(w, next) /\ Local /\ proc[w].pc = "reread"
    BY <1>3 DEF Reread, Local
  <2> HIDE DEF next
  <2>4. WriterMove(w, next)
    BY <2>2, <2>3 DEF WriterMove
  <2> QED
    BY <2>3, <2>4
<1>4. CASE CallServed(w) \/ CallTimesOut(w)
  <2>1. Becomes(w, Idle) /\ Local /\ proc[w].pc = "call"
    BY <1>4 DEF CallServed, CallTimesOut, Local
  <2>2. WriterMove(w, Idle)
    BY <1>1, <2>1 DEF WriterMove
  <2> QED
    BY <2>1, <2>2
<1>5. CASE CallFails(w) \/ BudgetWriteFails(w)
  <2> DEFINE next == [Idle EXCEPT !.pc = "error"]
  <2>1. next \in Process /\ next.pc = "error" /\ next.found = EmptyTable
    BY <1>1 DEF Process
  <2>2. Becomes(w, next) /\ Local /\ (phase = "open" \/ proc[w].pc # "idle")
    BY <1>5 DEF CallFails, BudgetWriteFails, Local
  <2> HIDE DEF next
  <2>3. WriterMove(w, next)
    BY <2>1, <2>2 DEF WriterMove
  <2> QED
    BY <2>2, <2>3
<1>6. CASE NoteError(w)
  <2> DEFINE next == IF StaleTable THEN Refreshing(proc[w], "idle") ELSE Idle
  <2>1. /\ Refreshing(proc[w], "idle") \in Process
        /\ Refreshing(proc[w], "idle").found = proc[w].found
    BY <1>0, RefreshingType
  <2>2. /\ next \in Process
        /\ next.found \in {EmptyTable, proc[w].found}
    BY <1>1, <2>1
  <2>3. Becomes(w, next) /\ Local /\ proc[w].pc = "error"
    BY <1>6 DEF NoteError, Local
  <2> HIDE DEF next
  <2>4. WriterMove(w, next)
    BY <2>2, <2>3 DEF WriterMove
  <2> QED
    BY <2>3, <2>4
<1> QED
  BY <1>2, <1>3, <1>4, <1>5, <1>6 DEF WriteStep

LEMMA ReportType == Reports \subseteq [Shards -> 0..NReplicas]
BY DEF Reports

LEMMA RefreshMoves ==
    ASSUME TypeOK, NEW p \in Procs, RefreshStep(p)
    PROVE  Install(p) \/ (Local /\ \E r : RefreshMove(p, r))
<1>0. proc[p] \in Process
  BY ProcType
<1>1. ASSUME NEW report \in Reports, TierAnswered(p, report)
      PROVE  Local /\ \E r : RefreshMove(p, r)
  <2>1. /\ Answered(proc[p], report) \in Process
        /\ Answered(proc[p], report).pc \in {proc[p].pc, "install"}
        /\ Answered(proc[p], report).found \in {proc[p].found, Leaders(report)}
        /\ Answered(proc[p], report).then = proc[p].then
    BY <1>0, ReportType, AnsweredType
  <2>2. Becomes(p, Answered(proc[p], report)) /\ Local /\ proc[p].pc = "refresh"
    BY <1>1 DEF TierAnswered, Local
  <2>3. RefreshMove(p, Answered(proc[p], report))
    BY <2>1, <2>2 DEF RefreshMove
  <2> QED
    BY <2>2, <2>3
<1>2. CASE TierFailed(p)
  <2>1. Becomes(p, NextCore(proc[p])) /\ Local /\ proc[p].pc = "refresh"
    BY <1>2 DEF TierFailed, Local
  <2>2. RefreshMove(p, NextCore(proc[p]))
    BY <1>0, <2>1, NextCoreType DEF RefreshMove
  <2> QED
    BY <2>1, <2>2
<1>3. CASE RefreshTimesOut(p)
  <2>1. PICK over \in BOOLEAN :
          Becomes(p, [proc[p] EXCEPT !.pc = "install", !.expired = over])
    BY <1>3, Zenon DEF RefreshTimesOut
  <2> DEFINE next == [proc[p] EXCEPT !.pc = "install", !.expired = over]
  <2>2. /\ next \in Process
        /\ next.pc = "install"
        /\ next.found = proc[p].found
        /\ next.then = proc[p].then
    BY <1>0 DEF Process
  <2>3. Becomes(p, next) /\ Local /\ proc[p].pc = "refresh"
    BY <1>3, <2>1 DEF RefreshTimesOut, Local
  <2> HIDE DEF next
  <2>4. RefreshMove(p, next)
    BY <2>2, <2>3 DEF RefreshMove
  <2> QED
    BY <2>3, <2>4
<1> QED
  BY <1>1, <1>2, <1>3 DEF RefreshStep

\* The dial of the last core hands over to the first refresh.
Primes ==
    /\ phase = "dialing" /\ phase' = "priming"
    /\ Becomes(Dialer, [Idle EXCEPT !.pc = "refresh"])

\* Every step, by what it does to the goroutines.
LEMMA Moves ==
    ASSUME TypeOK, [Next]_vars
    PROVE  \/ UNCHANGED proc /\ (phase' # "priming" \/ UNCHANGED phase)
           \/ Primes
           \/ Local /\ \E w \in Writers : \E r : WriterMove(w, r)
           \/ Local /\ \E p \in Procs : \E r : RefreshMove(p, r)
           \/ \E p \in Procs : Install(p)
<1>1. CASE UNCHANGED vars
  BY <1>1 DEF vars, clientVars
<1>2. CASE DialStep
  <2>1. CASE DialMain \/ DialCoreFails
    BY <2>1 DEF DialMain, DialCoreFails
  <2>2. DialCore => UNCHANGED <<proc, phase>> \/ Primes
    BY DEF DialCore, Primes, Becomes
  <2> QED
    BY <1>2, <2>1, <2>2 DEF DialStep
<1>3. CASE CloseStep \/ ClusterStep \/ Tick
  BY <1>3 DEF CloseStep, Close, CloseCore, CloseMain, ClusterStep, Elect,
              ChangeHealth, Settle, Tick, clientVars
<1> QED
  BY <1>1, <1>2, <1>3, WriteMoves, RefreshMoves DEF Next

-----------------------------------------------------------------------------
(* Type correctness *)

\* A step of one goroutine keeps the types if its new locals have theirs.
LEMMA BecomesType ==
    ASSUME TypeOK, NEW p \in Procs, NEW r \in Process, Becomes(p, r)
    PROVE  proc' \in [Procs -> Process]
BY DEF TypeOK, Becomes

LEMMA TypeOfDial == TypeOK /\ (DialStep \/ CloseStep) => TypeOK'
<1> SUFFICES ASSUME TypeOK, DialStep \/ CloseStep PROVE TypeOK'
  OBVIOUS
<1>1. [Idle EXCEPT !.pc = "refresh"] \in Process
  BY IdleType DEF Process
<1>2. Dialer \in Procs
  BY DEF Procs
<1>3. CASE DialMain
  BY <1>3 DEF TypeOK, DialMain, routerVars, clusterVars
<1>4. CASE DialCore
  <2>1. proc' \in [Procs -> Process]
    BY <1>1, <1>2, <1>4 DEF TypeOK, DialCore
  <2>2. dialed \in Cores /\ dialed + 1 \in 0..NCores
    BY <1>4, RouterAssumption DEF TypeOK, DialCore, Cores
  <2> QED
    BY <1>4, <2>1, <2>2 DEF TypeOK, DialCore, routerVars, clusterVars
<1>5. CASE DialCoreFails \/ Close \/ CloseMain
  BY <1>5 DEF TypeOK, DialCoreFails, Close, CloseMain, routerVars, clusterVars
<1>6. CASE CloseCore
  <2>1. at + 1 \in 0..NCores
    BY <1>6, RouterAssumption DEF TypeOK, CloseCore, CoresLeft
  <2> QED
    BY <1>6, <2>1 DEF TypeOK, CloseCore, routerVars, clusterVars
<1> QED
  BY <1>3, <1>4, <1>5, <1>6 DEF DialStep, CloseStep

LEMMA TypeOfLocal ==
    ASSUME TypeOK, Local, NEW p \in Procs, NEW r \in Process, Becomes(p, r)
    PROVE  TypeOK'
BY BecomesType DEF TypeOK, Local, clientVars, routerVars, clusterVars

LEMMA TypeOfInstall ==
    ASSUME TypeOK, NEW p \in Procs, Install(p)
    PROVE  TypeOK'
<1>0. proc[p] \in Process
  BY ProcType
<1>1. [proc[p] EXCEPT !.pc = "reread", !.core = 0, !.found = EmptyTable] \in Process
  BY <1>0, CoreRange, EmptyTableType DEF Process
<1>2. proc' \in [Procs -> Process]
  BY <1>1, IdleType, BecomesType DEF Install
<1>3. table' \in Table
  BY ProcType DEF Install, Installed, TypeOK
<1>4. age' \in 0..RefreshMin
  BY RouterAssumption DEF Install
<1> QED
  BY <1>2, <1>3, <1>4 DEF Install, TypeOK, clusterVars

LEMMA TypeOfProcs ==
    ASSUME TypeOK,
           (\E w \in Writers : (\E k \in Collections : Write(w, k)) \/ WriteStep(w)
                                  \/ BudgetWriteFails(w))
             \/ \E p \in Procs : RefreshStep(p)
    PROVE  TypeOK'
<1>1. ASSUME NEW w \in Writers, Local, NEW r, WriterMove(w, r) PROVE TypeOK'
  BY <1>1, TypeOfLocal DEF WriterMove, Procs
<1>2. ASSUME NEW p \in Procs, Local, NEW r, RefreshMove(p, r) PROVE TypeOK'
  BY <1>2, TypeOfLocal DEF RefreshMove
<1> QED
  BY <1>1, <1>2, WriteMoves, RefreshMoves, TypeOfInstall

LEMMA TypeOfCluster == TypeOK /\ (ClusterStep \/ Tick) => TypeOK'
<1> SUFFICES ASSUME TypeOK, ClusterStep \/ Tick PROVE TypeOK'
  OBVIOUS
<1>1. ASSUME NEW s \in Shards, NEW r \in 1..NReplicas, Elect(s, r) PROVE TypeOK'
  BY <1>1 DEF TypeOK, Elect, clientVars, routerVars
<1>2. ASSUME NEW c \in Cores, NEW h \in {"up", "down", "hung"}, ChangeHealth(c, h)
      PROVE  TypeOK'
  BY <1>2 DEF TypeOK, ChangeHealth, clientVars, routerVars
<1>3. CASE Settle
  BY <1>3 DEF TypeOK, Settle, clientVars, routerVars
<1>4. CASE Tick
  BY <1>4, RouterAssumption DEF TypeOK, Tick, clientVars, clusterVars
<1> QED
  BY <1>1, <1>2, <1>3, <1>4 DEF ClusterStep

LEMMA InitType == Init => TypeOK
<1> SUFFICES ASSUME Init PROVE TypeOK
  OBVIOUS
<1>1. proc \in [Procs -> Process]
  BY IdleType DEF Init
<1>2. led \in [Shards -> SUBSET (1..NReplicas)]
  BY DEF Init
<1>3. health \in [Cores -> {"up", "down", "hung"}]
  BY DEF Init
<1>4. age \in 0..RefreshMin /\ dialed \in 0..NCores /\ at \in 0..NCores
  BY RouterAssumption DEF Init
<1> QED
  BY <1>1, <1>2, <1>3, <1>4, EmptyTableType DEF Init, TypeOK

LEMMA NextType == TypeOK /\ [Next]_vars => TypeOK'
<1> SUFFICES ASSUME TypeOK, [Next]_vars PROVE TypeOK'
  OBVIOUS
<1>1. CASE UNCHANGED vars
  BY <1>1 DEF TypeOK, vars, clientVars, routerVars, clusterVars
<1>2. CASE Next
  BY <1>2, TypeOfDial, TypeOfProcs, TypeOfCluster DEF Next
<1> QED
  BY <1>1, <1>2

\* Type correctness of the router, the goroutines that use it and its cluster.
THEOREM TypeCorrect == Spec => []TypeOK
BY InitType, NextType, PTL DEF Spec

-----------------------------------------------------------------------------
(* Who runs when *)

\* Dial's goroutine refreshes once, before there is a client to write with.
Roles ==
    /\ proc[Dialer].pc \in {"idle", "refresh", "install"}
    /\ proc[Dialer].then = "idle"
    /\ proc[Dialer].pc # "idle" => phase = "priming"
    /\ phase \in {"new", "dialing", "abandoning", "failed", "priming"}
         => \A w \in Writers : proc[w].pc = "idle"

LEMMA InitRoles == Init => Roles
BY DEF Init, Roles, Idle, Procs

LEMMA PhaseMoves ==
    ASSUME TypeOK, [Next]_vars
    PROVE  \/ phase' = phase
           \/ /\ phase \in {"new", "dialing", "abandoning"}
              /\ phase' \in {"dialing", "abandoning", "failed", "priming"}
           \/ phase \in {"open", "closing"} /\ phase' \in {"closing", "closed"}
           \/ Install(Dialer)
<1>1. CASE DialStep \/ CloseStep
  BY <1>1 DEF DialStep, DialMain, DialCore, DialCoreFails, CloseStep, Close, CloseCore,
              CloseMain
<1>2. ASSUME NEW p \in Procs, RefreshStep(p)
      PROVE  phase' = phase \/ Install(Dialer)
  <2>1. Install(p) /\ p # Dialer => phase' = phase
    BY DEF Install
  <2> QED
    BY <1>2, <2>1, RefreshMoves DEF Local, clientVars
<1>3. ASSUME NEW w \in Writers,
             (\E k \in Collections : Write(w, k)) \/ WriteStep(w) \/ BudgetWriteFails(w)
      PROVE  phase' = phase
  BY <1>3, WriteMoves DEF Local, clientVars
<1>4. CASE ClusterStep \/ Tick \/ UNCHANGED vars
  BY <1>4 DEF ClusterStep, Elect, ChangeHealth, Settle, Tick, vars, clientVars
<1> QED
  BY <1>1, <1>2, <1>3, <1>4 DEF Next

LEMMA NextRoles == TypeOK /\ Roles /\ [Next]_vars => Roles'
<1> SUFFICES ASSUME TypeOK, Roles, [Next]_vars PROVE Roles'
  OBVIOUS
<1>0. /\ proc \in [Procs -> Process]
      /\ Dialer \in Procs /\ Dialer \notin Writers /\ Writers \subseteq Procs
  BY RouterAssumption DEF TypeOK, Procs
<1>1. CASE UNCHANGED proc /\ ~Install(Dialer)
  BY <1>1, PhaseMoves DEF Roles
<1>2. CASE Primes
  BY <1>0, <1>2 DEF Primes, Roles, Becomes, Idle
<1>3. ASSUME NEW w \in Writers, NEW r, Local, WriterMove(w, r) PROVE Roles'
  BY <1>0, <1>3 DEF Local, clientVars, WriterMove, Becomes, Roles
<1>4. ASSUME NEW p \in Procs, NEW r, Local, RefreshMove(p, r) PROVE Roles'
  BY <1>0, <1>4 DEF Local, clientVars, RefreshMove, Becomes, Roles
<1>5. ASSUME NEW p \in Procs, Install(p) PROVE Roles'
  <2>1. CASE p = Dialer
    BY <1>0, <1>5, <2>1 DEF Install, Becomes, Roles, Idle
  <2>2. CASE p # Dialer
    BY <1>0, <1>5, <2>2 DEF Install, Becomes, Roles, Idle, Procs
  <2> QED
    BY <2>1, <2>2
<1> QED
  BY <1>0, <1>1, <1>2, <1>3, <1>4, <1>5, Moves

-----------------------------------------------------------------------------
(* What a refresh installs *)

\* What changes the table: nothing but the end of a refresh.
LEMMA TableMoves ==
    ASSUME TypeOK, [Next]_vars
    PROVE  UNCHANGED <<table, leader, led>> \/ (\E p \in Procs : Install(p))
             \/ (UNCHANGED <<table, proc>> /\ ClusterStep)
<1>1. CASE DialStep \/ CloseStep \/ Tick \/ UNCHANGED vars
  BY <1>1 DEF DialStep, DialMain, DialCore, DialCoreFails, CloseStep, Close, CloseCore,
              CloseMain, Tick, vars, routerVars, clusterVars
<1>2. ASSUME NEW p \in Procs, RefreshStep(p)
      PROVE  UNCHANGED <<table, leader, led>> \/ Install(p)
  BY <1>2, RefreshMoves DEF Local, routerVars, clusterVars
<1>3. ASSUME NEW w \in Writers,
             (\E k \in Collections : Write(w, k)) \/ WriteStep(w) \/ BudgetWriteFails(w)
      PROVE  UNCHANGED <<table, leader, led>>
  BY <1>3, WriteMoves DEF Local, routerVars, clusterVars
<1>4. CASE ClusterStep
  BY <1>4 DEF ClusterStep, Elect, ChangeHealth, Settle, routerVars
<1> QED
  BY <1>1, <1>2, <1>3, <1>4 DEF Next

\* Everything a table or a refresh under way holds has been reported.
Found(t, l) == \A s \in Shards : t[s] # NoCore => t[s] + 1 \in l[s]

Reported ==
    /\ \A s \in Shards : leader[s] \in led[s]
    /\ Found(table, led)
    /\ \A p \in Procs : Found(proc[p].found, led)

LEMMA FoundEmpty == Found(EmptyTable, led)
BY DEF Found, EmptyTable

\* A report names leaders the shards have had.
LEMMA FoundInReport ==
    ASSUME TypeOK, Reported, NEW report \in Reports
    PROVE  Found(Leaders(report), led)
<1> SUFFICES ASSUME NEW s \in Shards, Leaders(report)[s] # NoCore
             PROVE  Leaders(report)[s] + 1 \in led[s]
  BY DEF Found
<1>1. Leaders(report)[s] + 1 = report[s]
  BY ReportType, LeadersType
<1>2. report[s] \in led[s] \cup {0}
  BY DEF Reports, Reported
<1>3. report[s] # 0
  <2>1. Leaders(report)[s] \in Cores
    BY ReportType, LeadersType DEF Table
  <2> QED
    BY <1>1, <2>1 DEF Cores
<1> QED
  BY <1>1, <1>2, <1>3

LEMMA InitReported == Init => Reported
<1> SUFFICES ASSUME Init PROVE Reported
  OBVIOUS
<1>1. \A p \in Procs : proc[p].found = EmptyTable
  BY DEF Init, Idle
<1> QED
  BY <1>1, FoundEmpty DEF Init, Reported

LEMMA NextReported == TypeOK /\ Reported /\ [Next]_vars => Reported'
<1> SUFFICES ASSUME TypeOK, Reported, [Next]_vars PROVE Reported'
  OBVIOUS
<1>1. \A s \in Shards : led[s] \subseteq led'[s]
  <2>1. CASE UNCHANGED led
    BY <2>1
  <2>2. ASSUME NEW s \in Shards, NEW r \in 1..NReplicas, Elect(s, r)
        PROVE  \A t \in Shards : led[t] \subseteq led'[t]
    BY <2>2 DEF Elect, TypeOK
  <2>3. ClusterStep => UNCHANGED led \/ \E s \in Shards, r \in 1..NReplicas : Elect(s, r)
    BY DEF ClusterStep, ChangeHealth, Settle
  <2>4. (\E p \in Procs : Install(p)) => UNCHANGED led
    BY DEF Install, clusterVars
  <2> QED
    BY <2>1, <2>2, <2>3, <2>4, TableMoves
<1>2. \A s \in Shards : leader'[s] \in led'[s]
  <2>1. CASE UNCHANGED <<leader, led>>
    BY <2>1 DEF Reported
  <2>2. ASSUME NEW s \in Shards, NEW r \in 1..NReplicas, Elect(s, r)
        PROVE  \A t \in Shards : leader'[t] \in led'[t]
    BY <2>2 DEF Elect, TypeOK, Reported
  <2>3. ClusterStep => \/ UNCHANGED <<leader, led>>
                      \/ \E s \in Shards, r \in 1..NReplicas : Elect(s, r)
    BY DEF ClusterStep, ChangeHealth, Settle
  <2>4. (\E p \in Procs : Install(p)) => UNCHANGED <<leader, led>>
    BY DEF Install, clusterVars
  <2> QED
    BY <2>1, <2>2, <2>3, <2>4, TableMoves
\* What has been reported stays so.
<1>3. \A t : Found(t, led) => Found(t, led')
  BY <1>1 DEF Found
<1>4. ASSUME NEW p \in Procs, Install(p)
      PROVE  Found(table', led') /\ \A q \in Procs : Found(proc'[q].found, led')
  <2>1. Found(proc[p].found, led') /\ Found(table, led')
    BY <1>3 DEF Reported
  <2>2. Found(table', led')
    BY <1>4, <2>1 DEF Install, Installed
  <2>3. /\ [proc[p] EXCEPT !.pc = "reread", !.core = 0, !.found = EmptyTable].found
             = EmptyTable
        /\ Idle.found = EmptyTable
    BY ProcType DEF Idle, Process
  <2>4. PICK r : Becomes(p, r) /\ r.found = EmptyTable
    BY <1>4, <2>3 DEF Install
  <2>5. \A q \in Procs : proc'[q].found \in {EmptyTable, proc[q].found}
    BY <2>4 DEF Becomes, TypeOK
  <2>6. Found(EmptyTable, led')
    BY DEF Found, EmptyTable
  <2>7. \A q \in Procs : Found(proc[q].found, led')
    BY <1>3 DEF Reported
  <2> QED
    BY <2>2, <2>5, <2>6, <2>7
<1>5. ASSUME NEW p \in Procs, NEW r, Becomes(p, r),
             \/ r.found \in {EmptyTable, proc[p].found}
             \/ \E report \in Reports : r.found = Leaders(report)
      PROVE  \A q \in Procs : Found(proc'[q].found, led')
  <2>1. Found(r.found, led)
    BY <1>5, FoundEmpty, FoundInReport DEF Reported
  <2>2. \A q \in Procs : proc'[q].found \in {r.found, proc[q].found}
    BY <1>5 DEF Becomes, TypeOK
  <2> QED
    BY <1>3, <2>1, <2>2 DEF Reported
<1>6. \A q \in Procs : Found(proc'[q].found, led')
  <2>1. CASE UNCHANGED proc
    BY <1>3, <2>1 DEF Reported
  <2>2. CASE Primes
    BY <1>5, <2>2 DEF Primes, Procs, Idle
  <2>3. ASSUME NEW w \in Writers, NEW r, WriterMove(w, r)
        PROVE  \A q \in Procs : Found(proc'[q].found, led')
    BY <1>5, <2>3 DEF WriterMove, Procs
  <2>4. ASSUME NEW p \in Procs, NEW r, RefreshMove(p, r)
        PROVE  \A q \in Procs : Found(proc'[q].found, led')
    BY <1>5, <2>4 DEF RefreshMove
  <2> QED
    BY <1>4, <2>1, <2>2, <2>3, <2>4, Moves
<1>7. Found(table', led')
  <2>1. CASE UNCHANGED table
    BY <1>3, <2>1 DEF Reported
  <2> QED
    BY <1>4, <2>1, TableMoves
<1> QED
  BY <1>2, <1>6, <1>7 DEF Reported

\* The table of a client in use, and every table on its way to be installed, name
\* only cores that have led the shard.
THEOREM OnlyLeadersReported == Spec => []TableWasReported
<1>1. Reported => TableWasReported
  BY DEF Reported, Found, TableWasReported
<1> QED
  BY <1>1, InitReported, NextReported, TypeCorrect, PTL DEF Spec

-----------------------------------------------------------------------------
(* Who owns the connections *)

\* The connections a client owns, wherever Dial or Close is: those dialed so far,
\* or those its loop has still to close.
Dialed ==
    /\ phase = "new" => open = {} /\ dialed = 0 /\ at = 0
    /\ phase = "dialing" => open = {Main} \cup 0..(dialed - 1) /\ at = 0
    /\ phase \in {"priming", "open"} => dialed = NCores /\ at = 0
                                         /\ open = Cores \cup {Main}
    /\ phase \in {"abandoning", "closing"} => open = {Main} \cup at..(dialed - 1)
    /\ phase \in {"failed", "closed"} => open = {}

LEMMA InitDialed == Init => Dialed
BY DEF Init, Dialed

LEMMA OpenMoves ==
    ASSUME TypeOK, [Next]_vars
    PROVE  \/ DialStep
           \/ CloseStep
           \/ UNCHANGED <<dialed, at, open>> /\ (UNCHANGED phase \/ Install(Dialer))
<1>1. CASE ClusterStep \/ Tick \/ UNCHANGED vars
  BY <1>1 DEF vars, clientVars, ClusterStep, Elect, ChangeHealth, Settle, Tick
<1>2. ASSUME NEW p \in Procs, RefreshStep(p)
      PROVE  UNCHANGED <<dialed, at, open>> /\ (UNCHANGED phase \/ Install(Dialer))
  <2>1. CASE Install(p)
    <3>1. UNCHANGED <<dialed, at, open>> /\ (p # Dialer => UNCHANGED phase)
      BY <2>1 DEF Install
    <3>2. p = Dialer => Install(Dialer)
      BY <2>1
    <3> QED
      BY <3>1, <3>2
  <2>2. CASE Local
    BY <2>2 DEF Local, clientVars
  <2> QED
    BY <1>2, <2>1, <2>2, RefreshMoves
<1>3. ASSUME NEW w \in Writers,
             (\E k \in Collections : Write(w, k)) \/ WriteStep(w) \/ BudgetWriteFails(w)
      PROVE  UNCHANGED <<dialed, at, open, phase>>
  BY <1>3, WriteMoves DEF Local, clientVars
<1> QED
  BY <1>1, <1>2, <1>3 DEF Next

LEMMA NextDialed == TypeOK /\ Roles /\ Dialed /\ [Next]_vars => Dialed'
<1> SUFFICES ASSUME TypeOK, Roles, Dialed, [Next]_vars PROVE Dialed'
  OBVIOUS
<1>0. NCores \in Nat \ {0} /\ dialed \in 0..NCores /\ at \in 0..NCores /\ Main \notin Int
  BY RouterAssumption DEF TypeOK
<1>1. CASE DialMain
  BY <1>0, <1>1 DEF DialMain, Dialed
<1>2. CASE DialCore
  <2>1. open' = {Main} \cup 0..dialed /\ dialed' - 1 = dialed /\ at' = 0
    BY <1>0, <1>2 DEF DialCore, Dialed
  <2>2. CASE dialed + 1 = NCores
    <3>1. phase' = "priming" /\ dialed' = NCores /\ 0..dialed = Cores
      BY <1>0, <1>2, <2>2 DEF DialCore, Cores
    <3> QED
      BY <2>1, <3>1 DEF Dialed
  <2>3. CASE dialed + 1 # NCores
    <3>1. phase' = "dialing"
      BY <1>2, <2>3 DEF DialCore
    <3> QED
      BY <2>1, <3>1 DEF Dialed
  <2> QED
    BY <2>2, <2>3
<1>3. CASE DialCoreFails
  BY <1>3 DEF DialCoreFails, Dialed
<1>4. CASE Close
  BY <1>4 DEF Close, Dialed, Cores
<1>5. CASE CloseCore
  <2>1. open = {Main} \cup at..(dialed - 1)
    BY <1>5 DEF CloseCore, Dialed
  <2>2. (at..(dialed - 1)) \ {at} = (at + 1)..(dialed - 1)
    BY <1>0
  <2>3. open' = {Main} \cup (at + 1)..(dialed - 1)
    BY <1>0, <1>5, <2>1, <2>2 DEF CloseCore
  <2> QED
    BY <1>5, <2>3 DEF CloseCore, Dialed
<1>6. CASE CloseMain
  <2>1. open = {Main} \cup at..(dialed - 1)
    BY <1>6 DEF CloseMain, Dialed
\* The loop has come to its end.
  <2>2. at..(dialed - 1) = {}
    BY <1>0, <1>6 DEF CloseMain, CoresLeft
  <2>3. open' = {}
    BY <1>6, <2>1, <2>2 DEF CloseMain
  <2> QED
    BY <1>6, <2>3 DEF CloseMain, Dialed
<1>7. CASE UNCHANGED <<dialed, at, open, phase>>
  BY <1>7 DEF Dialed
<1>8. CASE UNCHANGED <<dialed, at, open>> /\ Install(Dialer)
  BY <1>8 DEF Install, Roles, Dialed
<1> QED
  BY <1>1, <1>2, <1>3, <1>4, <1>5, <1>6, <1>7, <1>8, OpenMoves DEF DialStep, CloseStep

\* The loops of a Dial that fails at any of its cores, and of Close, come past
\* every connection that is open, and a client in use has one to every core.
THEOREM NoConnectionLost == Spec => []ConnectionsOwned
<1>1. Dialed => ConnectionsOwned
  BY DEF Dialed, ConnectionsOwned
<1> QED
  BY <1>1, InitRoles, NextRoles, InitDialed, NextDialed, TypeCorrect, PTL DEF Spec

=============================================================================
