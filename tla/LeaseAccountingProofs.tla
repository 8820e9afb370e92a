----------------------- MODULE LeaseAccountingProofs ------------------------
(***************************************************************************)
(* The units of LeasedBudget, for every value of its constants: no         *)
(* assumption on clocks, pauses or deadlines is needed.                    *)
(*                                                                         *)
(* The invariant says where the units of a lease are.  Until Return takes  *)
(* its chunk, a lease the holder has installed is spent from in one place  *)
(* only, and what the chunk has spent is what was served.  From then on    *)
(* nothing more is served from it, so that a return, however late or       *)
(* repeated, attests the final figure; a report attests an earlier one.    *)
(***************************************************************************)
EXTENDS LeasedBudgetProofs

-----------------------------------------------------------------------------

\* A cached chunk is of a lease granted in an earlier refill and not given up,
\* whose every unit is left in it or was served from it.
ChunkOK(h, c) ==
    /\ c.id[1] = h
    /\ c.id[2] < nonce[h]
    /\ ~GivenUp(c.id)
    /\ lease[c.id].state # "none"
    /\ c.spent = served[c.id]
    /\ c.remaining + c.spent = lease[c.id].amount
    /\ c.reported <= c.spent

Apart(h) == cur[h] # NoChunk /\ nxt[h] # NoChunk => cur[h].id # nxt[h].id

CellOK(h) == Apart(h) /\ \A c \in Cached(h) : ChunkOK(h, c)

\* A refill draws under a nonce that no installed lease has, holds the grant as
\* the server booked it, and attests no more than was served.
RefillUnitsOK(h, w) ==
    LET r == refill[h][w]
        id == makeLeaseID(h, r.nonce)
    IN
    /\ Committed(h, w) => r.nonce >= nonce[h]
    /\ r.pc = "gated" => r.row.state # "none"
    /\ r.pc \in {"replied", "gated"} /\ r.row.state # "none" =>
         lease[id].state # "none" /\ lease[id].amount = r.row.amount
    /\ r.pc \in {"reporting", "reported"} =>
         r.rep.id \in LeaseIds /\ r.rep.spent <= served[r.rep.id]

\* Only an installed lease is spent from or given up.
InstalledFirst(id) ==
    served[id] # 0 \/ GivenUp(id) => id[2] < nonce[id[1]]

UnitsOK(id) ==
    /\ lease[id].spent <= served[id]
    /\ served[id] <= lease[id].amount
    /\ lease[id].state = "none" => served[id] = 0
    /\ lease[id].state = "returned" => lease[id].spent = served[id]

\* A report on its way attests no more than was served, a return exactly that.
RequestOK(m) ==
    /\ m.kind = "report" => m.units <= served[m.id]
    /\ m.kind = "return" => m.units = served[m.id]

SettleOK(h) == \A i \in 1..Len(settle[h]) : settle[h][i].spent = served[settle[h][i].id]

AccountInv ==
    /\ \A h \in Holders : CellOK(h) /\ SettleOK(h)
    /\ \A h \in Holders, w \in Slots : RefillUnitsOK(h, w)
    /\ \A id \in LeaseIds : InstalledFirst(id) /\ UnitsOK(id)
    /\ \A m \in net : RequestOK(m)

LEMMA InitAccounts == Init => AccountInv
<1> SUFFICES ASSUME Init PROVE AccountInv
  OBVIOUS
<1>1. \A h \in Holders : CellOK(h) /\ SettleOK(h)
  BY DEF Init, CellOK, Apart, Cached, SettleOK
<1>2. \A h \in Holders, w \in Slots : RefillUnitsOK(h, w)
  BY DEF Init, RefillUnitsOK, IdleRefill, Committed
<1>3. \A id \in LeaseIds : InstalledFirst(id) /\ UnitsOK(id)
  BY DEF Init, PoolInit, NoRow, InstalledFirst, UnitsOK, GivenUp
<1>4. \A m \in net : RequestOK(m)
  BY DEF Init
<1> QED
  BY <1>1, <1>2, <1>3, <1>4 DEF AccountInv

-----------------------------------------------------------------------------
(* What the pool's handlers do to the units of the rows *)

\* A step that keeps the units of a granted row, up to what is attested of it.
UnitsKept(id) ==
    lease[id].state # "none" =>
      lease'[id].state # "none" /\ lease'[id].amount = lease[id].amount

LEMMA GrantUnits ==
    ASSUME PoolTypeOK, NEW i \in LeaseIds, NEW units \in Nat, BudgetGrant(i, units),
           NEW id \in LeaseIds, UnitsOK(id), UNCHANGED served
    PROVE  UnitsKept(id) /\ UnitsOK(id)'
<1>1. lease[id] \in Row /\ available \in Int
  BY DEF PoolTypeOK
<1>2. CASE lease'[id] = lease[id]
  BY <1>2 DEF UnitsOK, UnitsKept
<1>3. CASE lease'[id] # lease[id]
  <2> DEFINE grant == Least(units, available)
  <2>1. lease[id].state = "none" /\ grant > 0
    BY <1>3 DEF BudgetGrant, poolVars, PoolTypeOK
  <2>2. lease'[id] = [state |-> "live", amount |-> grant, spent |-> 0, grantedMs |-> now]
    BY <1>3 DEF BudgetGrant, poolVars, PoolTypeOK
  <2>3. grant \in Int
    BY <1>1 DEF Least
  <2> HIDE DEF grant
  <2> QED
    BY <2>1, <2>2, <2>3 DEF UnitsOK, UnitsKept
<1> QED
  BY <1>2, <1>3

LEMMA ReportUnits ==
    ASSUME PoolTypeOK, NEW i \in LeaseIds, NEW units \in Nat, BudgetReport(i, units),
           NEW id \in LeaseIds, UnitsOK(id), UNCHANGED served,
           served \in [LeaseIds -> Nat], units <= served[i]
    PROVE  UnitsKept(id) /\ UnitsOK(id)'
<1>1. lease[id] \in Row /\ served[id] \in Nat
  BY DEF PoolTypeOK
<1>2. CASE lease'[id] = lease[id]
  BY <1>2 DEF UnitsOK, UnitsKept
<1>3. CASE lease'[id] # lease[id]
  <2>1. id = i /\ IsLive(i)
    BY <1>3 DEF BudgetReport, poolVars, PoolTypeOK
  <2>2. lease'[id] = [lease[id] EXCEPT !.spent = Folded(lease[id], units)]
    BY <1>3, <2>1 DEF BudgetReport, PoolTypeOK
  <2>3. Folded(lease[id], units) <= served[id]
    BY <1>1, <2>1 DEF Folded, Largest, Least, Row, UnitsOK
  <2> QED
    BY <1>1, <2>1, <2>2, <2>3 DEF UnitsOK, UnitsKept, IsLive, Row
<1> QED
  BY <1>2, <1>3

LEMMA ReturnUnits ==
    ASSUME PoolTypeOK, NEW i \in LeaseIds, NEW units \in Nat, BudgetReturn(i, units),
           NEW id \in LeaseIds, UnitsOK(id), UNCHANGED served,
           served \in [LeaseIds -> Nat], units = served[i]
    PROVE  UnitsKept(id) /\ UnitsOK(id)'
<1>1. lease[id] \in Row /\ served[id] \in Nat
  BY DEF PoolTypeOK
<1>2. CASE lease'[id] = lease[id]
  BY <1>2 DEF UnitsOK, UnitsKept
<1>3. CASE lease'[id] # lease[id]
  <2>1. id = i /\ IsLive(i)
    BY <1>3 DEF BudgetReturn, poolVars, PoolTypeOK
  <2>2. lease'[id] = [lease[id] EXCEPT !.spent = Folded(lease[id], units), !.state = "returned"]
    BY <1>3, <2>1 DEF BudgetReturn, PoolTypeOK
  <2>3. Folded(lease[id], units) = served[id]
    BY <1>1, <2>1 DEF Folded, Largest, Least, Row, UnitsOK
  <2> QED
    BY <1>1, <2>1, <2>2, <2>3 DEF UnitsOK, UnitsKept, IsLive, Row
<1> QED
  BY <1>2, <1>3

LEMMA ExpireUnits ==
    ASSUME PoolTypeOK, NEW i \in LeaseIds, Expire(i),
           NEW id \in LeaseIds, UnitsOK(id), UNCHANGED served
    PROVE  UnitsKept(id) /\ UnitsOK(id)'
BY DEF PoolTypeOK, Expire, Row, IsLive, UnitsOK, UnitsKept

-----------------------------------------------------------------------------
(* Steps that serve nothing and install nothing *)

\* Each cached chunk was cached before, with the same units; what is attested of
\* it stays within what is spent; and no chunk is copied to the other buffer.
KeepsUnits(h) ==
    /\ \A c \in Cached(h)' :
         /\ c.reported <= c.spent
         /\ \E b \in Cached(h) :
              c.id = b.id /\ c.spent = b.spent /\ c.remaining = b.remaining
    /\ Apart(h)'

LEMMA KeptCell ==
    ASSUME TypeOK, AccountInv, UNCHANGED <<nonce, served>>,
           \A id \in LeaseIds : UnitsKept(id) /\ (GivenUp(id)' => GivenUp(id)),
           NEW h \in Holders, KeepsUnits(h)
    PROVE  CellOK(h)'
<1> SUFFICES ASSUME NEW c \in Cached(h)' PROVE ChunkOK(h, c)'
  BY DEF CellOK, KeepsUnits
<1>1. c.reported <= c.spent
  BY DEF KeepsUnits
<1>2. PICK b \in Cached(h) :
        c.id = b.id /\ c.spent = b.spent /\ c.remaining = b.remaining
  BY DEF KeepsUnits
<1>3. b.id \in LeaseIds
  BY CachedType
<1>4. ChunkOK(h, b)
  BY DEF AccountInv, CellOK
<1> QED
  BY <1>1, <1>2, <1>3, <1>4 DEF ChunkOK, UnitsKept

LEMMA SameCell ==
    ASSUME AccountInv, NEW h \in Holders, cur'[h] = cur[h], nxt'[h] = nxt[h]
    PROVE  KeepsUnits(h)
<1>1. Cached(h)' = Cached(h) /\ (Apart(h)' <=> Apart(h))
  BY DEF Cached, Apart
<1>2. CellOK(h)
  BY DEF AccountInv
<1> QED
  BY <1>1, <1>2 DEF KeepsUnits, CellOK, ChunkOK

LEMMA KeptRefill ==
    ASSUME TypeOK, AccountInv, UNCHANGED <<nonce, served>>,
           \A id \in LeaseIds : UnitsKept(id),
           NEW h \in Holders, NEW w \in Slots, refill'[h][w] = refill[h][w]
    PROVE  RefillUnitsOK(h, w)'
<1>1. makeLeaseID(h, refill[h][w].nonce) \in LeaseIds
  BY DEF TypeOK, RefillTypeOK, Refill, makeLeaseID, LeaseIds
<1>2. RefillUnitsOK(h, w)
  BY DEF AccountInv
<1> QED
  BY <1>1, <1>2 DEF RefillUnitsOK, UnitsKept, Committed, makeLeaseID

\* The frame of the proof: of a step that serves nothing, what is left to show.
LEMMA ServesNothing ==
    ASSUME TypeOK, AccountInv, UNCHANGED <<nonce, served>>,
           \A id \in LeaseIds :
             UnitsKept(id) /\ UnitsOK(id)' /\ (GivenUp(id)' => GivenUp(id)),
           \A h \in Holders : KeepsUnits(h) /\ SettleOK(h)',
           \A h \in Holders, w \in Slots : RefillUnitsOK(h, w)',
           \A m \in net' : RequestOK(m)'
    PROVE  AccountInv'
<1>1. \A h \in Holders : CellOK(h)'
  BY KeptCell
<1>2. \A id \in LeaseIds : InstalledFirst(id)'
  BY DEF AccountInv, InstalledFirst
<1> QED
  BY <1>1, <1>2 DEF AccountInv

\* The requests that were sent before are still right.
LEMMA KeptRequest ==
    ASSUME AccountInv, UNCHANGED served, NEW m \in net
    PROVE  RequestOK(m)'
BY DEF AccountInv, RequestOK

\* A step that leaves rows and settlements alone and sends no return.
LEMMA PoolAlone ==
    ASSUME TypeOK, AccountInv, UNCHANGED <<lease, nonce, served, settle>>,
           \A m \in net' : m \in net \/ (m.kind # "return" /\ RequestOK(m)'),
           \A h \in Holders : KeepsUnits(h),
           \A h \in Holders, w \in Slots : RefillUnitsOK(h, w)'
    PROVE  AccountInv'
<1>1. \A id \in LeaseIds : UnitsKept(id) /\ UnitsOK(id)'
  BY DEF AccountInv, UnitsKept, UnitsOK
<1>2. \A id \in LeaseIds : GivenUp(id)' => GivenUp(id)
  BY DEF GivenUp
<1>3. \A h \in Holders : SettleOK(h)'
  BY DEF AccountInv, SettleOK
<1>4. \A m \in net' : RequestOK(m)'
  BY KeptRequest
<1> QED
  BY <1>1, <1>2, <1>3, <1>4, ServesNothing

\* A step that only moves one refill.
LEMMA MovesRefill ==
    ASSUME TypeOK, AccountInv, NEW h \in Holders, NEW w \in Slots, NEW r,
           RefillBecomes(h, w, r), RefillUnitsOK(h, w)',
           UNCHANGED <<lease, nonce, served, settle>>,
           \A m \in net' : m \in net \/ (m.kind # "return" /\ RequestOK(m)'),
           \A g \in Holders : KeepsUnits(g)
    PROVE  AccountInv'
<1>1. \A id \in LeaseIds : UnitsKept(id)
  BY DEF UnitsKept
<1>2. \A g \in Holders, v \in Slots : ~(g = h /\ v = w) => refill'[g][v] = refill[g][v]
  BY RefillAt DEF TypeOK
<1>3. \A g \in Holders, v \in Slots : RefillUnitsOK(g, v)'
  BY <1>1, <1>2, KeptRefill
<1> QED
  BY <1>3, PoolAlone

\* A step that touches none of what the invariant speaks of.
LEMMA TouchesNothing ==
    ASSUME TypeOK, AccountInv,
           UNCHANGED <<lease, cur, nxt, nonce, settle, refill, served, net>>
    PROVE  AccountInv'
<1>1. \A id \in LeaseIds : UnitsKept(id)
  BY DEF UnitsKept
<1>2. \A h \in Holders, w \in Slots : RefillUnitsOK(h, w)'
  BY <1>1, KeptRefill
<1> QED
  BY <1>2, SameCell, PoolAlone

\* A refill that is not past its snapshot, or ends, attests and holds nothing.
LEMMA UncommittedUnits ==
    ASSUME NEW h \in Holders, NEW w \in Slots,
           NEW r \in {IdleRefill, BegunRefill, EndedRefill},
           TypeOK, RefillBecomes(h, w, r)
    PROVE  RefillUnitsOK(h, w)'
<1>1. refill'[h][w].pc \in {"idle", "begin", "done"}
  BY RefillAt DEF TypeOK, IdleRefill, BegunRefill, EndedRefill
<1> QED
  BY <1>1 DEF RefillUnitsOK, Committed

\* A refill that draws does so under a nonce not below the cell's.
LEMMA DrawingUnits ==
    ASSUME TypeOK, NEW h \in Holders, NEW w \in Slots, NEW r,
           RefillBecomes(h, w, r), r.pc = "drawing",
           UNCHANGED nonce, r.nonce >= nonce[h]
    PROVE  RefillUnitsOK(h, w)'
<1>1. refill'[h][w] = r
  BY RefillAt DEF TypeOK
<1> QED
  BY <1>1 DEF RefillUnitsOK, Committed

-----------------------------------------------------------------------------
(* The steps that move units *)

\* A Spend moves units from one cached chunk to its lease's count, and no other
\* chunk, request or settlement is of that lease.
LEMMA SpendUnits ==
    ASSUME TypeOK, AccountInv, NEW h \in Holders, NEW t \in Spenders,
           NEW n \in SpendSizes, SpendCached(h, t, n)
    PROVE  AccountInv'
<1> DEFINE c == PromotedCur(cur[h], nxt[h])
           x == PromotedNext(cur[h], nxt[h])
           s == [c EXCEPT !.remaining = @ - n, !.spent = @ + n]
<1>1. /\ c \in LeaseChunk /\ c \in Cached(h) /\ c # NoChunk
      /\ n \in Nat
      /\ c.remaining - n \in Nat
  BY ServedChunk DEF SpendCached, TypeOK, Cached
<1>2. /\ c.id \in LeaseIds /\ c.remaining \in Nat /\ c.spent \in Nat /\ c.reported \in Nat
      /\ ChunkOK(h, c)
      /\ CellOK(h)
  BY <1>1, CachedType DEF AccountInv, CellOK, LeaseChunk
<1>3. /\ cur' = [cur EXCEPT ![h] = s]
      /\ nxt' = [nxt EXCEPT ![h] = x]
      /\ served' = [served EXCEPT ![c.id] = @ + n]
  BY DEF SpendCached
<1>4. UNCHANGED <<lease, nonce, refill, settle, net>>
  BY DEF SpendCached, poolVars, flagVars
<1>5. /\ s.id = c.id /\ s.reported = c.reported
      /\ s.spent = c.spent + n /\ s.remaining = c.remaining - n
  BY <1>1 DEF LeaseChunk
\* The other chunk left in the cell is of another lease.
<1>6. x # NoChunk => x \in Cached(h) /\ x.id # c.id
  <2>1. CASE Kept(cur[h]) = NoChunk
    BY <2>1 DEF PromotedNext
  <2>2. CASE Kept(cur[h]) # NoChunk
    BY <1>2, <2>2 DEF PromotedCur, PromotedNext, Kept, CellOK, Apart, Cached
  <2> QED
    BY <2>1, <2>2
<1> HIDE DEF c, x, s
<1>7. \A id \in LeaseIds :
        /\ served[id] \in Nat
        /\ served'[id] = IF id = c.id THEN served[id] + n ELSE served[id]
        /\ GivenUp(id)' <=> GivenUp(id)
  BY <1>2, <1>3, <1>4 DEF TypeOK, GivenUp
<1>8. ASSUME NEW g \in Holders PROVE CellOK(g)' /\ SettleOK(g)'
  <2>1. SettleOK(g)'
    <3> SUFFICES ASSUME NEW i \in 1..Len(settle[g])
                 PROVE  settle[g][i].spent = served'[settle[g][i].id]
      BY <1>4 DEF SettleOK
    <3>1. settle[g][i] \in LeaseChunk
      BY DEF TypeOK, FlagTypeOK
    <3>2. settle[g][i].id \in LeaseIds /\ settle[g][i].id # c.id
      BY <1>2, <3>1 DEF LeaseChunk, ChunkOK, GivenUp
    <3> QED
      BY <1>7, <3>2 DEF AccountInv, SettleOK
  <2>2. CASE g = h
    <3>1. Cached(h)' \subseteq {s, x} /\ (x = NoChunk => Cached(h)' \subseteq {s})
      BY <1>3 DEF Cached, TypeOK, CellTypeOK
    <3>2. ASSUME NEW b, b = s PROVE ChunkOK(h, b)'
      BY <1>1, <1>2, <1>4, <1>5, <1>7, <3>2 DEF ChunkOK
    <3>3. ASSUME NEW b, b = x, x # NoChunk PROVE ChunkOK(h, b)'
      <4>1. b \in Cached(h) /\ b.id \in LeaseIds /\ b.id # c.id
        BY <1>6, <3>3, CachedType
      <4>2. ChunkOK(h, b)
        BY <1>2, <4>1 DEF CellOK
      <4> QED
        BY <1>4, <1>7, <4>1, <4>2 DEF ChunkOK
    <3>4. Apart(h)'
      BY <1>3, <1>5, <1>6 DEF Apart, TypeOK, CellTypeOK
    <3> QED
      BY <2>1, <2>2, <3>1, <3>2, <3>3, <3>4 DEF CellOK
  <2>3. CASE g # h
    <3>1. Cached(g)' = Cached(g) /\ (Apart(g)' <=> Apart(g))
      BY <1>3, <2>3 DEF Cached, Apart, TypeOK, CellTypeOK
    <3>2. ASSUME NEW b \in Cached(g) PROVE ChunkOK(g, b)'
      <4>1. ChunkOK(g, b) /\ b.id \in LeaseIds
        BY CachedType DEF AccountInv, CellOK
      <4>2. b.id # c.id
        BY <1>2, <2>3, <4>1 DEF ChunkOK
      <4> QED
        BY <1>4, <1>7, <4>1, <4>2 DEF ChunkOK
    <3> QED
      BY <2>1, <3>1, <3>2 DEF AccountInv, CellOK
  <2> QED
    BY <2>2, <2>3
<1>9. ASSUME NEW g \in Holders, NEW v \in Slots PROVE RefillUnitsOK(g, v)'
  <2>1. RefillUnitsOK(g, v) /\ refill[g][v] \in Refill
    BY DEF AccountInv, TypeOK, RefillTypeOK
  <2>2. refill[g][v].rep.spent \in Nat
    BY <2>1 DEF Refill
  <2>3. refill[g][v].pc \in {"reporting", "reported"} =>
          refill[g][v].rep.spent <= served'[refill[g][v].rep.id]
    BY <1>1, <1>7, <2>1, <2>2 DEF RefillUnitsOK
  <2> QED
    BY <1>4, <2>1, <2>3 DEF RefillUnitsOK, Committed
<1>10. ASSUME NEW id \in LeaseIds PROVE InstalledFirst(id)' /\ UnitsOK(id)'
  <2>1. InstalledFirst(id) /\ UnitsOK(id) /\ lease[id] \in Row
    BY DEF AccountInv, TypeOK, PoolTypeOK
  <2>2. CASE id = c.id
    <3>1. lease[id].state # "none" /\ lease[id].state # "returned"
      BY <1>2, <2>2 DEF ChunkOK, GivenUp
    <3>2. served'[id] <= lease[id].amount /\ lease[id].spent <= served'[id]
      BY <1>1, <1>2, <1>7, <2>1, <2>2 DEF ChunkOK, UnitsOK, Row
    <3>3. id[2] < nonce[id[1]]
      BY <1>2, <2>2 DEF ChunkOK
    <3> QED
      BY <1>4, <3>1, <3>2, <3>3 DEF UnitsOK, InstalledFirst
  <2>3. CASE id # c.id
    BY <1>4, <1>7, <2>1, <2>3 DEF UnitsOK, InstalledFirst
  <2> QED
    BY <2>2, <2>3
<1>11. ASSUME NEW m \in net' PROVE RequestOK(m)'
  <2>1. m \in net /\ RequestOK(m) /\ m.id \in LeaseIds /\ m.units \in Nat
    BY <1>4 DEF AccountInv, TypeOK, Request
  <2>2. m.kind = "return" => m.id # c.id
    BY <1>2, <2>1 DEF ChunkOK, GivenUp
  <2> QED
    BY <1>1, <1>7, <2>1, <2>2 DEF RequestOK
<1> QED
  BY <1>8, <1>9, <1>10, <1>11 DEF AccountInv

\* An install caches a lease nothing was ever served from.
LEMMA InstallUnits ==
    ASSUME TypeOK, FlightInv, AccountInv, NEW h \in Holders, NEW w \in Slots,
           RefillInstall(h, w)
    PROVE  AccountInv'
<1> DEFINE r == refill[h][w]
           id == makeLeaseID(h, r.nonce)
           x == Installed(id, r.row)
<1>1. /\ r \in Refill
      /\ r.nonce \in 0..MaxNonce
      /\ nonce \in [Holders -> 0..(MaxNonce + 1)]
      /\ r.nonce >= nonce[h]
      /\ r.pc = "gated"
      /\ lease[id].state # "none"
      /\ lease[id].amount = r.row.amount
      /\ r.row.amount \in Nat
  BY DEF TypeOK, RefillTypeOK, Refill, Row, CellTypeOK, AccountInv, RefillUnitsOK,
         Committed, RefillInstall
<1>2. id \in LeaseIds /\ id[1] = h /\ id[2] = r.nonce
  BY <1>1 DEF makeLeaseID, LeaseIds
<1>3. /\ UNCHANGED <<lease, settle, net, served>>
      /\ nonce' = [nonce EXCEPT ![h] = r.nonce + 1]
      /\ RefillBecomes(h, w, EndedRefill)
      /\ cur' = [cur EXCEPT ![h] = PromotedCur(cur[h], x)]
      /\ nxt' = [nxt EXCEPT ![h] = PromotedNext(cur[h], x)]
  BY DEF RefillInstall, poolVars, flagVars, NextNonce
<1>4. /\ \A g \in Holders : g # h => nonce'[g] = nonce[g]
      /\ nonce'[h] = r.nonce + 1
      /\ \A i \in LeaseIds : GivenUp(i)' <=> GivenUp(i)
  BY <1>1, <1>3 DEF GivenUp
<1>5. served[id] = 0 /\ ~GivenUp(id)
  BY <1>1, <1>2 DEF AccountInv, InstalledFirst
<1>6. x.id = id /\ x.remaining = r.row.amount /\ x.spent = 0 /\ x.reported = 0
  BY DEF Installed
<1> HIDE DEF x
<1>7. ASSUME NEW g \in Holders PROVE CellOK(g)'
  <2>1. CASE g # h
    <3>1. Cached(g)' = Cached(g) /\ (Apart(g)' <=> Apart(g))
      BY <1>3, <2>1 DEF Cached, Apart, TypeOK, CellTypeOK
    <3>2. ASSUME NEW b \in Cached(g) PROVE ChunkOK(g, b)'
      <4>1. ChunkOK(g, b) /\ b.id \in LeaseIds
        BY CachedType DEF AccountInv, CellOK
      <4> QED
        BY <1>3, <1>4, <2>1, <4>1 DEF ChunkOK
    <3> QED
      BY <3>1, <3>2 DEF AccountInv, CellOK
  <2>2. CASE g = h
    <3>1. /\ cur'[h] \in {cur[h], x, NoChunk}
          /\ nxt'[h] \in {x, NoChunk}
          /\ nxt'[h] = x /\ x # NoChunk => cur'[h] = cur[h]
      BY <1>3, PromotedChunks DEF TypeOK, CellTypeOK, PromotedCur, PromotedNext, Kept
    <3>2. ASSUME NEW b, b = x PROVE ChunkOK(h, b)'
      BY <1>1, <1>2, <1>3, <1>4, <1>5, <1>6, <3>2 DEF ChunkOK
    <3>3. ASSUME NEW b \in Cached(h) PROVE ChunkOK(h, b)' /\ b.id # id
      <4>1. ChunkOK(h, b) /\ b.id \in LeaseIds /\ b.id[2] \in 0..MaxNonce
        BY CachedType DEF AccountInv, CellOK
      <4>2. b.id[2] < nonce'[h] /\ b.id # id
        BY <1>1, <1>2, <1>4, <4>1 DEF ChunkOK
      <4> QED
        BY <1>3, <1>4, <4>1, <4>2 DEF ChunkOK
    <3>4. \A c \in Cached(h)' : c = x \/ c \in Cached(h)
      BY <3>1 DEF Cached
    <3>5. Apart(h)'
      BY <1>6, <3>1, <3>3 DEF Apart, Cached
    <3> QED
      BY <2>2, <3>2, <3>3, <3>4, <3>5 DEF CellOK
  <2> QED
    BY <2>1, <2>2
<1>8. ASSUME NEW g \in Holders, NEW v \in Slots PROVE RefillUnitsOK(g, v)'
  <2>1. CASE g = h
    <3>1. refill[h][w].pc # "idle"
      BY <1>1
    <3>2. v # w => refill[h][v].pc = "idle"
      BY <3>1 DEF FlightInv, FlightOK, InFlight
    <3>3. refill'[h][v].pc \in {"idle", "done"}
      BY <1>3, <3>2, RefillAt DEF TypeOK, EndedRefill, IdleRefill
    <3> QED
      BY <2>1, <3>3 DEF RefillUnitsOK, Committed
  <2>2. CASE g # h
    <3>1. refill'[g][v] = refill[g][v]
      BY <1>3, <2>2, RefillAt DEF TypeOK
    <3> QED
      BY <1>3, <1>4, <2>2, <3>1 DEF AccountInv, RefillUnitsOK, Committed
  <2> QED
    BY <2>1, <2>2
<1>9. ASSUME NEW i \in LeaseIds PROVE InstalledFirst(i)' /\ UnitsOK(i)'
  <2>1. i[1] \in Holders /\ i[2] \in 0..MaxNonce
    BY DEF LeaseIds
  <2>2. InstalledFirst(i) /\ UnitsOK(i)
    BY DEF AccountInv
  <2>3. InstalledFirst(i)'
    BY <1>1, <1>3, <1>4, <2>1, <2>2 DEF InstalledFirst
  <2> QED
    BY <1>3, <2>2, <2>3 DEF UnitsOK
<1>10. \A g \in Holders : SettleOK(g)'
  BY <1>3 DEF AccountInv, SettleOK
<1>11. \A m \in net' : RequestOK(m)'
  BY <1>3 DEF AccountInv, RequestOK
<1> QED
  BY <1>7, <1>8, <1>9, <1>10, <1>11 DEF AccountInv

\* A Return takes a cell's chunks with the units served from them.
LEMMA TakeUnits ==
    ASSUME TypeOK, AccountInv, NEW h \in Holders, ReturnTake(h)
    PROVE  AccountInv'
<1>1. /\ UNCHANGED <<lease, nonce, refill, served, net>>
      /\ settle' = [settle EXCEPT ![h] = Held(h)]
      /\ cur' = [cur EXCEPT ![h] = NoChunk]
      /\ nxt' = [nxt EXCEPT ![h] = NoChunk]
  BY DEF ReturnTake, poolVars, procVars
<1>2. /\ \A g \in Holders : settle'[g] = IF g = h THEN Held(h) ELSE settle[g]
      /\ \A i \in 1..Len(Held(h)) : Held(h)[i] \in Cached(h)
  BY <1>1 DEF Held, Cached, TypeOK, FlagTypeOK
<1>3. \A c \in Cached(h) : ChunkOK(h, c)
  BY DEF AccountInv, CellOK
<1>4. ASSUME NEW id \in LeaseIds, GivenUp(id)'
      PROVE  GivenUp(id) \/ \E c \in Cached(h) : c.id = id
  <2>1. CASE lease'[id].state = "returned" \/ \E m \in net' : m.kind = "return" /\ m.id = id
    BY <1>1, <2>1 DEF GivenUp
  <2>2. ASSUME NEW g \in Holders, NEW i \in 1..Len(settle'[g]), settle'[g][i].id = id
        PROVE  GivenUp(id) \/ \E c \in Cached(h) : c.id = id
    BY <1>2, <2>2 DEF GivenUp
  <2> QED
    BY <1>4, <2>1, <2>2 DEF GivenUp
<1>5. ASSUME NEW g \in Holders PROVE CellOK(g)'
  <2>1. CASE g = h
    BY <1>1, <2>1 DEF CellOK, Apart, Cached, TypeOK, CellTypeOK
  <2>2. CASE g # h
    <3>1. Cached(g)' = Cached(g) /\ (Apart(g)' <=> Apart(g))
      BY <1>1, <2>2 DEF Cached, Apart, TypeOK, CellTypeOK
    <3>2. ASSUME NEW b \in Cached(g) PROVE ChunkOK(g, b)'
      <4>1. ChunkOK(g, b) /\ b.id \in LeaseIds
        BY CachedType DEF AccountInv, CellOK
      <4>2. ~GivenUp(b.id)'
        BY <1>3, <1>4, <2>2, <4>1 DEF ChunkOK
      <4> QED
        BY <1>1, <4>1, <4>2 DEF ChunkOK
    <3> QED
      BY <3>1, <3>2 DEF AccountInv, CellOK
  <2> QED
    BY <2>1, <2>2
<1>6. ASSUME NEW g \in Holders PROVE SettleOK(g)'
  BY <1>1, <1>2, <1>3 DEF AccountInv, SettleOK, ChunkOK
<1>7. ASSUME NEW id \in LeaseIds PROVE InstalledFirst(id)' /\ UnitsOK(id)'
  BY <1>1, <1>3, <1>4 DEF AccountInv, InstalledFirst, UnitsOK, ChunkOK
<1>8. \A g \in Holders, v \in Slots : RefillUnitsOK(g, v)'
  BY <1>1 DEF AccountInv, RefillUnitsOK, Committed
<1>9. \A m \in net' : RequestOK(m)'
  BY <1>1 DEF AccountInv, RequestOK
<1> QED
  BY <1>5, <1>6, <1>7, <1>8, <1>9 DEF AccountInv

\* The request that settles a chunk names what was served from its lease.
LEMMA CallUnits ==
    ASSUME TypeOK, AccountInv, NEW h \in Holders, ReturnCall(h)
    PROVE  AccountInv'
<1>1. UNCHANGED <<lease, cur, nxt, nonce, refill, served, settle>>
  BY DEF ReturnCall, poolVars, cellVars, procVars
<1>2. 1 \in 1..Len(settle[h]) /\ Head(settle[h]) = settle[h][1]
  BY DEF ReturnCall, TypeOK, FlagTypeOK
<1>3. net' = net \cup {ReturnRequest(settle[h][1].id, settle[h][1].spent)}
  BY <1>2 DEF ReturnCall, FinalSpend
<1>4. \A m \in net' : RequestOK(m)'
  <2>1. settle[h][1].spent = served[settle[h][1].id]
    BY <1>2 DEF AccountInv, SettleOK
  <2> QED
    BY <1>1, <1>3, <2>1, KeptRequest DEF RequestOK, ReturnRequest
<1>5. \A id \in LeaseIds : GivenUp(id)' => GivenUp(id)
  BY <1>1, <1>2, <1>3 DEF GivenUp, ReturnRequest
<1>6. \A id \in LeaseIds : UnitsKept(id) /\ UnitsOK(id)'
  BY <1>1 DEF AccountInv, UnitsKept, UnitsOK
<1>7. \A g \in Holders : KeepsUnits(g) /\ SettleOK(g)'
  BY <1>1, SameCell DEF AccountInv, SettleOK
<1>8. \A g \in Holders, v \in Slots : RefillUnitsOK(g, v)'
  BY <1>1, <1>6, KeptRefill
<1> QED
  BY <1>1, <1>4, <1>5, <1>6, <1>7, <1>8, ServesNothing

LEMMA NextUnits ==
    ASSUME TypeOK, AccountInv, NEW h \in Holders, ReturnNext(h)
    PROVE  AccountInv'
<1>1. /\ UNCHANGED <<lease, cur, nxt, nonce, refill, served, net>>
      /\ settle' = [settle EXCEPT ![h] = Tail(settle[h])]
  BY DEF ReturnNext, poolVars, cellVars, procVars
<1>2. settle[h] \in Seq(LeaseChunk) /\ settle[h] # << >>
  BY DEF ReturnNext, TypeOK, FlagTypeOK
<1>3. \A i \in 1..Len(Tail(settle[h])) :
        /\ i + 1 \in 1..Len(settle[h])
        /\ Tail(settle[h])[i] = settle[h][i + 1]
  BY <1>2
<1>4. \A g \in Holders : settle'[g] = IF g = h THEN Tail(settle[h]) ELSE settle[g]
  BY <1>1 DEF TypeOK, FlagTypeOK
<1>5. ASSUME NEW id \in LeaseIds, GivenUp(id)' PROVE GivenUp(id)
  <2>1. ASSUME NEW g \in Holders, NEW i \in 1..Len(settle'[g]), settle'[g][i].id = id
        PROVE  GivenUp(id)
    BY <1>3, <1>4, <2>1 DEF GivenUp
  <2> QED
    BY <1>1, <1>5, <2>1 DEF GivenUp
<1>6. ASSUME NEW g \in Holders PROVE SettleOK(g)'
  BY <1>1, <1>3, <1>4 DEF AccountInv, SettleOK
<1>7. \A id \in LeaseIds : UnitsKept(id) /\ UnitsOK(id)'
  BY <1>1 DEF AccountInv, UnitsKept, UnitsOK
<1>8. \A g \in Holders, v \in Slots : RefillUnitsOK(g, v)'
  BY <1>1, <1>7, KeptRefill
<1>9. \A m \in net' : RequestOK(m)'
  BY <1>1 DEF AccountInv, RequestOK
<1> QED
  BY <1>1, <1>5, <1>6, <1>7, <1>8, <1>9, SameCell, ServesNothing

-----------------------------------------------------------------------------
(* The steps of the server *)

LEMMA ServerDrawUnits ==
    ASSUME TypeOK, AccountInv, NEW m \in net, ServerDraw(m)
    PROVE  AccountInv'
<1>1. m.id \in LeaseIds /\ m.units \in Nat
  BY DEF TypeOK, Request
<1>2. /\ UNCHANGED <<nonce, served, settle, cur, nxt>>
      /\ net' \subseteq net
      /\ BudgetGrant(m.id, m.units)
  BY DEF ServerDraw, cellVars, flagVars
<1>3. ASSUME NEW id \in LeaseIds PROVE UnitsKept(id) /\ UnitsOK(id)'
  BY <1>1, <1>2, GrantUnits DEF AccountInv, TypeOK
<1>4. ASSUME NEW id \in LeaseIds, GivenUp(id)' PROVE GivenUp(id)
  BY <1>1, <1>2, <1>4, GrantRows DEF GivenUp, TypeOK
<1>5. ASSUME NEW h \in Holders, NEW w \in Slots PROVE RefillUnitsOK(h, w)'
  <2> DEFINE r == refill[h][w]
  <2>1. r \in Refill /\ RefillUnitsOK(h, w)
    BY DEF TypeOK, RefillTypeOK, AccountInv
  <2>2. CASE r.pc = "drawing" /\ makeLeaseID(h, r.nonce) = m.id
    <3> DEFINE row == lease'[m.id]
    <3> HIDE DEF row
    <3>1. refill'[h][w] = [r EXCEPT !.pc = "replied", !.row = row]
      BY <2>2 DEF ServerDraw, row
    <3>2. /\ refill'[h][w].pc = "replied"
          /\ refill'[h][w].nonce = r.nonce
          /\ refill'[h][w].row = row
      BY <2>1, <3>1 DEF Refill
    <3> QED
      BY <1>2, <2>1, <2>2, <3>2 DEF RefillUnitsOK, Committed, makeLeaseID, row
  <2>3. CASE ~(r.pc = "drawing" /\ makeLeaseID(h, r.nonce) = m.id)
    <3>1. refill'[h][w] = r
      BY <2>3 DEF ServerDraw
    <3> QED
      BY <1>2, <1>3, <3>1, KeptRefill
  <2> QED
    BY <2>2, <2>3
<1>6. \A h \in Holders : KeepsUnits(h) /\ SettleOK(h)'
  BY <1>2, SameCell DEF AccountInv, SettleOK
<1>7. \A n \in net' : RequestOK(n)'
  BY <1>2, KeptRequest
<1> QED
  BY <1>2, <1>3, <1>4, <1>5, <1>6, <1>7, ServesNothing

LEMMA ServerReportUnits ==
    ASSUME TypeOK, AccountInv, NEW m \in net, ServerReport(m)
    PROVE  AccountInv'
<1>1. m.id \in LeaseIds /\ m.units \in Nat /\ m.units <= served[m.id]
  BY DEF TypeOK, Request, AccountInv, RequestOK, ServerReport
<1>2. /\ UNCHANGED <<nonce, served, settle, cur, nxt>>
      /\ net' \subseteq net
      /\ BudgetReport(m.id, m.units)
  BY DEF ServerReport, cellVars, flagVars
<1>3. ASSUME NEW id \in LeaseIds PROVE UnitsKept(id) /\ UnitsOK(id)'
  BY <1>1, <1>2, ReportUnits DEF AccountInv, TypeOK
<1>4. ASSUME NEW id \in LeaseIds, GivenUp(id)' PROVE GivenUp(id)
  BY <1>1, <1>2, <1>4, ReportRows DEF GivenUp, TypeOK
<1>5. ASSUME NEW h \in Holders, NEW w \in Slots PROVE RefillUnitsOK(h, w)'
  <2> DEFINE r == refill[h][w]
  <2>1. r \in Refill /\ RefillUnitsOK(h, w)
    BY DEF TypeOK, RefillTypeOK, AccountInv
  <2>2. CASE refill'[h][w] = r
    BY <1>2, <1>3, <2>2, KeptRefill
  <2>3. CASE r.pc = "reporting" /\ refill'[h][w] = [r EXCEPT !.pc = "reported"]
    <3>1. /\ refill'[h][w].pc = "reported"
          /\ refill'[h][w].nonce = r.nonce
          /\ refill'[h][w].rep = r.rep
      BY <2>1, <2>3 DEF Refill
    <3> QED
      BY <1>2, <2>1, <2>3, <3>1 DEF RefillUnitsOK, Committed
  <2> QED
    BY <2>2, <2>3 DEF ServerReport
<1>6. \A h \in Holders : KeepsUnits(h) /\ SettleOK(h)'
  BY <1>2, SameCell DEF AccountInv, SettleOK
<1>7. \A n \in net' : RequestOK(n)'
  BY <1>2, KeptRequest
<1> QED
  BY <1>2, <1>3, <1>4, <1>5, <1>6, <1>7, ServesNothing

LEMMA ServerReturnUnits ==
    ASSUME TypeOK, AccountInv, NEW m \in net, ServerReturn(m)
    PROVE  AccountInv'
<1>1. /\ m.id \in LeaseIds /\ m.units \in Nat /\ m.kind = "return"
      /\ m.units = served[m.id]
  BY DEF TypeOK, Request, AccountInv, RequestOK, ServerReturn
<1>2. /\ UNCHANGED <<nonce, served, settle, cur, nxt, refill>>
      /\ net' \subseteq net
      /\ BudgetReturn(m.id, m.units)
  BY DEF ServerReturn, cellVars, flagVars, procVars
<1>3. ASSUME NEW id \in LeaseIds PROVE UnitsKept(id) /\ UnitsOK(id)'
  BY <1>1, <1>2, ReturnUnits DEF AccountInv, TypeOK
<1>4. ASSUME NEW id \in LeaseIds, GivenUp(id)' PROVE GivenUp(id)
  <2>1. lease'[id].state = "returned" => lease[id].state = "returned" \/ id = m.id
    BY <1>1, <1>2, ReturnRows DEF TypeOK
  <2> QED
    BY <1>1, <1>2, <1>4, <2>1 DEF GivenUp
<1>5. \A h \in Holders, w \in Slots : RefillUnitsOK(h, w)'
  BY <1>2, <1>3, KeptRefill
<1>6. \A h \in Holders : KeepsUnits(h) /\ SettleOK(h)'
  BY <1>2, SameCell DEF AccountInv, SettleOK
<1>7. \A n \in net' : RequestOK(n)'
  BY <1>2, KeptRequest
<1> QED
  BY <1>2, <1>3, <1>4, <1>5, <1>6, <1>7, ServesNothing

LEMMA ReclaimUnits ==
    ASSUME TypeOK, AccountInv, NEW i \in LeaseIds, Reclaim(i)
    PROVE  AccountInv'
<1>1. UNCHANGED <<nonce, served, settle, cur, nxt, refill, net>> /\ Expire(i)
  BY DEF Reclaim, cellVars, flagVars, procVars
<1>2. ASSUME NEW id \in LeaseIds PROVE UnitsKept(id) /\ UnitsOK(id)'
  BY <1>1, ExpireUnits DEF AccountInv, TypeOK
<1>3. ASSUME NEW id \in LeaseIds, GivenUp(id)' PROVE GivenUp(id)
  BY <1>1, <1>3, ExpireRows DEF GivenUp, TypeOK
<1>4. \A h \in Holders, w \in Slots : RefillUnitsOK(h, w)'
  BY <1>1, <1>2, KeptRefill
<1>5. \A h \in Holders : KeepsUnits(h) /\ SettleOK(h)'
  BY <1>1, SameCell DEF AccountInv, SettleOK
<1>6. \A n \in net' : RequestOK(n)'
  BY <1>1, KeptRequest
<1> QED
  BY <1>1, <1>2, <1>3, <1>4, <1>5, <1>6, ServesNothing

-----------------------------------------------------------------------------
(* The steps of a refill *)

\* The redraw loop goes on with a fresh nonce, or ends.
LEMMA RedrawUnits ==
    ASSUME TypeOK, AccountInv, NEW h \in Holders, NEW w \in Slots, Redraw(h, w),
           refill[h][w].pc = "replied",
           UNCHANGED <<lease, cur, nxt, nonce, served, settle>>
    PROVE  AccountInv'
<1> DEFINE r == refill[h][w]
           s == [r EXCEPT !.pc = "drawing", !.nonce = @ + 1, !.attempt = @ + 1,
                          !.row = NoRow]
<1>0. r \in Refill /\ nonce[h] \in 0..(MaxNonce + 1)
  BY DEF TypeOK, RefillTypeOK, CellTypeOK
<1>1. r.nonce >= nonce[h] /\ nonce[h] \in Int
  BY <1>0, PoolAssumption DEF AccountInv, RefillUnitsOK, Committed
<1>2. \A m \in net' : m \in net \/ (m.kind # "return" /\ RequestOK(m)')
  BY DEF Redraw, DrawRequest, RequestOK
<1>3. \A g \in Holders : KeepsUnits(g)
  BY SameCell
<1>4. CASE r.attempt + 1 < MaxAttempts /\ r.nonce < MaxNonce
  <2>1. s.pc = "drawing" /\ s.nonce >= nonce[h]
    BY <1>0, <1>1 DEF Refill
  <2>2. RefillBecomes(h, w, s)
    BY <1>4 DEF Redraw
  <2> QED
    BY <1>2, <1>3, <2>1, <2>2, DrawingUnits, MovesRefill
<1>5. CASE ~(r.attempt + 1 < MaxAttempts /\ r.nonce < MaxNonce)
  BY <1>2, <1>3, <1>5, UncommittedUnits, MovesRefill DEF Redraw
<1> QED
  BY <1>4, <1>5

\* A refill attests what its snapshot found spent.
LEMMA AttestUnits ==
    ASSUME TypeOK, AccountInv, NEW h \in Holders, NEW w \in Slots, RefillAttest(h, w)
    PROVE  AccountInv'
<1> DEFINE rep == [id |-> cur[h].id, spent |-> cur[h].spent]
           s == [refill[h][w] EXCEPT !.pc = "reporting", !.nonce = nonce[h], !.rep = rep]
<1>1. refill[h][w] \in Refill /\ nonce[h] \in Nat
  BY PoolAssumption DEF TypeOK, RefillTypeOK, CellTypeOK
<1>2. cur[h] \in Cached(h) /\ cur[h].id \in LeaseIds /\ cur[h].spent = served[cur[h].id]
  BY CachedType DEF RefillAttest, Cached, AccountInv, CellOK, ChunkOK
<1>3. /\ RefillBecomes(h, w, s)
      /\ UNCHANGED <<lease, cur, nxt, nonce, served, settle>>
      /\ net' = net \cup {ReportRequest(cur[h].id, cur[h].spent)}
  BY DEF RefillAttest, poolVars, cellVars, flagVars
<1>4. served[cur[h].id] \in Nat
  BY <1>2 DEF TypeOK
<1>5. s.pc = "reporting" /\ s.nonce = nonce[h] /\ s.rep.id \in LeaseIds
      /\ s.rep.spent <= served[s.rep.id]
  BY <1>1, <1>2, <1>4 DEF Refill
<1>6. refill'[h][w] = s
  BY <1>3, RefillAt DEF TypeOK
<1> HIDE DEF s
<1>7. RefillUnitsOK(h, w)'
  BY <1>1, <1>3, <1>5, <1>6 DEF RefillUnitsOK, Committed
<1>8. \A m \in net' : m \in net \/ (m.kind # "return" /\ RequestOK(m)')
  BY <1>2, <1>3, <1>4 DEF ReportRequest, RequestOK
<1> QED
  BY <1>3, <1>7, <1>8, SameCell, MovesRefill

\* An accepted report is noted on cur, if cur is still that chunk.
LEMMA ReportedUnits ==
    ASSUME TypeOK, AccountInv, NEW h \in Holders, NEW w \in Slots, RefillReported(h, w)
    PROVE  AccountInv'
<1> DEFINE r == refill[h][w]
           s == [r EXCEPT !.pc = "drawing", !.rep = IdleRefill.rep]
           c == IF cur[h] # NoChunk /\ cur[h].id = r.rep.id
                THEN [cur[h] EXCEPT !.reported = r.rep.spent] ELSE cur[h]
<1>1. /\ r \in Refill
      /\ r.nonce >= nonce[h]
      /\ r.rep.id \in LeaseIds /\ r.rep.spent <= served[r.rep.id]
  BY DEF TypeOK, RefillTypeOK, AccountInv, RefillUnitsOK, Committed, RefillReported
<1>2. /\ RefillBecomes(h, w, s)
      /\ UNCHANGED <<lease, nxt, nonce, served, settle>>
      /\ cur' = [cur EXCEPT ![h] = c]
      /\ net' = net \cup {DrawRequest(makeLeaseID(h, r.nonce))}
  BY DEF RefillReported, poolVars, flagVars
<1>3. s.pc = "drawing" /\ s.nonce >= nonce[h]
  BY <1>1 DEF Refill
<1>4. \A m \in net' : m \in net \/ (m.kind # "return" /\ RequestOK(m)')
  BY <1>2 DEF DrawRequest, RequestOK
<1>5. CellOK(h) /\ cur[h] \in LeaseChunk \cup {NoChunk}
  BY DEF AccountInv, TypeOK, CellTypeOK
<1>6. cur[h] = NoChunk => c = NoChunk
  OBVIOUS
<1>7. cur[h] # NoChunk =>
        /\ c.id = cur[h].id /\ c.spent = cur[h].spent /\ c.remaining = cur[h].remaining
        /\ c.reported <= c.spent
  <2> SUFFICES ASSUME cur[h] # NoChunk
               PROVE  /\ c.id = cur[h].id /\ c.spent = cur[h].spent
                      /\ c.remaining = cur[h].remaining
                      /\ c.reported <= c.spent
    OBVIOUS
  <2>1. cur[h] \in LeaseChunk /\ ChunkOK(h, cur[h])
    BY <1>5 DEF CellOK, Cached
  <2> QED
    BY <1>1, <2>1 DEF LeaseChunk, ChunkOK
<1> HIDE DEF c, s
<1>8. ASSUME NEW g \in Holders PROVE KeepsUnits(g)
  <2>1. CASE g # h
    BY <1>2, <2>1, SameCell DEF TypeOK, CellTypeOK
  <2>2. CASE g = h
    <3>1. cur'[h] = c /\ nxt'[h] = nxt[h]
      BY <1>2 DEF TypeOK, CellTypeOK
    <3>2. \A b \in Cached(h) : b.reported <= b.spent
      BY <1>5 DEF CellOK, ChunkOK
    <3>3. Apart(h)'
      BY <1>5, <1>6, <1>7, <3>1 DEF CellOK, Apart
    <3> QED
      BY <1>6, <1>7, <2>2, <3>1, <3>2, <3>3 DEF KeepsUnits, Cached
  <2> QED
    BY <2>1, <2>2
<1> QED
  BY <1>2, <1>3, <1>4, <1>8, DrawingUnits, MovesRefill

\* The grant a refill takes through the gate is the one it was answered.
LEMMA FreshUnits ==
    ASSUME TypeOK, AccountInv, NEW h \in Holders, NEW w \in Slots, RefillFresh(h, w)
    PROVE  AccountInv'
<1> DEFINE r == refill[h][w]
           s == [r EXCEPT !.pc = "gated", !.gatedAt = now]
<1>1. r \in Refill /\ RefillUnitsOK(h, w) /\ r.pc = "replied" /\ r.row.state = "live"
  BY DEF TypeOK, RefillTypeOK, AccountInv, RefillFresh
<1>2. RefillBecomes(h, w, s) /\ UNCHANGED <<lease, cur, nxt, nonce, served, settle, net>>
  BY DEF RefillFresh, poolVars, cellVars, flagVars
<1>3. refill'[h][w] = s
  BY <1>2, RefillAt DEF TypeOK
<1>4. s.pc = "gated" /\ s.nonce = r.nonce /\ s.row = r.row
  BY <1>1 DEF Refill
<1> HIDE DEF s
<1>5. RefillUnitsOK(h, w)'
  BY <1>1, <1>2, <1>3, <1>4 DEF RefillUnitsOK, Committed, makeLeaseID
<1> QED
  BY <1>2, <1>5, SameCell, MovesRefill

-----------------------------------------------------------------------------
(* The theorems *)

LEMMA NextAccounts ==
    TypeOK /\ FlightInv /\ AccountInv /\ [Next]_vars => AccountInv'
<1> SUFFICES ASSUME TypeOK, FlightInv, AccountInv, [Next]_vars
             PROVE  AccountInv'
  OBVIOUS
<1>0. ASSUME UNCHANGED <<cur, nxt>> PROVE \A g \in Holders : KeepsUnits(g)
  BY <1>0, SameCell
<1>1. ASSUME NEW h \in Holders, NEW t \in Spenders, SpendBegin(h, t)
      PROVE  AccountInv'
  BY <1>1, TouchesNothing DEF SpendBegin, poolVars, cellVars, flagVars
<1>2. ASSUME NEW h \in Holders, NEW t \in Spenders, SelfFence(h, t)
      PROVE  AccountInv'
  <2>1. UNCHANGED <<lease, nonce, refill, settle, served, net>>
    BY <1>2 DEF SelfFence, poolVars, flagVars
  <2>2. ASSUME NEW g \in Holders PROVE KeepsUnits(g)
    <3>1. CellOK(g) /\ Cached(g)' \subseteq Cached(g)
      BY <1>2 DEF SelfFence, AccountInv, Cached, TypeOK, CellTypeOK
    <3>2. Apart(g)'
      BY <1>2, <3>1 DEF SelfFence, CellOK, Apart, TypeOK, CellTypeOK
    <3> QED
      BY <3>1, <3>2 DEF KeepsUnits, CellOK, ChunkOK
  <2>3. \A g \in Holders, v \in Slots : RefillUnitsOK(g, v)'
    BY <2>1, KeptRefill DEF UnitsKept
  <2> QED
    BY <2>1, <2>2, <2>3, PoolAlone
<1>3. ASSUME NEW h \in Holders, NEW t \in Spenders, PaceOut(h, t)
      PROVE  AccountInv'
  BY <1>3, TouchesNothing DEF PaceOut, poolVars, cellVars, flagVars
<1>4. ASSUME NEW h \in Holders, NEW t \in Spenders, NEW n \in SpendSizes,
             SpendCached(h, t, n)
      PROVE  AccountInv'
  BY <1>4, SpendUnits
<1>5. ASSUME NEW h \in Holders, NEW t \in Spenders, NEW n \in SpendSizes,
             SpendRefused(h, t, n)
      PROVE  AccountInv'
  <2>1. UNCHANGED <<lease, nonce, refill, settle, served, net>>
    BY <1>5 DEF SpendRefused, poolVars, flagVars
  <2>2. ASSUME NEW g \in Holders PROVE KeepsUnits(g)
    <3>1. CellOK(g) /\ Cached(g)' \subseteq Cached(g)
      BY <1>5, PromotedChunks DEF SpendRefused, AccountInv, Cached, TypeOK, CellTypeOK
    <3>2. Apart(g)'
      BY <1>5, <3>1, PromotedChunks DEF SpendRefused, CellOK, Apart, TypeOK, CellTypeOK, PromotedCur, PromotedNext, Kept
    <3> QED
      BY <3>1, <3>2 DEF KeepsUnits, CellOK, ChunkOK
  <2>3. \A g \in Holders, v \in Slots : RefillUnitsOK(g, v)'
    BY <2>1, KeptRefill DEF UnitsKept
  <2> QED
    BY <2>1, <2>2, <2>3, PoolAlone
<1>6. ASSUME NEW h \in Holders, NEW t \in Spenders, TriggerCheck(h, t)
      PROVE  AccountInv'
  BY <1>6, TouchesNothing DEF TriggerCheck, poolVars, cellVars, flagVars
<1>7. ASSUME NEW h \in Holders, NEW t \in Spenders, AlreadyRefilling(h, t)
      PROVE  AccountInv'
  BY <1>7, TouchesNothing DEF AlreadyRefilling, poolVars, cellVars, flagVars
<1>8. ASSUME NEW h \in Holders, NEW t \in Spenders, NEW w \in Slots,
             StartRefill(h, t, w)
      PROVE  AccountInv'
  BY <1>0, <1>8, UncommittedUnits, MovesRefill
     DEF StartRefill, poolVars, cellVars
<1>9. ASSUME NEW h \in Holders, NEW w \in Slots, Acquire(h, w)
      PROVE  AccountInv'
  BY <1>0, <1>9, UncommittedUnits, MovesRefill
     DEF Acquire, poolVars, cellVars
<1>10. ASSUME NEW h \in Holders, NEW w \in Slots, RefillNotNeeded(h, w)
      PROVE  AccountInv'
  BY <1>0, <1>10, UncommittedUnits, MovesRefill
     DEF RefillNotNeeded, poolVars, cellVars, flagVars
<1>11. ASSUME NEW h \in Holders, NEW w \in Slots, RefillAttest(h, w)
      PROVE  AccountInv'
  BY <1>11, AttestUnits
<1>12. ASSUME NEW h \in Holders, NEW w \in Slots, RefillDraw(h, w)
      PROVE  AccountInv'
  <2> DEFINE s == [refill[h][w] EXCEPT !.pc = "drawing", !.nonce = nonce[h]]
  <2>1. refill[h][w] \in Refill /\ nonce[h] \in Nat
    BY PoolAssumption DEF TypeOK, RefillTypeOK, CellTypeOK
  <2>2. s.pc = "drawing" /\ s.nonce >= nonce[h]
    BY <2>1 DEF Refill
  <2>3. /\ RefillBecomes(h, w, s)
        /\ UNCHANGED <<lease, cur, nxt, nonce, served, settle>>
        /\ \A m \in net' : m \in net \/ (m.kind # "return" /\ RequestOK(m)')
    BY <1>12 DEF RefillDraw, poolVars, cellVars, flagVars, DrawRequest, RequestOK
  <2> HIDE DEF s
  <2> QED
    BY <1>0, <2>2, <2>3, DrawingUnits, MovesRefill
<1>13. ASSUME NEW h \in Holders, NEW w \in Slots, RefillReported(h, w)
      PROVE  AccountInv'
  BY <1>13, ReportedUnits
<1>14. ASSUME NEW h \in Holders, NEW w \in Slots, ReportFailed(h, w)
      PROVE  AccountInv'
  <2> DEFINE s == [refill[h][w] EXCEPT !.pc = "drawing", !.rep = IdleRefill.rep]
  <2>1. refill[h][w] \in Refill /\ nonce[h] \in Nat
    BY PoolAssumption DEF TypeOK, RefillTypeOK, CellTypeOK
  <2>2. s.pc = "drawing" /\ s.nonce >= nonce[h]
    BY <1>14, <2>1 DEF ReportFailed, AccountInv, RefillUnitsOK, Committed, Refill
  <2>3. /\ RefillBecomes(h, w, s)
        /\ UNCHANGED <<lease, cur, nxt, nonce, served, settle>>
        /\ \A m \in net' : m \in net \/ (m.kind # "return" /\ RequestOK(m)')
    BY <1>14 DEF ReportFailed, poolVars, cellVars, flagVars, DrawRequest, RequestOK
  <2> HIDE DEF s
  <2> QED
    BY <1>0, <2>2, <2>3, DrawingUnits, MovesRefill
<1>15. ASSUME NEW h \in Holders, NEW w \in Slots, RefillSettled(h, w)
      PROVE  AccountInv'
  BY <1>15, RedrawUnits DEF RefillSettled, poolVars, cellVars, flagVars
<1>16. ASSUME NEW h \in Holders, NEW w \in Slots, RefillStale(h, w)
      PROVE  AccountInv'
  BY <1>16, RedrawUnits DEF RefillStale, poolVars, cellVars, flagVars
<1>17. ASSUME NEW h \in Holders, NEW w \in Slots, RefillGivesUp(h, w)
      PROVE  AccountInv'
  BY <1>0, <1>17, UncommittedUnits, MovesRefill
     DEF RefillGivesUp, poolVars, cellVars, flagVars
<1>18. ASSUME NEW h \in Holders, NEW w \in Slots, RefillFresh(h, w)
      PROVE  AccountInv'
  BY <1>18, FreshUnits
<1>19. ASSUME NEW h \in Holders, NEW w \in Slots, RefillInstall(h, w)
      PROVE  AccountInv'
  BY <1>19, InstallUnits
<1>20. ASSUME NEW h \in Holders, NEW w \in Slots, RefillDone(h, w)
      PROVE  AccountInv'
  BY <1>0, <1>20, UncommittedUnits, MovesRefill
     DEF RefillDone, poolVars, cellVars
<1>21. ASSUME NEW h \in Holders, ReturnBegin(h)
      PROVE  AccountInv'
  BY <1>21, TouchesNothing DEF ReturnBegin, poolVars, cellVars, procVars
<1>22. ASSUME NEW h \in Holders, ReturnTake(h)
      PROVE  AccountInv'
  BY <1>22, TakeUnits
<1>23. ASSUME NEW h \in Holders, ReturnCall(h)
      PROVE  AccountInv'
  BY <1>23, CallUnits
<1>24. ASSUME NEW h \in Holders, ReturnNext(h)
      PROVE  AccountInv'
  BY <1>24, NextUnits
<1>25. ASSUME NEW h \in Holders, ReturnEnd(h)
      PROVE  AccountInv'
  BY <1>25, TouchesNothing DEF ReturnEnd, poolVars, cellVars, procVars
<1>26. ASSUME NEW m \in net, ServerDraw(m)
      PROVE  AccountInv'
  BY <1>26, ServerDrawUnits
<1>27. ASSUME NEW m \in net, ServerReport(m)
      PROVE  AccountInv'
  BY <1>27, ServerReportUnits
<1>28. ASSUME NEW m \in net, ServerReturn(m)
      PROVE  AccountInv'
  BY <1>28, ServerReturnUnits
<1>29. ASSUME NEW id \in LeaseIds, Reclaim(id)
      PROVE  AccountInv'
  BY <1>29, ReclaimUnits
<1>30. ASSUME NEW acked \in 0..Cap, ControllerReconcile(acked)
      PROVE  AccountInv'
  BY <1>30, TouchesNothing DEF ControllerReconcile, poolVars, cellVars, flagVars, procVars
<1>33. ASSUME NEW c \in calls, ServerReconcile(c)
      PROVE  AccountInv'
  BY <1>33, TouchesNothing DEF ServerReconcile, Reconcile, cellVars, flagVars, procVars
<1>31. ASSUME Tick
      PROVE  AccountInv'
  BY <1>31, TouchesNothing DEF Tick, poolVars, cellVars, flagVars, procVars
<1>32. CASE UNCHANGED vars
  BY <1>32, TouchesNothing DEF vars, poolVars, cellVars, flagVars, procVars
<1> QED
  BY <1>1, <1>2, <1>3, <1>4, <1>5, <1>6, <1>7, <1>8, <1>9, <1>10, <1>11,
     <1>12, <1>13, <1>14, <1>15, <1>16, <1>17, <1>18, <1>19, <1>20, <1>21,
     <1>22, <1>23, <1>24, <1>25, <1>26, <1>27, <1>28, <1>29, <1>30, <1>31,
     <1>32, <1>33
     DEF Next, SpendStep, RefillStep, ReturnStep

LEMMA AccountInvariant == Spec => []AccountInv
<1>1. TypeOK /\ TypeOK' /\ FlightInv /\ [Next]_vars => FlightInv'
  BY NextFlight
<1> QED
  BY <1>1, InitAccounts, NextAccounts, InitFlight, TypeCorrect, PTL DEF Spec

\* However reports and returns are lost, delayed, repeated or overtaken, the
\* server never books more spend on a lease than was served from it, and a
\* returned lease is booked in full: what is credited back was not served
\* (the cumulative reports of refillOnce and Return, leasedbudget.go:258-288, 424-497).
THEOREM ReportsAreTrue == Spec => []LeaseAccounting
<1>1. AccountInv => LeaseAccounting
  BY DEF AccountInv, UnitsOK, LeaseAccounting
<1> QED
  BY <1>1, AccountInvariant, PTL

\* The double buffer neither loses nor doubles a unit, in whatever order spends,
\* promotions, installs, fences and Returns take the cell's lock
\* (promoteLocked, leasedbudget.go:387-400, and its callers).
THEOREM BuffersAddUp == Spec => []CacheMatches
<1>1. AccountInv => CacheMatches
  BY DEF AccountInv, CellOK, ChunkOK, Apart, CacheMatches
<1> QED
  BY <1>1, AccountInvariant, PTL

-----------------------------------------------------------------------------
(* The pool's accounts *)

Balanced == Cap = available + leasedOut + spent

LEMMA ServerKeepsBalance ==
    ASSUME TypeOK, Balanced, NEW id \in LeaseIds, NEW units \in Nat,
           \/ BudgetGrant(id, units) \/ BudgetReport(id, units)
           \/ BudgetReturn(id, units) \/ Expire(id)
    PROVE  Balanced'
<1>1. /\ lease[id].amount \in Nat /\ lease[id].spent \in Nat
      /\ available \in Int /\ leasedOut \in Int /\ spent \in Int /\ attested \in Int
      /\ Cap \in Nat
  BY PoolAssumption DEF TypeOK, PoolTypeOK, Row
<1>2. CASE BudgetGrant(id, units)
  BY <1>1, <1>2 DEF BudgetGrant, poolVars, Balanced, Least
<1>3. CASE BudgetReport(id, units)
  BY <1>1, <1>3 DEF BudgetReport, poolVars, Balanced, Folded, Largest, Least
<1>4. CASE BudgetReturn(id, units)
  BY <1>1, <1>4 DEF BudgetReturn, poolVars, Balanced, Folded, Largest, Least
<1>5. CASE Expire(id)
  BY <1>1, <1>5 DEF Expire, Balanced
<1> QED
  BY <1>2, <1>3, <1>4, <1>5

\* What the steps of a holder may do to the server: ask, but neither change the pool
\* nor take a request back.
HolderOnly == UNCHANGED poolVars /\ net \subseteq net'

LEMMA OthersLeavePool ==
    ASSUME NEW h \in Holders
    PROVE  /\ \A t \in Spenders : SpendStep(h, t) => HolderOnly
           /\ \A w \in Slots : Acquire(h, w) \/ RefillStep(h, w) => HolderOnly
           /\ ReturnBegin(h) \/ ReturnStep(h) => HolderOnly
<1>1. ASSUME NEW t \in Spenders, SpendStep(h, t) PROVE HolderOnly
  <2>1. SpendBegin(h, t) \/ SelfFence(h, t) \/ PaceOut(h, t) => HolderOnly
    BY DEF HolderOnly, SpendBegin, SelfFence, PaceOut
  <2>2. \A n \in SpendSizes :
          SpendCached(h, t, n) \/ SpendRefused(h, t, n) => HolderOnly
    BY DEF HolderOnly, SpendCached, SpendRefused
  <2>3. TriggerCheck(h, t) \/ AlreadyRefilling(h, t) => HolderOnly
    BY DEF HolderOnly, TriggerCheck, AlreadyRefilling
  <2>4. \A w \in Slots : StartRefill(h, t, w) => HolderOnly
    BY DEF HolderOnly, StartRefill
  <2> QED
    BY <1>1, <2>1, <2>2, <2>3, <2>4 DEF SpendStep
<1>2. ASSUME NEW w \in Slots, Acquire(h, w) \/ RefillStep(h, w) PROVE HolderOnly
  <2>1. Acquire(h, w) \/ RefillNotNeeded(h, w) \/ RefillAttest(h, w) \/ RefillDraw(h, w) =>
          HolderOnly
    BY DEF HolderOnly, Acquire, RefillNotNeeded, RefillAttest, RefillDraw
  <2>2. RefillReported(h, w) \/ ReportFailed(h, w) \/ RefillSettled(h, w) =>
          HolderOnly
    BY DEF HolderOnly, RefillReported, ReportFailed, RefillSettled, Redraw
  <2>3. RefillStale(h, w) \/ RefillGivesUp(h, w) \/ RefillFresh(h, w) => HolderOnly
    BY DEF HolderOnly, RefillStale, RefillGivesUp, RefillFresh, Redraw
  <2>4. RefillInstall(h, w) \/ RefillDone(h, w) => HolderOnly
    BY DEF HolderOnly, RefillInstall, RefillDone
  <2> QED
    BY <1>2, <2>1, <2>2, <2>3, <2>4 DEF RefillStep
<1>3. ReturnBegin(h) \/ ReturnStep(h) => HolderOnly
  BY DEF HolderOnly, ReturnBegin, ReturnStep, ReturnTake, ReturnCall, ReturnNext, ReturnEnd
<1> QED
  BY <1>1, <1>2, <1>3

\* Every unit of the cap is always available, leased out or spent, whatever the
\* order of grants, reports, returns, expiries and reconciles (the handlers of the
\* integration test's server): the part of Conservation that needs no sum.
THEOREM CapIsConserved == Spec => []Balanced
<1>1. Init => Balanced
  BY PoolAssumption DEF Init, PoolInit, Balanced
<1>2. TypeOK /\ Balanced /\ [Next]_vars => Balanced'
  <2> SUFFICES ASSUME TypeOK, Balanced, [Next]_vars PROVE Balanced'
    OBVIOUS
  <2>1. CASE UNCHANGED poolVars
    BY <2>1 DEF poolVars, Balanced
  <2>2. ASSUME NEW m \in net, ServerDraw(m) \/ ServerReport(m) \/ ServerReturn(m)
        PROVE  Balanced'
    <3>1. m.id \in LeaseIds /\ m.units \in Nat
      BY DEF TypeOK, Request
    <3>2. BudgetGrant(m.id, m.units) \/ BudgetReport(m.id, m.units)
            \/ BudgetReturn(m.id, m.units)
      BY <2>2 DEF ServerDraw, ServerReport, ServerReturn
    <3> QED
      BY <3>1, <3>2, ServerKeepsBalance
  <2>3. ASSUME NEW id \in LeaseIds, Reclaim(id) PROVE Balanced'
    BY <2>3, ServerKeepsBalance DEF Reclaim
  <2>4. ASSUME NEW c \in calls, ServerReconcile(c) PROVE Balanced'
    <3>1. Reconcile(c.acked) /\ c.acked \in Nat
      BY <2>4, PoolAssumption DEF ServerReconcile, TypeOK, ReconcileCall
    <3>2. /\ available \in Int /\ leasedOut \in Int /\ spent \in Int /\ attested \in Int
          /\ Cap \in Nat
      BY PoolAssumption DEF TypeOK, PoolTypeOK
    <3> QED
      BY <3>1, <3>2 DEF Reconcile, Balanced, Largest
  <2>5. Tick \/ (\E acked \in 0..Cap : ControllerReconcile(acked)) => UNCHANGED poolVars
    BY DEF Tick, ControllerReconcile
  <2>6. UNCHANGED vars => UNCHANGED poolVars
    BY DEF vars, poolVars
  <2> QED
    BY <2>1, <2>2, <2>3, <2>4, <2>5, <2>6, OthersLeavePool DEF Next, HolderOnly
<1> QED
  BY <1>1, <1>2, TypeCorrect, PTL DEF Spec

-----------------------------------------------------------------------------
(* Return settles each chunk *)

SettledState == {"returned", "expired"}

\* A granted row stays granted, and a settled one settled.
LEMMA RowsGoOn ==
    ASSUME TypeOK, [Next]_vars, NEW id \in LeaseIds
    PROVE  /\ lease[id].state # "none" => lease'[id].state # "none"
           /\ lease[id].state \in SettledState => lease'[id].state \in SettledState
<1> DEFINE RowGoesOn(row) == /\ lease[id].state # "none" => row.state # "none"
                             /\ lease[id].state \in SettledState => row.state \in SettledState
<1>0. lease \in [LeaseIds -> Row]
  BY DEF TypeOK, PoolTypeOK
<1>1. UNCHANGED lease => RowGoesOn(lease'[id])
  OBVIOUS
<1>2. ASSUME NEW i \in LeaseIds, NEW units,
             \/ BudgetGrant(i, units) \/ BudgetReport(i, units)
             \/ BudgetReturn(i, units) \/ Expire(i)
      PROVE  RowGoesOn(lease'[id])
  <2>1. CASE BudgetGrant(i, units)
    BY <1>0, <2>1 DEF BudgetGrant, poolVars, SettledState
  <2>2. CASE BudgetReport(i, units)
    BY <1>0, <2>2 DEF BudgetReport, poolVars, SettledState, Row
  <2>3. CASE BudgetReturn(i, units)
    BY <1>0, <2>3 DEF BudgetReturn, poolVars, SettledState, Row
  <2>4. CASE Expire(i)
    BY <1>0, <2>4 DEF Expire, SettledState, Row
  <2> QED
    BY <1>2, <2>1, <2>2, <2>3, <2>4
<1> HIDE DEF RowGoesOn
<1>3. ASSUME NEW m \in net, ServerDraw(m) \/ ServerReport(m) \/ ServerReturn(m)
      PROVE  RowGoesOn(lease'[id])
  <2>1. m.id \in LeaseIds
    BY DEF TypeOK, Request
  <2> QED
    BY <1>2, <1>3, <2>1 DEF ServerDraw, ServerReport, ServerReturn
<1>4. ASSUME NEW i \in LeaseIds, Reclaim(i) PROVE RowGoesOn(lease'[id])
  BY <1>2, <1>4 DEF Reclaim
<1>5. ASSUME NEW c \in calls, ServerReconcile(c) PROVE UNCHANGED lease
  BY <1>5 DEF ServerReconcile, Reconcile
<1>6. Tick \/ (\E acked \in 0..Cap : ControllerReconcile(acked)) \/ UNCHANGED vars
        => UNCHANGED lease
  BY DEF Tick, ControllerReconcile, vars, poolVars
<1>7. HolderOnly => UNCHANGED lease
  BY DEF HolderOnly, poolVars
<1>8. RowGoesOn(lease'[id])
  BY <1>1, <1>3, <1>4, <1>5, <1>6, <1>7, OthersLeavePool DEF Next
<1> QED
  BY <1>8 DEF RowGoesOn

\* A return that has been asked for is asked for until its lease is settled: the
\* server takes the request only by settling a live lease, or finds it settled.
LEMMA RequestGoesOn ==
    ASSUME TypeOK, [Next]_vars, NEW c \in LeaseChunk,
           lease[c.id].state # "none", Requested(c)
    PROVE  Requested(c)'
<1>0. c.id \in LeaseIds
  BY DEF LeaseChunk
<1>1. lease'[c.id].state # "none" /\
        (lease[c.id].state \in SettledState => lease'[c.id].state \in SettledState)
  BY <1>0, RowsGoOn
<1>2. CASE lease[c.id].state \in SettledState
  BY <1>1, <1>2 DEF Requested, SettledState
<1>3. ASSUME ReturnRequest(c.id, c.spent) \in net' PROVE Requested(c)'
  BY <1>3 DEF Requested
<1>4. CASE ReturnRequest(c.id, c.spent) \in net
  <2>1. ASSUME NEW m \in net, ServerDraw(m) \/ ServerReport(m)
        PROVE  ReturnRequest(c.id, c.spent) \in net'
    <3>1. ReturnRequest(c.id, c.spent).kind = "return"
      BY DEF ReturnRequest
    <3>2. m.kind # "return" /\ net' = net \ {m}
      BY <2>1 DEF ServerDraw, ServerReport
    <3> QED
      BY <1>4, <3>1, <3>2
  <2>2. ASSUME NEW m \in net, ServerReturn(m), m # ReturnRequest(c.id, c.spent)
        PROVE  ReturnRequest(c.id, c.spent) \in net'
    BY <1>4, <2>2 DEF ServerReturn
  <2>3. ASSUME ServerReturn(ReturnRequest(c.id, c.spent)) PROVE Requested(c)'
    <3>1. BudgetReturn(c.id, c.spent)
      BY <2>3 DEF ServerReturn, ReturnRequest
    <3>2. lease \in [LeaseIds -> Row] /\ lease[c.id] \in Row
      BY <1>0 DEF TypeOK, PoolTypeOK
    <3>3. lease'[c.id].state \in SettledState
      BY <1>0, <3>1, <3>2 DEF BudgetReturn, poolVars, IsLive, Row, SettledState
    <3> QED
      BY <3>3 DEF Requested, SettledState
  <2>4. ASSUME NEW i \in LeaseIds, Reclaim(i) PROVE UNCHANGED net
    BY <2>4 DEF Reclaim
  <2>5. ASSUME NEW k \in calls, ServerReconcile(k) PROVE UNCHANGED net
    BY <2>5 DEF ServerReconcile
  <2>6. Tick \/ (\E acked \in 0..Cap : ControllerReconcile(acked)) \/ UNCHANGED vars
          => UNCHANGED net
    BY DEF Tick, ControllerReconcile, vars
  <2>7. HolderOnly => ReturnRequest(c.id, c.spent) \in net'
    BY <1>4 DEF HolderOnly
  <2> QED
    BY <1>3, <1>4, <2>1, <2>2, <2>3, <2>4, <2>5, <2>6, <2>7, OthersLeavePool DEF Next
<1> QED
  BY <1>2, <1>4 DEF Requested, SettledState

\* What Return has taken was granted, and what it waits for it has asked for.
ReturnOK(h) ==
    /\ phase[h] \notin {"settle", "await"} => settle[h] = << >>
    /\ \A i \in 1..Len(settle[h]) : lease[settle[h][i].id].state # "none"
    /\ phase[h] = "await" => settle[h] # << >> /\ Requested(settle[h][1])

\* Only the steps of Return move what it has taken.
LEMMA OnlyReturnSettles ==
    ASSUME TypeOK, [Next]_vars, NEW h \in Holders, ~ReturnTake(h), ~ReturnNext(h)
    PROVE  /\ settle'[h] = settle[h]
           /\ \/ ReturnCall(h)
              \/ phase'[h] = phase[h]
              \/ phase[h] # "await" /\ phase'[h] \notin {"settle", "await"} /\ settle[h] = << >>
              \/ {phase[h], phase'[h]} \cap {"settle", "await"} = {}
<1> DEFINE Same == settle'[h] = settle[h] /\ phase'[h] = phase[h]
<1>0. settle \in [Holders -> Seq(LeaseChunk)] /\ DOMAIN phase = Holders
  BY DEF TypeOK, FlagTypeOK
<1>1. UNCHANGED <<phase, settle>> => Same
  OBVIOUS
<1>2. ASSUME NEW g \in Holders, NEW t \in Spenders, SpendStep(g, t) PROVE Same
  <2>1. SpendBegin(g, t) \/ SelfFence(g, t) \/ PaceOut(g, t) => Same
    BY DEF SpendBegin, SelfFence, PaceOut, flagVars
  <2>2. \A n \in SpendSizes : SpendCached(g, t, n) \/ SpendRefused(g, t, n) => Same
    BY DEF SpendCached, SpendRefused, flagVars
  <2>3. TriggerCheck(g, t) \/ AlreadyRefilling(g, t) => Same
    BY DEF TriggerCheck, AlreadyRefilling, flagVars
  <2>4. \A w \in Slots : StartRefill(g, t, w) => Same
    BY DEF StartRefill
  <2> QED
    BY <1>2, <2>1, <2>2, <2>3, <2>4 DEF SpendStep
<1>3. ASSUME NEW g \in Holders, NEW w \in Slots, Acquire(g, w) \/ RefillStep(g, w)
      PROVE  /\ settle'[h] = settle[h]
             /\ \/ phase'[h] = phase[h]
                \/ {phase[h], phase'[h]} \cap {"settle", "await"} = {}
  <2>1. RefillNotNeeded(g, w) \/ RefillAttest(g, w) \/ RefillDraw(g, w) => Same
    BY DEF RefillNotNeeded, RefillAttest, RefillDraw, flagVars
  <2>2. RefillReported(g, w) \/ ReportFailed(g, w) \/ RefillSettled(g, w) => Same
    BY DEF RefillReported, ReportFailed, RefillSettled, flagVars
  <2>3. RefillStale(g, w) \/ RefillGivesUp(g, w) \/ RefillFresh(g, w) => Same
    BY DEF RefillStale, RefillGivesUp, RefillFresh, flagVars
  <2>4. RefillInstall(g, w) => Same
    BY DEF RefillInstall, flagVars
  <2>5. CASE RefillDone(g, w)
    BY <1>0, <2>5 DEF RefillDone
  <2>6. CASE Acquire(g, w)
    BY <1>0, <2>6 DEF Acquire
  <2> QED
    BY <1>3, <2>1, <2>2, <2>3, <2>4, <2>5, <2>6 DEF RefillStep
<1>4. ASSUME NEW g \in Holders, g # h, ReturnBegin(g) \/ ReturnStep(g) PROVE Same
  BY <1>0, <1>4 DEF ReturnBegin, ReturnStep, ReturnTake, ReturnCall, ReturnNext, ReturnEnd
<1>5. CASE ReturnBegin(h)
  BY <1>0, <1>5 DEF ReturnBegin
<1>6. CASE ReturnEnd(h)
  BY <1>0, <1>6 DEF ReturnEnd
<1>7. CASE ReturnCall(h)
  BY <1>0, <1>7 DEF ReturnCall
<1>8. ASSUME NEW m \in net, ServerDraw(m) \/ ServerReport(m) \/ ServerReturn(m) PROVE Same
  BY <1>8 DEF ServerDraw, ServerReport, ServerReturn, flagVars
<1>9. (\E id \in LeaseIds : Reclaim(id)) \/ (\E c \in calls : ServerReconcile(c)) => Same
  BY DEF Reclaim, ServerReconcile, flagVars
<1>10. (\E acked \in 0..Cap : ControllerReconcile(acked)) \/ Tick \/ UNCHANGED vars => Same
  BY DEF ControllerReconcile, Tick, vars, flagVars
<1> QED
  BY <1>2, <1>3, <1>4, <1>5, <1>6, <1>7, <1>8, <1>9, <1>10 DEF Next, ReturnStep

LEMMA NextReturn ==
    ASSUME TypeOK, TypeOK', AccountInv, [Next]_vars, NEW h \in Holders, ReturnOK(h)
    PROVE  ReturnOK(h)'
<1>0. /\ settle[h] \in Seq(LeaseChunk) /\ settle'[h] \in Seq(LeaseChunk)
      /\ phase \in [Holders -> {"new", "acquiring", "open", "drain", "settle",
                                "await", "returned"}]
      /\ DOMAIN settle = Holders
  BY DEF TypeOK, FlagTypeOK
<1>1. ASSUME settle'[h] = settle[h]
      PROVE  \A i \in 1..Len(settle'[h]) : lease'[settle'[h][i].id].state # "none"
  <2> SUFFICES ASSUME NEW i \in 1..Len(settle[h])
               PROVE  lease'[settle[h][i].id].state # "none"
    BY <1>1
  <2>1. settle[h][i] \in LeaseChunk
    BY <1>0
  <2>2. settle[h][i].id \in LeaseIds
    BY <2>1 DEF LeaseChunk
  <2> QED
    BY <2>2, RowsGoOn DEF ReturnOK
<1>2. CASE ReturnTake(h)
  <2>1. settle'[h] = Held(h) /\ phase'[h] = "settle"
    BY <1>0, <1>2 DEF ReturnTake
  <2>2. \A i \in 1..Len(Held(h)) : Held(h)[i] \in Cached(h)
    BY DEF Held, Cached
  <2>3. \A c \in Cached(h) : lease[c.id].state # "none"
    BY DEF AccountInv, CellOK, ChunkOK
  <2>4. UNCHANGED lease
    BY <1>2 DEF ReturnTake, poolVars
  <2> QED
    BY <2>1, <2>2, <2>3, <2>4 DEF ReturnOK
<1>3. CASE ReturnNext(h)
  <2>1. settle'[h] = Tail(settle[h]) /\ phase'[h] = "settle" /\ settle[h] # << >>
    BY <1>0, <1>3 DEF ReturnNext
  <2>2. UNCHANGED lease
    BY <1>3 DEF ReturnNext, poolVars
  <2>3. \A i \in 1..Len(Tail(settle[h])) :
          i + 1 \in 1..Len(settle[h]) /\ Tail(settle[h])[i] = settle[h][i + 1]
    BY <1>0, <2>1
  <2> QED
    BY <2>1, <2>2, <2>3 DEF ReturnOK
<1>4. CASE ReturnCall(h)
  <2>1. /\ settle'[h] = settle[h] /\ phase'[h] = "await" /\ settle[h] # << >>
        /\ ReturnRequest(Head(settle[h]).id, FinalSpend(Head(settle[h]))) \in net'
    BY <1>0, <1>4 DEF ReturnCall
  <2>2. Head(settle[h]) = settle[h][1]
    BY <1>0, <2>1
  <2>3. Requested(settle[h][1])'
    BY <1>4, <2>1, <2>2 DEF Requested, FinalSpend, ReturnRequest, ReturnCall
  <2> QED
    BY <1>1, <2>1, <2>3 DEF ReturnOK, Requested
<1>5. CASE ~ReturnTake(h) /\ ~ReturnNext(h) /\ ~ReturnCall(h)
  <2>1. /\ settle'[h] = settle[h]
        /\ \/ phase'[h] = phase[h]
           \/ phase'[h] \notin {"settle", "await"} /\ settle[h] = << >>
           \/ {phase[h], phase'[h]} \cap {"settle", "await"} = {}
    BY <1>5, OnlyReturnSettles
  <2>2. phase'[h] \notin {"settle", "await"} => settle'[h] = << >>
    BY <2>1 DEF ReturnOK
  <2>3. ASSUME phase'[h] = "await" PROVE (settle[h] # << >> /\ Requested(settle[h][1]))'
    <3>1. phase[h] = "await" /\ settle[h] # << >> /\ Requested(settle[h][1])
      BY <2>1, <2>3 DEF ReturnOK
    <3>2. settle[h][1] \in LeaseChunk /\ lease[settle[h][1].id].state # "none"
      BY <1>0, <3>1 DEF ReturnOK
    <3>3. Requested(settle[h][1])'
      <4> DEFINE c == settle[h][1]
      <4>1. c \in LeaseChunk /\ lease[c.id].state # "none" /\ Requested(c)
        BY <3>1, <3>2
      <4>2. ReturnRequest(c.id, c.spent) \in net' \/ lease'[c.id].state \in {"returned", "expired"}
        <5> HIDE DEF c
        <5> QED
          BY <4>1, RequestGoesOn DEF Requested, ReturnRequest
      <4> QED
        BY <2>1, <4>2 DEF Requested, ReturnRequest
    <3> QED
      BY <2>1, <3>1, <3>3
  <2> QED
    BY <1>1, <2>1, <2>2, <2>3 DEF ReturnOK
<1> QED
  BY <1>2, <1>3, <1>4, <1>5

\* For any number of holders, and whatever of Return's RPCs fail: no chunk leaves the
\* cell but by an RPC that asks for its settlement at all that was served from it
\* (leasedbudget.go:270-286).
THEOREM ReturnSettlesEach == Spec => SettlesEach
<1> DEFINE Inv == \A h \in Holders : ReturnOK(h)
<1>1. TypeOK /\ TypeOK' /\ AccountInv /\ Inv /\ [Next]_vars => Inv'
  BY NextReturn
<1>2. Init => Inv
  BY DEF Init, ReturnOK
<1>3. TypeOK /\ Inv /\ [Next]_vars =>
        [\A h \in Holders : settle'[h] # settle[h] =>
           \A i \in DOMAIN settle[h] :
             settle[h][i] \in Range(settle'[h]) \/ Requested(settle[h][i])]_vars
  <2> SUFFICES ASSUME TypeOK, Inv, [Next]_vars, NEW h \in Holders,
                      settle'[h] # settle[h], NEW i \in DOMAIN settle[h]
               PROVE  settle[h][i] \in Range(settle'[h]) \/ Requested(settle[h][i])
    OBVIOUS
  <2>0. settle[h] \in Seq(LeaseChunk) /\ DOMAIN settle = Holders /\ ReturnOK(h)
    BY DEF TypeOK, FlagTypeOK
  <2>1. ReturnTake(h) \/ ReturnNext(h)
    BY OnlyReturnSettles
  <2>2. settle[h] # << >>
    BY <2>0
  <2>3. phase[h] = "await" /\ settle'[h] = Tail(settle[h])
    BY <2>0, <2>1, <2>2 DEF ReturnTake, ReturnNext, ReturnOK
  <2>4. CASE i = 1
    BY <2>0, <2>3, <2>4 DEF ReturnOK
  <2>5. CASE i # 1
    <3>1. i - 1 \in DOMAIN Tail(settle[h]) /\ Tail(settle[h])[i - 1] = settle[h][i]
      BY <2>0, <2>2, <2>5
    <3> QED
      BY <2>3, <3>1 DEF Range
  <2> QED
    BY <2>4, <2>5
<1> QED
  BY <1>1, <1>2, <1>3, TypeCorrect, AccountInvariant, PTL DEF Spec, SettlesEach

=============================================================================
