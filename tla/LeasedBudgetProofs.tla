------------------------ MODULE LeasedBudgetProofs -------------------------
(***************************************************************************)
(* Theorems about LeasedBudget, for every value of its constants.          *)
(*                                                                         *)
(* The proof that an invariant is preserved has one step per action.       *)
(* Total, the sum over leases, is never expanded here: EscrowProofs proves *)
(* what is said of sums.                                                   *)
(***************************************************************************)
EXTENDS LeasedBudget, TLAPS

-----------------------------------------------------------------------------
(* Updates of one spender, one refill, one cell *)

LEMMA SpenderUpdate ==
    ASSUME SpenderTypeOK, NEW h \in Holders, NEW t \in Spenders,
           NEW pc \in {"idle", "lock", "trigger", "cas"},
           SpenderGoesTo(h, t, pc)
    PROVE  SpenderTypeOK'
BY DEF SpenderTypeOK, SpenderGoesTo

LEMMA RefillUpdate ==
    ASSUME RefillTypeOK, NEW h \in Holders, NEW w \in Slots, NEW r \in Refill,
           RefillBecomes(h, w, r)
    PROVE  RefillTypeOK'
BY DEF RefillTypeOK, RefillBecomes

LEMMA IdleRefillType == {IdleRefill, BegunRefill, EndedRefill} \subseteq Refill
BY PoolAssumption, CacheAssumption
   DEF IdleRefill, BegunRefill, EndedRefill, Refill, Row, NoRow

\* promoteLocked leaves each buffer nil or one of the chunks it was given.
LEMMA PromotedChunks ==
    ASSUME NEW c, NEW x
    PROVE  /\ PromotedCur(c, x) \in {c, x, NoChunk}
           /\ PromotedNext(c, x) \in {x, NoChunk}
BY DEF PromotedCur, PromotedNext, Kept

\* What a Spend serves from is a chunk of the cell with the units to spare.
LEMMA ServedChunk ==
    ASSUME CellTypeOK, NEW h \in Holders, NEW n \in SpendSizes, CanServe(h, n)
    PROVE  LET c == PromotedCur(cur[h], nxt[h]) IN
           /\ c \in LeaseChunk
           /\ c \in {cur[h], nxt[h]}
           /\ c # NoChunk
           /\ n \in Nat
           /\ c.remaining - n \in Nat
<1> DEFINE c == PromotedCur(cur[h], nxt[h])
<1>1. c # NoChunk /\ c.remaining >= n
  BY DEF CanServe
<1>2. c \in {cur[h], nxt[h]}
  BY <1>1, PromotedChunks
<1>3. c \in LeaseChunk
  BY <1>1, <1>2 DEF CellTypeOK
<1>4. c.remaining \in Nat
  BY <1>3 DEF LeaseChunk
<1>5. n \in Nat
  BY CacheAssumption
<1> QED
  BY <1>1, <1>2, <1>3, <1>4, <1>5

-----------------------------------------------------------------------------
(* Type correctness *)

LEMMA InitTypeOK == Init => TypeOK
BY PoolAssumption, CacheAssumption
   DEF Init, PoolInit, TypeOK, PoolTypeOK, CellTypeOK, FlagTypeOK,
       SpenderTypeOK, RefillTypeOK, IdleRefill, NoRow, Refill, Row

LEMMA ChunkServes ==
    ASSUME NEW c \in LeaseChunk, NEW n \in Nat, c.remaining - n \in Nat
    PROVE  [c EXCEPT !.remaining = @ - n, !.spent = @ + n] \in LeaseChunk
<1> DEFINE left == c.remaining - n
           total == c.spent + n
<1>1. left \in Nat /\ total \in Nat
  BY DEF LeaseChunk
<1> HIDE DEF left, total
<1>2. [c EXCEPT !.remaining = left, !.spent = total] \in LeaseChunk
  BY <1>1 DEF LeaseChunk
<1> QED
  BY <1>2 DEF left, total

LEMMA DrawType ==
    ASSUME NEW h \in Holders, NEW k \in 0..MaxNonce
    PROVE  DrawRequest(makeLeaseID(h, k)) \in Request
BY CacheAssumption DEF DrawRequest, makeLeaseID, Request, LeaseIds

LEMMA RedrawType ==
    ASSUME TypeOK, NEW h \in Holders, NEW w \in Slots, Redraw(h, w)
    PROVE  RefillTypeOK' /\ (net \subseteq Request)'
<1> DEFINE r == refill[h][w]
           s == [r EXCEPT !.pc = "drawing", !.nonce = @ + 1, !.attempt = @ + 1,
                          !.row = NoRow]
<1>1. r \in Refill
  BY DEF TypeOK, RefillTypeOK
<1>2. CASE r.attempt + 1 < MaxAttempts /\ r.nonce < MaxNonce
  <2>1. r.nonce + 1 \in 0..MaxNonce /\ r.attempt + 1 \in 0..MaxAttempts
    BY <1>1, <1>2, PoolAssumption, CacheAssumption DEF Refill
  <2>2. s \in Refill
    BY <1>1, <2>1 DEF Refill, NoRow, Row
  <2>3. RefillTypeOK'
    BY <1>2, <2>2, RefillUpdate DEF Redraw, TypeOK
  <2> QED
    BY <1>2, <2>1, <2>3, DrawType DEF Redraw, TypeOK
<1>3. CASE ~(r.attempt + 1 < MaxAttempts /\ r.nonce < MaxNonce)
  BY <1>3, IdleRefillType, RefillUpdate DEF Redraw, TypeOK
<1> QED
  BY <1>2, <1>3

LEMMA HeldType ==
    ASSUME CellTypeOK, NEW h \in Holders
    PROVE  Held(h) \in Seq(LeaseChunk)
<1>1. cur[h] # NoChunk => cur[h] \in LeaseChunk
  BY DEF CellTypeOK
<1>2. nxt[h] # NoChunk => nxt[h] \in LeaseChunk
  BY DEF CellTypeOK
<1> QED
  BY <1>1, <1>2 DEF Held

LEMMA DrawAnsweredType ==
    ASSUME RefillTypeOK, PoolTypeOK', NEW m \in Request, ServerDraw(m)
    PROVE  RefillTypeOK'
<1> DEFINE row == lease'[m.id]
           Answered(h, w) ==
               LET r == refill[h][w] IN
               IF r.pc = "drawing" /\ makeLeaseID(h, r.nonce) = m.id
               THEN [r EXCEPT !.pc = "replied", !.row = row]
               ELSE r
<1>1. row \in Row
  BY DEF PoolTypeOK, Request
<1>2. refill' = [h \in Holders |-> [w \in Slots |-> Answered(h, w)]]
  BY DEF ServerDraw
<1> HIDE DEF row
<1>3. ASSUME NEW h \in Holders, NEW w \in Slots PROVE Answered(h, w) \in Refill
  <2>1. refill[h][w] \in Refill
    BY DEF RefillTypeOK
  <2> QED
    BY <1>1, <2>1 DEF Refill
<1> HIDE DEF Answered
<1> QED
  BY <1>2, <1>3 DEF RefillTypeOK

LEMMA ReportAnsweredType ==
    ASSUME RefillTypeOK, NEW m \in Request, ServerReport(m)
    PROVE  RefillTypeOK'
<1> DEFINE Answered(h, w) ==
               LET r == refill[h][w] IN
               IF /\ r.pc = "reporting"
                  /\ r.rep = [id |-> m.id, spent |-> m.units]
                  /\ IsLive(m.id)
               THEN [r EXCEPT !.pc = "reported"]
               ELSE r
<1>1. refill' = [h \in Holders |-> [w \in Slots |-> Answered(h, w)]]
  BY DEF ServerReport
<1>2. ASSUME NEW h \in Holders, NEW w \in Slots PROVE Answered(h, w) \in Refill
  <2>1. refill[h][w] \in Refill
    BY DEF RefillTypeOK
  <2> QED
    BY <2>1 DEF Refill
<1> HIDE DEF Answered
<1> QED
  BY <1>1, <1>2 DEF RefillTypeOK

LEMMA TailType ==
    ASSUME NEW S, NEW q \in Seq(S), q # << >>
    PROVE  Tail(q) \in Seq(S)
OBVIOUS

LEMMA GrantType ==
    ASSUME PoolTypeOK, NEW id \in LeaseIds, NEW units \in Nat,
           BudgetGrant(id, units), UNCHANGED now
    PROVE  PoolTypeOK'
<1>1. Least(units, available) \in Int
  BY DEF PoolTypeOK, Least
<1> QED
  BY <1>1 DEF BudgetGrant, PoolTypeOK, Row, poolVars

LEMMA FoldedType ==
    ASSUME NEW row \in Row, NEW units \in Nat
    PROVE  Folded(row, units) \in Nat
BY DEF Folded, Largest, Least, Row

LEMMA ReportType ==
    ASSUME PoolTypeOK, NEW id \in LeaseIds, NEW units \in Nat,
           BudgetReport(id, units), UNCHANGED now
    PROVE  PoolTypeOK'
<1>1. lease[id] \in Row /\ Folded(lease[id], units) \in Nat
  BY FoldedType DEF PoolTypeOK
<1> QED
  BY <1>1 DEF BudgetReport, PoolTypeOK, Row, poolVars

LEMMA ReturnType ==
    ASSUME PoolTypeOK, NEW id \in LeaseIds, NEW units \in Nat,
           BudgetReturn(id, units), UNCHANGED now
    PROVE  PoolTypeOK'
<1>1. lease[id] \in Row /\ Folded(lease[id], units) \in Nat
  BY FoldedType DEF PoolTypeOK
<1> QED
  BY <1>1 DEF BudgetReturn, PoolTypeOK, Row, poolVars

LEMMA NextTypeOK == TypeOK /\ [Next]_vars => TypeOK'
<1> SUFFICES ASSUME TypeOK, [Next]_vars PROVE TypeOK'
  OBVIOUS
<1>1. ASSUME NEW h \in Holders, NEW t \in Spenders, SpendBegin(h, t)
      PROVE  TypeOK'
  <2>1. SpenderTypeOK'
    BY <1>1, SpenderUpdate DEF SpendBegin, TypeOK
  <2> QED
    BY <1>1, <2>1
       DEF SpendBegin, TypeOK, PoolTypeOK, poolVars, CellTypeOK, cellVars, FlagTypeOK, flagVars, RefillTypeOK
<1>2. ASSUME NEW h \in Holders, NEW t \in Spenders, SelfFence(h, t)
      PROVE  TypeOK'
  <2>1. SpenderTypeOK'
    BY <1>2, SpenderUpdate DEF SelfFence, TypeOK
  <2>2. CellTypeOK'
    BY <1>2, PoolAssumption DEF SelfFence, TypeOK, CellTypeOK, PoolTypeOK, nowMono
  <2> QED
    BY <1>2, <2>1, <2>2
       DEF SelfFence, TypeOK, PoolTypeOK, poolVars, FlagTypeOK, flagVars, RefillTypeOK
<1>3. ASSUME NEW h \in Holders, NEW t \in Spenders, PaceOut(h, t)
      PROVE  TypeOK'
  <2>1. SpenderTypeOK'
    BY <1>3, SpenderUpdate DEF PaceOut, TypeOK
  <2> QED
    BY <1>3, <2>1
       DEF PaceOut, TypeOK, PoolTypeOK, poolVars, CellTypeOK, cellVars, FlagTypeOK, flagVars, RefillTypeOK
<1>4. ASSUME NEW h \in Holders, NEW t \in Spenders, NEW n \in SpendSizes,
             SpendCached(h, t, n)
      PROVE  TypeOK'
  <2> DEFINE c == PromotedCur(cur[h], nxt[h])
             x == PromotedNext(cur[h], nxt[h])
  <2>1. c \in LeaseChunk /\ n \in Nat /\ c.remaining - n \in Nat
    BY <1>4, ServedChunk DEF SpendCached, TypeOK
  <2>2. [c EXCEPT !.remaining = @ - n, !.spent = @ + n] \in LeaseChunk
    BY <2>1, ChunkServes
  <2>3. CellTypeOK'
    BY <1>4, <2>2, PromotedChunks DEF SpendCached, TypeOK, CellTypeOK, PoolTypeOK, nowMono
  <2>4. SpenderTypeOK'
    BY <1>4, SpenderUpdate DEF SpendCached, TypeOK
  <2>5. (served \in [LeaseIds -> Nat])'
    BY <1>4, <2>1 DEF SpendCached, TypeOK, LeaseChunk
  <2> QED
    BY <1>4, <2>3, <2>4, <2>5
       DEF SpendCached, TypeOK, PoolTypeOK, poolVars, FlagTypeOK, flagVars, RefillTypeOK
<1>5. ASSUME NEW h \in Holders, NEW t \in Spenders, NEW n \in SpendSizes,
             SpendRefused(h, t, n)
      PROVE  TypeOK'
  <2>1. SpenderTypeOK'
    BY <1>5, SpenderUpdate DEF SpendRefused, TypeOK
  <2>2. CellTypeOK'
    BY <1>5, PromotedChunks DEF SpendRefused, TypeOK, CellTypeOK
  <2> QED
    BY <1>5, <2>1, <2>2
       DEF SpendRefused, TypeOK, PoolTypeOK, poolVars, FlagTypeOK, flagVars, RefillTypeOK
<1>6. ASSUME NEW h \in Holders, NEW t \in Spenders, TriggerCheck(h, t)
      PROVE  TypeOK'
  <2>1. SpenderTypeOK'
    BY <1>6, SpenderUpdate DEF TriggerCheck, TypeOK
  <2> QED
    BY <1>6, <2>1
       DEF TriggerCheck, TypeOK, PoolTypeOK, poolVars, CellTypeOK, cellVars, FlagTypeOK, flagVars, RefillTypeOK
<1>7. ASSUME NEW h \in Holders, NEW t \in Spenders, AlreadyRefilling(h, t)
      PROVE  TypeOK'
  <2>1. SpenderTypeOK'
    BY <1>7, SpenderUpdate DEF AlreadyRefilling, TypeOK
  <2> QED
    BY <1>7, <2>1
       DEF AlreadyRefilling, TypeOK, PoolTypeOK, poolVars, CellTypeOK, cellVars, FlagTypeOK, flagVars, RefillTypeOK
<1>8. ASSUME NEW h \in Holders, NEW t \in Spenders, NEW w \in Slots,
             StartRefill(h, t, w)
      PROVE  TypeOK'
  <2>1. FlagTypeOK'
    BY <1>8 DEF StartRefill, TypeOK, FlagTypeOK
  <2>2. SpenderTypeOK'
    BY <1>8, SpenderUpdate DEF StartRefill, TypeOK
  <2>3. RefillTypeOK'
    BY <1>8, IdleRefillType, RefillUpdate DEF StartRefill, TypeOK
  <2> QED
    BY <1>8, <2>1, <2>2, <2>3
       DEF StartRefill, TypeOK, PoolTypeOK, poolVars, CellTypeOK, cellVars
<1>9. ASSUME NEW h \in Holders, NEW w \in Slots, Acquire(h, w)
      PROVE  TypeOK'
  <2>1. FlagTypeOK'
    BY <1>9 DEF Acquire, TypeOK, FlagTypeOK
  <2>2. RefillTypeOK'
    BY <1>9, IdleRefillType, RefillUpdate DEF Acquire, TypeOK
  <2> QED
    BY <1>9, <2>1, <2>2
       DEF Acquire, TypeOK, PoolTypeOK, poolVars, CellTypeOK, cellVars, SpenderTypeOK
<1>10. ASSUME NEW h \in Holders, NEW w \in Slots, RefillNotNeeded(h, w)
      PROVE  TypeOK'
  <2>1. RefillTypeOK'
    BY <1>10, IdleRefillType, RefillUpdate DEF RefillNotNeeded, TypeOK
  <2> QED
    BY <1>10, <2>1
       DEF RefillNotNeeded, TypeOK, PoolTypeOK, poolVars, CellTypeOK, cellVars, FlagTypeOK, flagVars, SpenderTypeOK
<1>11. ASSUME NEW h \in Holders, NEW w \in Slots, RefillAttest(h, w)
      PROVE  TypeOK'
  <2>1. cur[h] \in LeaseChunk /\ nonce[h] \in 0..MaxNonce
    BY <1>11, PoolAssumption DEF RefillAttest, TypeOK, CellTypeOK
  <2> DEFINE s == [refill[h][w] EXCEPT !.pc = "reporting",
                            !.nonce = nonce[h],
                            !.rep = [id |-> cur[h].id, spent |-> cur[h].spent]]
  <2>2. refill[h][w] \in Refill
    BY DEF TypeOK, RefillTypeOK
  <2>3. s \in Refill
    BY <2>2, <2>1 DEF Refill, LeaseChunk
  <2>4. RefillTypeOK'
    BY <1>11, <2>3, RefillUpdate DEF RefillAttest, TypeOK
  <2>5. (net \subseteq Request)'
    BY <1>11, <2>1 DEF RefillAttest, TypeOK, LeaseChunk, Request, ReportRequest
  <2> QED
    BY <1>11, <2>4, <2>5
       DEF RefillAttest, TypeOK, PoolTypeOK, poolVars, CellTypeOK, cellVars, FlagTypeOK, flagVars, SpenderTypeOK
<1>12. ASSUME NEW h \in Holders, NEW w \in Slots, RefillDraw(h, w)
      PROVE  TypeOK'
  <2>1. nonce[h] \in 0..MaxNonce
    BY <1>12, PoolAssumption DEF RefillDraw, TypeOK, CellTypeOK
  <2> DEFINE s == [refill[h][w] EXCEPT !.pc = "drawing", !.nonce = nonce[h]]
  <2>2. refill[h][w] \in Refill
    BY DEF TypeOK, RefillTypeOK
  <2>3. s \in Refill
    BY <2>2, <2>1 DEF Refill
  <2>4. RefillTypeOK'
    BY <1>12, <2>3, RefillUpdate DEF RefillDraw, TypeOK
  <2>5. (net \subseteq Request)'
    BY <1>12, <2>1, DrawType DEF RefillDraw, TypeOK
  <2> QED
    BY <1>12, <2>4, <2>5
       DEF RefillDraw, TypeOK, PoolTypeOK, poolVars, CellTypeOK, cellVars, FlagTypeOK, flagVars, SpenderTypeOK
<1>13. ASSUME NEW h \in Holders, NEW w \in Slots, RefillReported(h, w)
      PROVE  TypeOK'
  <2>1. refill[h][w].nonce \in 0..MaxNonce /\ refill[h][w].rep.spent \in Nat
    BY DEF TypeOK, RefillTypeOK, Refill
  <2>2. CellTypeOK'
    BY <1>13, <2>1 DEF RefillReported, TypeOK, CellTypeOK, LeaseChunk
  <2> DEFINE s == [refill[h][w] EXCEPT !.pc = "drawing", !.rep = IdleRefill.rep]
  <2>3. refill[h][w] \in Refill
    BY DEF TypeOK, RefillTypeOK
  <2>4. s \in Refill
    BY <2>3 DEF Refill, IdleRefill, TypeOK
  <2>5. RefillTypeOK'
    BY <1>13, <2>4, RefillUpdate DEF RefillReported, TypeOK
  <2>6. (net \subseteq Request)'
    BY <1>13, <2>1, DrawType DEF RefillReported, TypeOK
  <2> QED
    BY <1>13, <2>2, <2>5, <2>6
       DEF RefillReported, TypeOK, PoolTypeOK, poolVars, FlagTypeOK, flagVars, SpenderTypeOK
<1>14. ASSUME NEW h \in Holders, NEW w \in Slots, ReportFailed(h, w)
      PROVE  TypeOK'
  <2>1. refill[h][w].nonce \in 0..MaxNonce
    BY DEF TypeOK, RefillTypeOK, Refill
  <2> DEFINE s == [refill[h][w] EXCEPT !.pc = "drawing", !.rep = IdleRefill.rep]
  <2>2. refill[h][w] \in Refill
    BY DEF TypeOK, RefillTypeOK
  <2>3. s \in Refill
    BY <2>2 DEF Refill, IdleRefill, TypeOK
  <2>4. RefillTypeOK'
    BY <1>14, <2>3, RefillUpdate DEF ReportFailed, TypeOK
  <2>5. (net \subseteq Request)'
    BY <1>14, <2>1, DrawType DEF ReportFailed, TypeOK
  <2> QED
    BY <1>14, <2>4, <2>5
       DEF ReportFailed, TypeOK, PoolTypeOK, poolVars, CellTypeOK, cellVars, FlagTypeOK, flagVars, SpenderTypeOK
<1>15. ASSUME NEW h \in Holders, NEW w \in Slots, RefillSettled(h, w)
      PROVE  TypeOK'
  <2>1. RefillTypeOK' /\ (net \subseteq Request)'
    BY <1>15, RedrawType DEF RefillSettled
  <2> QED
    BY <1>15, <2>1
       DEF RefillSettled, TypeOK, PoolTypeOK, poolVars, CellTypeOK, cellVars, FlagTypeOK, flagVars, SpenderTypeOK
<1>16. ASSUME NEW h \in Holders, NEW w \in Slots, RefillStale(h, w)
      PROVE  TypeOK'
  <2>1. RefillTypeOK' /\ (net \subseteq Request)'
    BY <1>16, RedrawType DEF RefillStale
  <2> QED
    BY <1>16, <2>1
       DEF RefillStale, TypeOK, PoolTypeOK, poolVars, CellTypeOK, cellVars, FlagTypeOK, flagVars, SpenderTypeOK
<1>17. ASSUME NEW h \in Holders, NEW w \in Slots, RefillGivesUp(h, w)
      PROVE  TypeOK'
  <2>1. RefillTypeOK'
    BY <1>17, IdleRefillType, RefillUpdate DEF RefillGivesUp, TypeOK
  <2> QED
    BY <1>17, <2>1
       DEF RefillGivesUp, TypeOK, PoolTypeOK, poolVars, CellTypeOK, cellVars, FlagTypeOK, flagVars, SpenderTypeOK
<1>18. ASSUME NEW h \in Holders, NEW w \in Slots, RefillFresh(h, w)
      PROVE  TypeOK'
  <2> DEFINE s == [refill[h][w] EXCEPT !.pc = "gated", !.gatedAt = now]
  <2>1. refill[h][w] \in Refill
    BY DEF TypeOK, RefillTypeOK
  <2>2. s \in Refill
    BY <2>1 DEF Refill, TypeOK, PoolTypeOK
  <2>3. RefillTypeOK'
    BY <1>18, <2>2, RefillUpdate DEF RefillFresh, TypeOK
  <2> QED
    BY <1>18, <2>3
       DEF RefillFresh, TypeOK, PoolTypeOK, poolVars, CellTypeOK, cellVars, FlagTypeOK, flagVars, SpenderTypeOK
<1>19. ASSUME NEW h \in Holders, NEW w \in Slots, RefillInstall(h, w)
      PROVE  TypeOK'
  <2> DEFINE r == refill[h][w]
             x == Installed(makeLeaseID(h, r.nonce), r.row)
  <2>1. r.nonce \in 0..MaxNonce /\ r.row.amount \in Nat
    BY DEF TypeOK, RefillTypeOK, Refill, Row
  <2>2. x \in LeaseChunk
    BY <2>1, PoolAssumption, CacheAssumption
       DEF Installed, LeaseChunk, makeLeaseID, LeaseIds, nowMono, MaxMonoDeadline,
           TypeOK, PoolTypeOK
  <2>3. CellTypeOK'
    BY <1>19, <2>1, <2>2, PromotedChunks, PoolAssumption
       DEF RefillInstall, TypeOK, CellTypeOK, PoolTypeOK, nowMono, NextNonce
  <2>4. RefillTypeOK'
    BY <1>19, IdleRefillType, RefillUpdate DEF RefillInstall, TypeOK
  <2> QED
    BY <1>19, <2>3, <2>4
       DEF RefillInstall, TypeOK, PoolTypeOK, poolVars, FlagTypeOK, flagVars, SpenderTypeOK
<1>20. ASSUME NEW h \in Holders, NEW w \in Slots, RefillDone(h, w)
      PROVE  TypeOK'
  <2>1. FlagTypeOK'
    BY <1>20 DEF RefillDone, TypeOK, FlagTypeOK
  <2>2. RefillTypeOK'
    BY <1>20, IdleRefillType, RefillUpdate DEF RefillDone, TypeOK
  <2> QED
    BY <1>20, <2>1, <2>2
       DEF RefillDone, TypeOK, PoolTypeOK, poolVars, CellTypeOK, cellVars, SpenderTypeOK
<1>21. ASSUME NEW h \in Holders, ReturnBegin(h)
      PROVE  TypeOK'
  <2>1. FlagTypeOK'
    BY <1>21 DEF ReturnBegin, TypeOK, FlagTypeOK
  <2> QED
    BY <1>21, <2>1
       DEF ReturnBegin, TypeOK, procVars, PoolTypeOK, poolVars, CellTypeOK, cellVars, SpenderTypeOK, RefillTypeOK
<1>22. ASSUME NEW h \in Holders, ReturnTake(h)
      PROVE  TypeOK'
  <2>1. Held(h) \in Seq(LeaseChunk)
    BY HeldType DEF TypeOK
  <2>2. CellTypeOK'
    BY <1>22 DEF ReturnTake, TypeOK, CellTypeOK
  <2>3. FlagTypeOK'
    BY <1>22, <2>1 DEF ReturnTake, TypeOK, FlagTypeOK
  <2> QED
    BY <1>22, <2>2, <2>3
       DEF ReturnTake, TypeOK, procVars, PoolTypeOK, poolVars, SpenderTypeOK, RefillTypeOK
<1>23. ASSUME NEW h \in Holders, ReturnCall(h)
      PROVE  TypeOK'
  <2>1. Head(settle[h]) \in LeaseChunk
    BY <1>23 DEF ReturnCall, TypeOK, FlagTypeOK
  <2>2. FlagTypeOK'
    BY <1>23 DEF ReturnCall, TypeOK, FlagTypeOK
  <2>3. (net \subseteq Request)'
    BY <1>23, <2>1 DEF ReturnCall, TypeOK, LeaseChunk, Request, ReturnRequest, FinalSpend
  <2> QED
    BY <1>23, <2>2, <2>3
       DEF ReturnCall, TypeOK, procVars, PoolTypeOK, poolVars, CellTypeOK, cellVars, SpenderTypeOK, RefillTypeOK
<1>24. ASSUME NEW h \in Holders, ReturnNext(h)
      PROVE  TypeOK'
  <2>1. settle[h] \in Seq(LeaseChunk)
    BY DEF TypeOK, FlagTypeOK
  <2>2. FlagTypeOK'
    BY <1>24, <2>1, TailType DEF ReturnNext, TypeOK, FlagTypeOK
  <2> QED
    BY <1>24, <2>2
       DEF ReturnNext, TypeOK, procVars, PoolTypeOK, poolVars, CellTypeOK, cellVars, SpenderTypeOK, RefillTypeOK
<1>25. ASSUME NEW h \in Holders, ReturnEnd(h)
      PROVE  TypeOK'
  <2>1. FlagTypeOK'
    BY <1>25 DEF ReturnEnd, TypeOK, FlagTypeOK
  <2> QED
    BY <1>25, <2>1
       DEF ReturnEnd, TypeOK, procVars, PoolTypeOK, poolVars, CellTypeOK, cellVars, SpenderTypeOK, RefillTypeOK
<1>26. ASSUME NEW m \in net, ServerDraw(m)
      PROVE  TypeOK'
  <2>1. m \in Request
    BY DEF TypeOK
  <2>2. PoolTypeOK'
    BY <1>26, <2>1, GrantType DEF ServerDraw, TypeOK, Request
  <2>3. RefillTypeOK'
    BY <1>26, <2>1, <2>2, DrawAnsweredType DEF TypeOK
  <2>4. (net \subseteq Request)'
    BY <1>26 DEF ServerDraw, TypeOK
  <2> QED
    BY <1>26, <2>2, <2>3, <2>4
       DEF ServerDraw, TypeOK, CellTypeOK, cellVars, FlagTypeOK, flagVars, SpenderTypeOK
<1>27. ASSUME NEW m \in net, ServerReport(m)
      PROVE  TypeOK'
  <2>1. m \in Request
    BY DEF TypeOK
  <2>2. PoolTypeOK'
    BY <1>27, <2>1, ReportType DEF ServerReport, TypeOK, Request
  <2>3. RefillTypeOK'
    BY <1>27, <2>1, ReportAnsweredType DEF TypeOK
  <2>4. (net \subseteq Request)'
    BY <1>27 DEF ServerReport, TypeOK
  <2> QED
    BY <1>27, <2>2, <2>3, <2>4
       DEF ServerReport, TypeOK, CellTypeOK, cellVars, FlagTypeOK, flagVars, SpenderTypeOK
<1>28. ASSUME NEW m \in net, ServerReturn(m)
      PROVE  TypeOK'
  <2>1. m \in Request
    BY DEF TypeOK
  <2>2. PoolTypeOK'
    BY <1>28, <2>1, ReturnType DEF ServerReturn, TypeOK, Request
  <2>3. (net \subseteq Request)'
    BY <1>28 DEF ServerReturn, TypeOK
  <2> QED
    BY <1>28, <2>2, <2>3
       DEF ServerReturn, TypeOK, procVars, CellTypeOK, cellVars, FlagTypeOK, flagVars, SpenderTypeOK, RefillTypeOK
<1>29. ASSUME NEW id \in LeaseIds, Reclaim(id)
      PROVE  TypeOK'
  <2>1. PoolTypeOK'
    BY <1>29 DEF Reclaim, Expire, TypeOK, PoolTypeOK, Row, IsLive
  <2> QED
    BY <1>29, <2>1
       DEF Reclaim, TypeOK, procVars, CellTypeOK, cellVars, FlagTypeOK, flagVars, SpenderTypeOK, RefillTypeOK
<1>30. ASSUME NEW acked \in 0..Cap, ControllerReconcile(acked)
      PROVE  TypeOK'
  <2>1. PoolTypeOK'
    BY <1>30 DEF ControllerReconcile, TypeOK, PoolTypeOK, poolVars
  <2>2. [acked |-> acked, asOf |-> Settled] \in ReconcileCall
    BY DEF ReconcileCall, Settled, TypeOK, PoolTypeOK, Row
  <2>3. calls' \subseteq ReconcileCall
    BY <1>30, <2>2 DEF ControllerReconcile, TypeOK
  <2> QED
    BY <1>30, <2>1, <2>3
       DEF ControllerReconcile, TypeOK, procVars, CellTypeOK, cellVars, FlagTypeOK, flagVars, SpenderTypeOK, RefillTypeOK
<1>33. ASSUME NEW c \in calls, ServerReconcile(c)
      PROVE  TypeOK'
  <2>1. PoolTypeOK'
    BY <1>33, PoolAssumption DEF ServerReconcile, Reconcile, Largest, TypeOK, PoolTypeOK
  <2>2. calls' \subseteq ReconcileCall
    BY <1>33 DEF ServerReconcile, TypeOK
  <2> QED
    BY <1>33, <2>1, <2>2
       DEF ServerReconcile, TypeOK, procVars, CellTypeOK, cellVars, FlagTypeOK, flagVars, SpenderTypeOK, RefillTypeOK
<1>31. ASSUME Tick
      PROVE  TypeOK'
  <2>1. PoolTypeOK'
    BY <1>31 DEF Tick, TypeOK, PoolTypeOK, poolVars
  <2> QED
    BY <1>31, <2>1
       DEF Tick, TypeOK, procVars, CellTypeOK, cellVars, FlagTypeOK, flagVars, SpenderTypeOK, RefillTypeOK
<1>32. CASE UNCHANGED vars
  BY <1>32 DEF vars, TypeOK, PoolTypeOK, CellTypeOK, FlagTypeOK, SpenderTypeOK,
           RefillTypeOK, poolVars, cellVars, flagVars, procVars
<1> QED
  BY <1>1, <1>2, <1>3, <1>4, <1>5, <1>6, <1>7, <1>8, <1>9, <1>10, <1>11, <1>12, <1>13, <1>14, <1>15, <1>16, <1>17, <1>18, <1>19, <1>20, <1>21, <1>22, <1>23, <1>24, <1>25, <1>26, <1>27, <1>28, <1>29, <1>30, <1>31, <1>32, <1>33
     DEF Next, SpendStep, RefillStep, ReturnStep

\* Type correctness of every state.
THEOREM TypeCorrect == Spec => []TypeOK
BY InitTypeOK, NextTypeOK, PTL DEF Spec

-----------------------------------------------------------------------------
(* Single flight *)

LEMMA SpenderAt ==
    ASSUME SpenderTypeOK, NEW h \in Holders, NEW t \in Spenders, NEW pc,
           SpenderGoesTo(h, t, pc)
    PROVE  \A g \in Holders, u \in Spenders :
             spender'[g][u] = IF g = h /\ u = t THEN pc ELSE spender[g][u]
BY DEF SpenderTypeOK, SpenderGoesTo

LEMMA RefillAt ==
    ASSUME RefillTypeOK, NEW h \in Holders, NEW w \in Slots, NEW r,
           RefillBecomes(h, w, r)
    PROVE  \A g \in Holders, v \in Slots :
             refill'[g][v] = IF g = h /\ v = w THEN r ELSE refill[g][v]
BY DEF RefillTypeOK, RefillBecomes

\* The refills of a holder in flight, and those past their snapshot, in terms of
\* one slot.
InFlight(h, w) == refill[h][w].pc # "idle"
Committed(h, w) == refill[h][w].pc \notin {"idle", "begin", "done"}

\* At most one refill of a holder is in flight.  Before Acquire returns the
\* single-flight flag is down and no Spend is under way; afterwards a refill in
\* flight has raised the flag.  While one is past its snapshot the buffer it
\* will install into is empty.
FlightOK(h) ==
    /\ \A v, w \in Slots : InFlight(h, v) /\ InFlight(h, w) => v = w
    /\ phase[h] \in {"new", "acquiring"} =>
         ~refilling[h] /\ \A t \in Spenders : spender[h][t] = "idle"
    /\ phase[h] = "new" => \A w \in Slots : ~InFlight(h, w)
    /\ \A w \in Slots : InFlight(h, w) =>
         phase[h] \in {"new", "acquiring"} \/ refilling[h]
    /\ \A w \in Slots : Committed(h, w) => nxt[h] = NoChunk

FlightInv == \A h \in Holders : FlightOK(h)

LEMMA InitFlight == Init => FlightInv
BY DEF Init, FlightInv, FlightOK, InFlight, Committed, IdleRefill

\* A request the server answers starts and ends no refill.
LEMMA AnswerKeepsFlight ==
    ASSUME RefillTypeOK, NEW m \in net, ServerDraw(m) \/ ServerReport(m)
    PROVE  \A h \in Holders, w \in Slots :
             /\ InFlight(h, w)' <=> InFlight(h, w)
             /\ Committed(h, w)' <=> Committed(h, w)
<1> SUFFICES ASSUME NEW h \in Holders, NEW w \in Slots
             PROVE  /\ InFlight(h, w)' <=> InFlight(h, w)
                    /\ Committed(h, w)' <=> Committed(h, w)
  OBVIOUS
<1>1. refill[h][w] \in Refill
  BY DEF RefillTypeOK
<1>2. CASE ServerDraw(m)
  BY <1>1, <1>2 DEF ServerDraw, InFlight, Committed, Refill
<1>3. CASE ServerReport(m)
  BY <1>1, <1>3 DEF ServerReport, InFlight, Committed, Refill
<1> QED
  BY <1>2, <1>3

LEMMA NextFlight == TypeOK /\ FlightInv /\ [Next]_vars => FlightInv'
<1> SUFFICES ASSUME TypeOK, FlightInv, [Next]_vars, NEW g \in Holders
             PROVE  FlightOK(g)'
  BY DEF FlightInv
<1>0. FlightOK(g)
  BY DEF FlightInv
<1> USE DEF FlightOK, InFlight, Committed
<1>1. ASSUME NEW h \in Holders, NEW t \in Spenders, SpendBegin(h, t)
      PROVE  FlightOK(g)'
  BY <1>0, <1>1, SpenderAt
     DEF SpendBegin, TypeOK, cellVars, flagVars
<1>2. ASSUME NEW h \in Holders, NEW t \in Spenders, SelfFence(h, t)
      PROVE  FlightOK(g)'
  BY <1>0, <1>2, SpenderAt
     DEF SelfFence, TypeOK, CellTypeOK, flagVars
<1>3. ASSUME NEW h \in Holders, NEW t \in Spenders, PaceOut(h, t)
      PROVE  FlightOK(g)'
  BY <1>0, <1>3, SpenderAt
     DEF PaceOut, TypeOK, cellVars, flagVars
<1>4. ASSUME NEW h \in Holders, NEW t \in Spenders, NEW n \in SpendSizes,
             SpendCached(h, t, n)
      PROVE  FlightOK(g)'
  BY <1>0, <1>4, SpenderAt, PromotedChunks
     DEF SpendCached, TypeOK, CellTypeOK, flagVars
<1>5. ASSUME NEW h \in Holders, NEW t \in Spenders, NEW n \in SpendSizes,
             SpendRefused(h, t, n)
      PROVE  FlightOK(g)'
  BY <1>0, <1>5, SpenderAt, PromotedChunks
     DEF SpendRefused, TypeOK, CellTypeOK, flagVars
<1>6. ASSUME NEW h \in Holders, NEW t \in Spenders, TriggerCheck(h, t)
      PROVE  FlightOK(g)'
  BY <1>0, <1>6, SpenderAt
     DEF TriggerCheck, TypeOK, cellVars, flagVars
<1>7. ASSUME NEW h \in Holders, NEW t \in Spenders, AlreadyRefilling(h, t)
      PROVE  FlightOK(g)'
  BY <1>0, <1>7, SpenderAt
     DEF AlreadyRefilling, TypeOK, cellVars, flagVars
<1>8. ASSUME NEW h \in Holders, NEW t \in Spenders, NEW w \in Slots,
             StartRefill(h, t, w)
      PROVE  FlightOK(g)'
  <2>1. BegunRefill.pc = "begin"
    BY DEF BegunRefill, IdleRefill
  <2>2. \A v \in Slots : refill[h][v].pc = "idle"
    BY <1>8 DEF StartRefill, MayRefill, FlightInv
  <2>3. phase[h] \notin {"new", "acquiring"}
    BY <1>8 DEF StartRefill, FlightInv
  <2>4. \A k \in Holders, v \in Slots :
          refill'[k][v].pc = IF k = h /\ v = w THEN "begin" ELSE refill[k][v].pc
    BY <1>8, <2>1, RefillAt DEF StartRefill, TypeOK
  <2>5. phase' = phase /\ nxt' = nxt /\ refilling' = [refilling EXCEPT ![h] = TRUE]
    BY <1>8 DEF StartRefill, cellVars
  <2>6. CASE g = h
    <3>1. refilling'[h] /\ phase'[h] = phase[h]
      BY <2>5 DEF TypeOK, FlagTypeOK
    <3>2. \A v \in Slots : InFlight(h, v)' => v = w
      BY <2>2, <2>4
    <3>3. \A v \in Slots : ~Committed(h, v)'
      BY <2>2, <2>4
    <3> QED
      BY <2>3, <2>6, <3>1, <3>2, <3>3
  <2>7. CASE g # h
    <3>1. \A u \in Spenders : spender'[g][u] = spender[g][u]
      BY <1>8, <2>7, SpenderAt DEF StartRefill, TypeOK
    <3>2. refilling'[g] = refilling[g] /\ phase'[g] = phase[g] /\ nxt'[g] = nxt[g]
      BY <2>5, <2>7 DEF TypeOK, FlagTypeOK
    <3>3. \A v \in Slots : refill'[g][v].pc = refill[g][v].pc
      BY <2>4, <2>7
    <3> QED
      BY <1>0, <3>1, <3>2, <3>3
  <2> QED
    BY <2>6, <2>7
<1>9. ASSUME NEW h \in Holders, NEW w \in Slots, Acquire(h, w)
      PROVE  FlightOK(g)'
  <2>1. BegunRefill.pc = "begin"
    BY DEF BegunRefill, IdleRefill
  <2>2. \A k \in Holders, v \in Slots :
          refill'[k][v].pc = IF k = h /\ v = w THEN "begin" ELSE refill[k][v].pc
    BY <1>9, <2>1, RefillAt DEF Acquire, TypeOK
  <2>3. /\ phase[h] = "new"
        /\ phase' = [phase EXCEPT ![h] = "acquiring"]
        /\ UNCHANGED <<nxt, refilling, spender>>
    BY <1>9 DEF Acquire, cellVars
  <2>4. phase'[g] = IF g = h THEN "acquiring" ELSE phase[g]
    BY <2>3 DEF TypeOK, FlagTypeOK
  <2>5. CASE g = h
    <3>1. \A v \in Slots : InFlight(g, v)' => v = w
      BY <1>0, <2>2, <2>3, <2>5
    <3>2. \A v \in Slots : ~Committed(g, v)'
      BY <1>0, <2>2, <2>3, <2>5
    <3> QED
      BY <1>0, <2>3, <2>4, <2>5, <3>1, <3>2
  <2>6. CASE g # h
    <3>1. \A v \in Slots : refill'[g][v].pc = refill[g][v].pc
      BY <2>2, <2>6
    <3> QED
      BY <1>0, <2>3, <2>4, <2>6, <3>1
  <2> QED
    BY <2>5, <2>6
<1>10. ASSUME NEW h \in Holders, NEW w \in Slots, RefillNotNeeded(h, w)
      PROVE  FlightOK(g)'
  BY <1>0, <1>10, RefillAt
     DEF RefillNotNeeded, TypeOK, EndedRefill, IdleRefill, cellVars, flagVars
<1>11. ASSUME NEW h \in Holders, NEW w \in Slots, RefillAttest(h, w)
      PROVE  FlightOK(g)'
  BY <1>0, <1>11, RefillAt
     DEF RefillAttest, TypeOK, cellVars, flagVars
<1>12. ASSUME NEW h \in Holders, NEW w \in Slots, RefillDraw(h, w)
      PROVE  FlightOK(g)'
  BY <1>0, <1>12, RefillAt
     DEF RefillDraw, TypeOK, cellVars, flagVars
<1>13. ASSUME NEW h \in Holders, NEW w \in Slots, RefillReported(h, w)
      PROVE  FlightOK(g)'
  BY <1>0, <1>13, RefillAt
     DEF RefillReported, TypeOK, IdleRefill, flagVars
<1>14. ASSUME NEW h \in Holders, NEW w \in Slots, ReportFailed(h, w)
      PROVE  FlightOK(g)'
  BY <1>0, <1>14, RefillAt
     DEF ReportFailed, TypeOK, IdleRefill, cellVars, flagVars
<1>15. ASSUME NEW h \in Holders, NEW w \in Slots, RefillSettled(h, w)
      PROVE  FlightOK(g)'
  BY <1>0, <1>15, RefillAt
     DEF RefillSettled, TypeOK, Redraw, EndedRefill, IdleRefill, cellVars, flagVars
<1>16. ASSUME NEW h \in Holders, NEW w \in Slots, RefillStale(h, w)
      PROVE  FlightOK(g)'
  BY <1>0, <1>16, RefillAt
     DEF RefillStale, TypeOK, Redraw, EndedRefill, IdleRefill, cellVars, flagVars
<1>17. ASSUME NEW h \in Holders, NEW w \in Slots, RefillGivesUp(h, w)
      PROVE  FlightOK(g)'
  BY <1>0, <1>17, RefillAt
     DEF RefillGivesUp, TypeOK, EndedRefill, IdleRefill, cellVars, flagVars
<1>18. ASSUME NEW h \in Holders, NEW w \in Slots, RefillFresh(h, w)
      PROVE  FlightOK(g)'
  BY <1>0, <1>18, RefillAt
     DEF RefillFresh, TypeOK, cellVars, flagVars
<1>19. ASSUME NEW h \in Holders, NEW w \in Slots, RefillInstall(h, w)
      PROVE  FlightOK(g)'
  <2>1. \A k \in Holders, v \in Slots :
          refill'[k][v].pc = IF k = h /\ v = w THEN "done" ELSE refill[k][v].pc
    BY <1>19, RefillAt DEF RefillInstall, TypeOK, EndedRefill, IdleRefill
  <2>2. UNCHANGED <<phase, refilling, spender>>
    BY <1>19 DEF RefillInstall, flagVars
  <2>3. InFlight(h, w)
    BY <1>19 DEF RefillInstall
  <2>4. g # h => nxt'[g] = nxt[g]
    BY <1>19 DEF RefillInstall, TypeOK, CellTypeOK
  <2>5. \A v \in Slots : ~Committed(h, v)'
    BY <1>0, <2>1, <2>3 DEF FlightInv
  <2>6. CASE g # h
    BY <1>0, <2>1, <2>2, <2>4, <2>6
  <2>7. CASE g = h
    BY <1>0, <2>1, <2>2, <2>3, <2>5, <2>7
  <2> QED
    BY <2>6, <2>7
<1>20. ASSUME NEW h \in Holders, NEW w \in Slots, RefillDone(h, w)
      PROVE  FlightOK(g)'
  <2>1. \A k \in Holders, v \in Slots :
          refill'[k][v].pc = IF k = h /\ v = w THEN "idle" ELSE refill[k][v].pc
    BY <1>20, RefillAt DEF RefillDone, TypeOK, IdleRefill
  <2>2. UNCHANGED <<nxt, spender>>
    BY <1>20 DEF RefillDone, cellVars
  <2>3. g # h => phase'[g] = phase[g] /\ refilling'[g] = refilling[g]
    BY <1>20 DEF RefillDone, TypeOK, FlagTypeOK
  <2>4. CASE g # h
    BY <1>0, <2>1, <2>2, <2>3, <2>4
  <2>5. CASE g = h
    <3>1. \A v \in Slots : ~InFlight(h, v)'
      BY <1>0, <1>20, <2>1, <2>5 DEF RefillDone
    <3>2. phase[h] # "new"
      BY <1>0, <1>20, <2>5 DEF RefillDone
    <3>3. CASE phase[h] = "acquiring"
      BY <1>20, <2>5, <3>1, <3>3 DEF RefillDone, TypeOK, FlagTypeOK
    <3>4. CASE phase[h] # "acquiring"
      BY <1>20, <2>5, <3>1, <3>2, <3>4 DEF RefillDone, TypeOK, FlagTypeOK
    <3> QED
      BY <3>3, <3>4
  <2> QED
    BY <2>4, <2>5
<1>21. ASSUME NEW h \in Holders, ReturnBegin(h)
      PROVE  FlightOK(g)'
  BY <1>0, <1>21
     DEF ReturnBegin, TypeOK, FlagTypeOK, cellVars, procVars
<1>22. ASSUME NEW h \in Holders, ReturnTake(h)
      PROVE  FlightOK(g)'
  BY <1>0, <1>22
     DEF ReturnTake, TypeOK, FlagTypeOK, CellTypeOK, procVars
<1>23. ASSUME NEW h \in Holders, ReturnCall(h)
      PROVE  FlightOK(g)'
  BY <1>0, <1>23
     DEF ReturnCall, TypeOK, FlagTypeOK, cellVars, procVars
<1>24. ASSUME NEW h \in Holders, ReturnNext(h)
      PROVE  FlightOK(g)'
  BY <1>0, <1>24
     DEF ReturnNext, TypeOK, FlagTypeOK, cellVars, procVars
<1>25. ASSUME NEW h \in Holders, ReturnEnd(h)
      PROVE  FlightOK(g)'
  BY <1>0, <1>25
     DEF ReturnEnd, TypeOK, FlagTypeOK, cellVars, procVars
<1>26. ASSUME NEW m \in net, ServerDraw(m)
      PROVE  FlightOK(g)'
  BY <1>0, <1>26, AnswerKeepsFlight
     DEF ServerDraw, TypeOK, cellVars, flagVars
<1>27. ASSUME NEW m \in net, ServerReport(m)
      PROVE  FlightOK(g)'
  BY <1>0, <1>27, AnswerKeepsFlight
     DEF ServerReport, TypeOK, cellVars, flagVars
<1>28. ASSUME NEW m \in net, ServerReturn(m)
      PROVE  FlightOK(g)'
  BY <1>0, <1>28
     DEF ServerReturn, TypeOK, cellVars, flagVars, procVars
<1>29. ASSUME NEW id \in LeaseIds, Reclaim(id)
      PROVE  FlightOK(g)'
  BY <1>0, <1>29
     DEF Reclaim, TypeOK, cellVars, flagVars, procVars
<1>30. ASSUME NEW acked \in 0..Cap, ControllerReconcile(acked)
      PROVE  FlightOK(g)'
  BY <1>0, <1>30
     DEF ControllerReconcile, TypeOK, cellVars, flagVars, procVars
<1>33. ASSUME NEW c \in calls, ServerReconcile(c)
      PROVE  FlightOK(g)'
  BY <1>0, <1>33
     DEF ServerReconcile, TypeOK, cellVars, flagVars, procVars
<1>31. ASSUME Tick
      PROVE  FlightOK(g)'
  BY <1>0, <1>31
     DEF Tick, TypeOK, cellVars, flagVars, procVars
<1>32. CASE UNCHANGED vars
  BY <1>0, <1>32 DEF vars, cellVars, flagVars, procVars
<1> QED
  BY <1>1, <1>2, <1>3, <1>4, <1>5, <1>6, <1>7, <1>8, <1>9, <1>10, <1>11, <1>12, <1>13, <1>14, <1>15, <1>16, <1>17, <1>18, <1>19, <1>20, <1>21, <1>22, <1>23, <1>24, <1>25, <1>26, <1>27, <1>28, <1>29, <1>30, <1>31, <1>32, <1>33
     DEF Next, SpendStep, RefillStep, ReturnStep

\* One refill per cell at a time, and its install never overwrites a buffered
\* chunk (requestRefill, refillOnce).
THEOREM SingleFlight == Spec => []RefillOwnsBuffer
<1>1. FlightInv => RefillOwnsBuffer
  BY DEF FlightInv, FlightOK, InFlight, Committed, RefillOwnsBuffer, Active, Drawing
<1>2. TypeOK /\ TypeOK' /\ FlightInv /\ [Next]_vars => FlightInv'
  BY NextFlight
<1> QED
  BY <1>1, <1>2, InitFlight, TypeCorrect, PTL DEF Spec

-----------------------------------------------------------------------------
(* The end of a refill *)

LEMMA EndedGoesOn == EndedRefill.pc = "done" /\ BegunRefill.pc = "begin"
BY DEF EndedRefill, BegunRefill, IdleRefill

\* What StepsLeft says of a refill's place.
LEMMA StepsLeftValue ==
    ASSUME NEW r \in Refill
    PROVE  /\ StepsLeft(r) \in Nat
           /\ r.pc = "idle" => StepsLeft(r) = 0
           /\ r.pc = "done" => StepsLeft(r) = 1
           /\ r.pc \notin {"idle", "done"} => StepsLeft(r) >= 2
<1>1. r.attempt \in 0..MaxAttempts /\ MaxAttempts - r.attempt \in Nat
  BY CacheAssumption DEF Refill
<1>2. r.pc \in {"idle", "begin", "reporting", "reported", "drawing", "replied",
                "gated", "done"}
  BY DEF Refill
<1> QED
  BY <1>1, <1>2 DEF StepsLeft

\* Moving on within an attempt.
LEMMA SameAttempt ==
    ASSUME NEW r \in Refill, NEW s \in Refill, s.attempt = r.attempt,
           \/ r.pc = "begin" /\ s.pc \in {"reporting", "drawing"}
           \/ r.pc = "reporting" /\ s.pc \in {"reported", "drawing"}
           \/ r.pc = "reported" /\ s.pc = "drawing"
           \/ r.pc = "drawing" /\ s.pc = "replied"
           \/ r.pc = "replied" /\ s.pc = "gated"
    PROVE  StepsLeft(s) \in 0..(StepsLeft(r) - 1)
<1>1. r.attempt \in 0..MaxAttempts /\ MaxAttempts - r.attempt \in Nat
  BY CacheAssumption DEF Refill
<1>2. StepsLeft(s) \in Nat /\ StepsLeft(r) \in Nat
  BY StepsLeftValue
<1>3. StepsLeft(s) < StepsLeft(r)
  BY <1>1 DEF StepsLeft
<1> QED
  BY <1>2, <1>3

\* The next attempt.
LEMMA NextAttempt ==
    ASSUME NEW r \in Refill, NEW s \in Refill, r.pc = "replied", s.pc = "drawing",
           s.attempt = r.attempt + 1
    PROVE  StepsLeft(s) \in 0..(StepsLeft(r) - 1)
<1>1. r.attempt \in Nat /\ s.attempt \in Nat /\ MaxAttempts \in Nat
  BY CacheAssumption DEF Refill
<1>2. StepsLeft(s) \in Nat /\ StepsLeft(r) \in Nat
  BY StepsLeftValue
<1>3. StepsLeft(r) = 2 * (MaxAttempts - r.attempt) + 3
  BY DEF StepsLeft
<1>4. StepsLeft(s) = 2 * (MaxAttempts - s.attempt) + 4
  BY DEF StepsLeft
<1> QED
  BY <1>1, <1>2, <1>3, <1>4

\* The end, and the reset after it.
LEMMA LastSteps ==
    ASSUME NEW r \in Refill, NEW s \in Refill,
           \/ r.pc \notin {"idle", "done"} /\ s = EndedRefill
           \/ r.pc = "done" /\ s = IdleRefill
    PROVE  StepsLeft(s) \in 0..(StepsLeft(r) - 1)
<1>1. EndedRefill.pc = "done" /\ IdleRefill.pc = "idle"
  BY DEF EndedRefill, IdleRefill
<1> QED
  BY <1>1, StepsLeftValue

\* The place and the attempt after an update of both, or of the place alone.
LEMMA Moved ==
    ASSUME NEW r \in Refill, NEW pc, NEW k, NEW n, NEW x, NEW q, NEW t
    PROVE  /\ LET s == [r EXCEPT !.pc = pc, !.nonce = n, !.rep = x]
              IN  s.pc = pc /\ s.attempt = r.attempt
           /\ LET s == [r EXCEPT !.pc = pc, !.nonce = n]
              IN  s.pc = pc /\ s.attempt = r.attempt
           /\ LET s == [r EXCEPT !.pc = pc, !.rep = x]
              IN  s.pc = pc /\ s.attempt = r.attempt
           /\ LET s == [r EXCEPT !.pc = pc, !.gatedAt = t]
              IN  s.pc = pc /\ s.attempt = r.attempt
           /\ LET s == [r EXCEPT !.pc = pc, !.nonce = n, !.attempt = k, !.row = q]
              IN  s.pc = pc /\ s.attempt = k
BY DEF Refill

\* A step of one refill brings its end nearer, and only RefillDone is its end.
LEMMA OneAdvances ==
    ASSUME TypeOK, TypeOK', NEW h \in Holders, NEW w \in Slots, RefillStep(h, w)
    PROVE  /\ StepsLeft(refill'[h][w]) \in 0..(StepsLeft(refill[h][w]) - 1)
           /\ ~RefillDone(h, w) => InFlight(h, w)'
<1> DEFINE r == refill[h][w]
           s == refill'[h][w]
<1>0. r \in Refill /\ s \in Refill /\ RefillTypeOK
  BY DEF TypeOK, RefillTypeOK
<1> USE DEF InFlight
<1>1. CASE RefillNotNeeded(h, w) \/ RefillGivesUp(h, w) \/ RefillInstall(h, w)
  <2>1. s = EndedRefill /\ r.pc \notin {"idle", "done"}
    BY <1>0, <1>1, RefillAt DEF RefillNotNeeded, RefillGivesUp, RefillInstall
  <2> QED
    BY <1>0, <2>1, LastSteps, EndedGoesOn
<1>2. CASE RefillDone(h, w)
  <2>1. s = IdleRefill /\ r.pc = "done"
    BY <1>0, <1>2, RefillAt DEF RefillDone
  <2> QED
    BY <1>0, <1>2, <2>1, LastSteps
<1>3. CASE RefillAttest(h, w)
  <2>1. /\ r.pc = "begin"
        /\ s = [r EXCEPT !.pc = "reporting",
                         !.nonce = nonce[h],
                         !.rep = [id |-> cur[h].id, spent |-> cur[h].spent]]
    BY <1>0, <1>3, RefillAt DEF RefillAttest
  <2>2. s.pc = "reporting" /\ s.attempt = r.attempt
    BY <1>0, <2>1, Moved
  <2> QED
    BY <1>0, <2>1, <2>2, SameAttempt
<1>4. CASE RefillDraw(h, w)
  <2>1. r.pc = "begin" /\ s = [r EXCEPT !.pc = "drawing", !.nonce = nonce[h]]
    BY <1>0, <1>4, RefillAt DEF RefillDraw
  <2>2. s.pc = "drawing" /\ s.attempt = r.attempt
    BY <1>0, <2>1, Moved
  <2> QED
    BY <1>0, <2>1, <2>2, SameAttempt
<1>5. CASE RefillReported(h, w) \/ ReportFailed(h, w)
  <2>1. /\ r.pc \in {"reporting", "reported"}
        /\ s = [r EXCEPT !.pc = "drawing", !.rep = IdleRefill.rep]
    BY <1>0, <1>5, RefillAt DEF RefillReported, ReportFailed
  <2>2. s.pc = "drawing" /\ s.attempt = r.attempt
    BY <1>0, <2>1, Moved
  <2> QED
    BY <1>0, <2>1, <2>2, SameAttempt
<1>6. CASE RefillFresh(h, w)
  <2>1. r.pc = "replied" /\ s = [r EXCEPT !.pc = "gated", !.gatedAt = now]
    BY <1>0, <1>6, RefillAt DEF RefillFresh
  <2>2. s.pc = "gated" /\ s.attempt = r.attempt
    BY <1>0, <2>1, Moved
  <2> QED
    BY <1>0, <2>1, <2>2, SameAttempt
<1>7. CASE RefillSettled(h, w) \/ RefillStale(h, w)
  <2>1. r.pc = "replied" /\ Redraw(h, w)
    BY <1>7 DEF RefillSettled, RefillStale
  <2>2. CASE RefillBecomes(h, w, EndedRefill)
    <3>1. s = EndedRefill
      BY <1>0, <2>2, RefillAt
    <3> QED
      BY <1>0, <2>1, <3>1, LastSteps, EndedGoesOn
  <2>3. CASE ~RefillBecomes(h, w, EndedRefill)
    <3>1. RefillBecomes(h, w, [r EXCEPT !.pc = "drawing", !.nonce = @ + 1,
                                        !.attempt = @ + 1, !.row = NoRow])
      BY <2>1, <2>3 DEF Redraw
    <3>2. s = [r EXCEPT !.pc = "drawing", !.nonce = r.nonce + 1,
                        !.attempt = r.attempt + 1, !.row = NoRow]
      BY <1>0, <3>1, RefillAt
    <3>3. s.pc = "drawing" /\ s.attempt = r.attempt + 1
      BY <1>0, <3>2, Moved
    <3> QED
      BY <1>0, <2>1, <3>3, NextAttempt
  <2> QED
    BY <2>2, <2>3
<1> QED
  BY <1>1, <1>2, <1>3, <1>4, <1>5, <1>6, <1>7 DEF RefillStep

\* An answer of the server.
LEMMA AnswerAdvances ==
    ASSUME TypeOK, TypeOK', NEW m \in net, ServerDraw(m) \/ ServerReport(m),
           NEW h \in Holders, NEW w \in Slots, refill'[h][w] # refill[h][w]
    PROVE  StepsLeft(refill'[h][w]) \in 0..(StepsLeft(refill[h][w]) - 1)
<1> DEFINE r == refill[h][w]
           s == refill'[h][w]
<1>0. r \in Refill /\ s \in Refill
  BY DEF TypeOK, RefillTypeOK
<1>1. CASE ServerDraw(m)
  <2>1. r.pc = "drawing" /\ s.pc = "replied" /\ s.attempt = r.attempt
    BY <1>0, <1>1 DEF ServerDraw, Refill
  <2> QED
    BY <1>0, <2>1, SameAttempt
<1>2. CASE ServerReport(m)
  <2>1. r.pc = "reporting" /\ s.pc = "reported" /\ s.attempt = r.attempt
    BY <1>0, <1>2 DEF ServerReport, Refill
  <2> QED
    BY <1>0, <2>1, SameAttempt
<1> QED
  BY <1>1, <1>2

\* Only a refill's own steps and the server's answers change it: Spend and Acquire
\* start one only where none is in flight.
LEMMA NextAdvances ==
    ASSUME TypeOK, TypeOK', FlightInv, [Next]_vars,
           NEW h \in Holders, NEW w \in Slots, InFlight(h, w),
           refill'[h][w] # refill[h][w]
    PROVE  StepsLeft(refill'[h][w]) \in 0..(StepsLeft(refill[h][w]) - 1)
<1>0. RefillTypeOK
  BY DEF TypeOK
<1>1. ASSUME NEW g \in Holders, NEW t \in Spenders, SpendStep(g, t)
      PROVE  FALSE
  <2>1. ASSUME NEW v \in Slots, StartRefill(g, t, v)
        PROVE  FALSE
    BY <1>0, <2>1, RefillAt DEF StartRefill, InFlight
  <2>2. refill' # refill
    OBVIOUS
  <2> QED
    BY <1>1, <2>1, <2>2
       DEF SpendStep, SpendBegin, SelfFence, PaceOut, SpendCached, SpendRefused,
           TriggerCheck, AlreadyRefilling
<1>2. ASSUME NEW g \in Holders, NEW v \in Slots, Acquire(g, v)
      PROVE  FALSE
  BY <1>0, <1>2, RefillAt DEF Acquire, FlightInv, FlightOK
<1>3. ASSUME NEW g \in Holders, NEW v \in Slots, RefillStep(g, v)
      PROVE  g = h /\ v = w
  <2>1. PICK s : RefillBecomes(g, v, s)
    BY <1>3
       DEF RefillStep, RefillNotNeeded, RefillAttest, RefillDraw, RefillReported,
           ReportFailed, RefillSettled, RefillStale, RefillGivesUp, RefillFresh,
           RefillInstall, RefillDone, Redraw
  <2> QED
    BY <1>0, <2>1, RefillAt
<1>4. CASE \E m \in net : ServerDraw(m) \/ ServerReport(m)
  BY <1>4, AnswerAdvances
<1>5. ASSUME NEW g \in Holders, ReturnBegin(g) \/ ReturnStep(g)
      PROVE  FALSE
  BY <1>5 DEF ReturnBegin, ReturnStep, ReturnTake, ReturnCall, ReturnNext, ReturnEnd, procVars
<1>6. ~UNCHANGED procVars
  BY DEF procVars
<1> QED
  BY <1>1, <1>2, <1>3, <1>4, <1>5, <1>6, OneAdvances
     DEF Next, ServerReturn, Reclaim, ControllerReconcile, ServerReconcile, Tick, vars

\* The safety half of RefillEnds, for every value of the constants: a refill takes
\* at most 2 * MaxAttempts + 7 steps from its snapshot to its reset (refillOnce,
\* maxRefillAttempts).
THEOREM RefillsAreBounded == Spec => RefillsAdvance
<1>1. TypeOK /\ TypeOK' /\ FlightInv /\ [Next]_vars =>
        [\A h \in Holders, w \in Slots :
           refill[h][w].pc # "idle" /\ refill'[h][w] # refill[h][w] =>
             StepsLeft(refill'[h][w]) \in 0..(StepsLeft(refill[h][w]) - 1)]_vars
  BY NextAdvances DEF InFlight
<1>2. TypeOK /\ FlightInv /\ [Next]_vars => FlightInv'
  BY NextFlight
<1> QED
  BY <1>1, <1>2, InitFlight, TypeCorrect, PTL DEF Spec, RefillsAdvance

-----------------------------------------------------------------------------
(* The owner of the flag *)

\* The flag of a holder is up only while one of its refills is in flight: no
\* interleaving of Acquire, Spend and Return leaves it behind (requestRefill).
FlagOwned == \A h \in Holders : refilling[h] => \E w \in Slots : InFlight(h, w)

\* A step that keeps the flag, and the refills in flight, where they were.
LEMMA SameFlights ==
    ASSUME FlagOwned, UNCHANGED refilling,
           \A h \in Holders, w \in Slots : InFlight(h, w) => InFlight(h, w)'
    PROVE  FlagOwned'
BY DEF FlagOwned

\* A step of a refill that does not end it, by the place it goes to.
LEMMA GoesOn ==
    ASSUME RefillTypeOK, NEW h \in Holders, NEW w \in Slots, NEW r,
           RefillBecomes(h, w, r), r.pc # "idle"
    PROVE  \A g \in Holders, v \in Slots : InFlight(g, v) => InFlight(g, v)'
BY RefillAt DEF InFlight

LEMMA NextFlagOwned ==
    TypeOK /\ TypeOK' /\ FlightInv /\ FlagOwned /\ [Next]_vars => FlagOwned'
<1> SUFFICES ASSUME TypeOK, TypeOK', FlightInv, FlagOwned, [Next]_vars PROVE FlagOwned'
  OBVIOUS
<1>0. RefillTypeOK /\ FlagTypeOK
  BY DEF TypeOK
<1>1. ASSUME NEW h \in Holders, NEW t \in Spenders, SpendStep(h, t)
      PROVE  FlagOwned'
  <2>1. ASSUME NEW w \in Slots, StartRefill(h, t, w)
        PROVE  FlagOwned'
    <3>1. \A g \in Holders, v \in Slots : InFlight(g, v) => InFlight(g, v)'
      BY <1>0, <2>1, GoesOn, EndedGoesOn DEF StartRefill
    <3>2. InFlight(h, w)'
      BY <1>0, <2>1, RefillAt, EndedGoesOn DEF StartRefill, InFlight
    <3>3. \A g \in Holders : g # h => refilling'[g] = refilling[g]
      BY <1>0, <2>1 DEF StartRefill, FlagTypeOK
    <3> QED
      BY <3>1, <3>2, <3>3 DEF FlagOwned
  <2>2. CASE UNCHANGED <<flagVars, refill>>
    BY <2>2, SameFlights DEF flagVars, InFlight
  <2> QED
    BY <1>1, <2>1, <2>2
       DEF SpendStep, SpendBegin, SelfFence, PaceOut, SpendCached, SpendRefused,
           TriggerCheck, AlreadyRefilling
<1>2. ASSUME NEW h \in Holders, NEW w \in Slots, Acquire(h, w)
      PROVE  FlagOwned'
  BY <1>0, <1>2, GoesOn, EndedGoesOn, SameFlights DEF Acquire
<1>3. ASSUME NEW h \in Holders, NEW w \in Slots, RefillDone(h, w)
      PROVE  FlagOwned'
  <2>1. \A g \in Holders, v \in Slots :
          g # h => (InFlight(g, v)' <=> InFlight(g, v))
    BY <1>0, <1>3, RefillAt DEF RefillDone, InFlight
  <2>2. ~refilling'[h]
    <3>1. CASE phase[h] = "acquiring"
      BY <1>3, <3>1 DEF RefillDone, FlightInv, FlightOK
    <3>2. CASE phase[h] # "acquiring"
      BY <1>0, <1>3, <3>2 DEF RefillDone, FlagTypeOK
    <3> QED
      BY <3>1, <3>2
  <2>3. \A g \in Holders : g # h => refilling'[g] = refilling[g]
    BY <1>0, <1>3 DEF RefillDone, FlagTypeOK
  <2> QED
    BY <2>1, <2>2, <2>3 DEF FlagOwned
<1>4. ASSUME NEW h \in Holders, NEW w \in Slots, RefillStep(h, w), ~RefillDone(h, w)
      PROVE  FlagOwned'
  <2>1. PICK r : RefillBecomes(h, w, r)
    BY <1>4
       DEF RefillStep, RefillNotNeeded, RefillAttest, RefillDraw, RefillReported,
           ReportFailed, RefillSettled, RefillStale, RefillGivesUp, RefillFresh,
           RefillInstall, RefillDone, Redraw
  <2>2. r.pc # "idle"
    BY <1>0, <1>4, <2>1, OneAdvances, RefillAt DEF InFlight
  <2>3. UNCHANGED refilling
    BY <1>4
       DEF RefillStep, RefillNotNeeded, RefillAttest, RefillDraw, RefillReported,
           ReportFailed, RefillSettled, RefillStale, RefillGivesUp, RefillFresh,
           RefillInstall, flagVars
  <2> QED
    BY <1>0, <2>1, <2>2, <2>3, GoesOn, SameFlights
<1>5. ASSUME NEW h \in Holders, ReturnBegin(h) \/ ReturnStep(h)
      PROVE  FlagOwned'
  <2>1. UNCHANGED <<refilling, refill>>
    BY <1>5 DEF ReturnBegin, ReturnStep, ReturnTake, ReturnCall, ReturnNext, ReturnEnd, procVars
  <2> QED
    BY <2>1, SameFlights DEF InFlight
<1>6. ASSUME NEW m \in net, ServerDraw(m) \/ ServerReport(m)
      PROVE  FlagOwned'
  <2>1. UNCHANGED refilling
    BY <1>6 DEF ServerDraw, ServerReport, flagVars
  <2> QED
    BY <1>0, <1>6, <2>1, AnswerKeepsFlight, SameFlights
<1>7. CASE UNCHANGED <<flagVars, procVars>>
  BY <1>7, SameFlights DEF flagVars, procVars, InFlight
<1> QED
  BY <1>1, <1>2, <1>3, <1>4, <1>5, <1>6, <1>7
     DEF Next, ServerReturn, Reclaim, ControllerReconcile, ServerReconcile, Tick, vars

\* The flag is never left up without a refill to lower it (requestRefill's deferred
\* reset, through Acquire's refill, which runs without the flag).
THEOREM FlagHasOwner == Spec => []FlagOwned
<1>1. Init => FlagOwned
  BY DEF Init, FlagOwned
<1>2. TypeOK /\ TypeOK' /\ FlightInv /\ FlagOwned /\ [Next]_vars => FlagOwned'
  BY NextFlagOwned
<1>3. TypeOK /\ FlightInv /\ [Next]_vars => FlightInv'
  BY NextFlight
<1> QED
  BY <1>1, <1>2, <1>3, InitFlight, TypeCorrect, PTL DEF Spec

-----------------------------------------------------------------------------
(* Leases *)

\* Return has taken a chunk of this lease out of the cell for good: it is to be
\* settled, its return is under way, or the server has credited it back.
GivenUp(id) ==
    \/ lease[id].state = "returned"
    \/ \E m \in net : m.kind = "return" /\ m.id = id
    \/ \E h \in Holders : \E i \in 1..Len(settle[h]) : settle[h][i].id = id

\* A cached chunk is of a lease the holder drew in an earlier refill and has not
\* given up, and its deadline is no later than the grantor's.
CachedOK(h) ==
    \A c \in Cached(h) :
        /\ c.id[1] = h
        /\ c.id[2] < nonce[h]
        /\ ~GivenUp(c.id)
        /\ lease[c.id].state # "none"
        /\ Ttl > 0 => c.deadline <= lease[c.id].grantedMs + Ttl + Late

\* A refill in flight draws under a nonce no installed lease has, what it was
\* answered is still the timing of the lease, and one past the gate has a grant
\* that was fresh by the holder's wall clock no longer than Gap ago.
RefillOK(h, w) ==
    LET r == refill[h][w]
        id == makeLeaseID(h, r.nonce)
    IN
    /\ Committed(h, w) => r.nonce >= nonce[h]
    /\ r.pc \in {"replied", "gated"} /\ r.row.state # "none" =>
         lease[id].state # "none" /\ lease[id].grantedMs = r.row.grantedMs
    /\ r.pc = "gated" =>
         /\ r.row.state = "live"
         /\ now <= r.gatedAt + Gap
         /\ Ttl > 0 => r.gatedAt + skew[h] - r.row.grantedMs <= Guard

\* Only leases of earlier refills are given up.
GivenUpOK(id) == GivenUp(id) => id[2] < nonce[id[1]]

\* The grantor reclaims late.
ExpiryOK(id) ==
    lease[id].state = "expired" => Ttl > 0 /\ now >= lease[id].grantedMs + Ttl + Late

LeaseInv ==
    /\ \A h \in Holders : CachedOK(h)
    /\ \A h \in Holders, w \in Slots : RefillOK(h, w)
    /\ \A id \in LeaseIds : GivenUpOK(id) /\ ExpiryOK(id)

\* A step that keeps a lease's timing once it has been granted.
RowKept(id) ==
    lease[id].state # "none" =>
      lease'[id].state # "none" /\ lease'[id].grantedMs = lease[id].grantedMs

\* A step that neither moves time and nonces, nor gives up or reclaims a lease.
Calm ==
    /\ UNCHANGED <<now, nonce, skew>>
    /\ \A id \in LeaseIds :
         /\ RowKept(id)
         /\ GivenUp(id)' => GivenUp(id)
         /\ lease'[id].state = "expired" => lease[id].state = "expired"

\* Every cached chunk was cached before, up to what was spent from it.
KeepsChunks(h) ==
    \A c \in Cached(h)' : \E b \in Cached(h) : c.id = b.id /\ c.deadline = b.deadline

LEMMA InitLease == Init => LeaseInv
<1> SUFFICES ASSUME Init PROVE LeaseInv
  OBVIOUS
<1>1. \A h \in Holders : CachedOK(h)
  BY DEF Init, CachedOK, Cached
<1>2. \A h \in Holders, w \in Slots : RefillOK(h, w)
  BY DEF Init, RefillOK, IdleRefill, Committed
<1>3. \A id \in LeaseIds : ~GivenUp(id) /\ ExpiryOK(id)
  BY DEF Init, PoolInit, NoRow, GivenUp, ExpiryOK
<1> QED
  BY <1>1, <1>2, <1>3 DEF LeaseInv, GivenUpOK

\* The chunks of a cell are typed, whatever the state.
LEMMA CachedType ==
    ASSUME TypeOK, NEW h \in Holders, NEW c \in Cached(h)
    PROVE  /\ c \in LeaseChunk
           /\ c.id \in LeaseIds
           /\ c.id[1] \in Holders
           /\ c.id[2] \in 0..MaxNonce
BY DEF TypeOK, CellTypeOK, Cached, LeaseChunk, LeaseIds

LEMMA CachedFrame ==
    ASSUME TypeOK, NEW h \in Holders, CachedOK(h), KeepsChunks(h),
           nonce'[h] = nonce[h],
           \A id \in LeaseIds : RowKept(id) /\ (GivenUp(id)' => GivenUp(id))
    PROVE  CachedOK(h)'
<1> SUFFICES ASSUME NEW c \in Cached(h)'
             PROVE  /\ c.id[1] = h
                    /\ c.id[2] < nonce'[h]
                    /\ ~GivenUp(c.id)'
                    /\ lease'[c.id].state # "none"
                    /\ Ttl > 0 => c.deadline <= lease'[c.id].grantedMs + Ttl + Late
  BY DEF CachedOK
<1>1. PICK b \in Cached(h) : c.id = b.id /\ c.deadline = b.deadline
  BY DEF KeepsChunks
<1>2. b.id \in LeaseIds
  BY CachedType
<1> QED
  BY <1>1, <1>2 DEF CachedOK, RowKept

LEMMA RefillFrame ==
    ASSUME TypeOK, NEW h \in Holders, NEW w \in Slots, RefillOK(h, w),
           refill'[h][w] = refill[h][w], UNCHANGED <<now, nonce, skew>>,
           \A id \in LeaseIds : RowKept(id)
    PROVE  RefillOK(h, w)'
<1>1. makeLeaseID(h, refill[h][w].nonce) \in LeaseIds
  BY DEF TypeOK, RefillTypeOK, Refill, makeLeaseID, LeaseIds
<1> QED
  BY <1>1 DEF RefillOK, RowKept, Committed, makeLeaseID

LEMMA CalmStep ==
    ASSUME TypeOK, LeaseInv, Calm, \A h \in Holders : KeepsChunks(h),
           \A h \in Holders, w \in Slots : RefillOK(h, w)'
    PROVE  LeaseInv'
<1>1. \A h \in Holders : CachedOK(h)'
  BY CachedFrame DEF LeaseInv, Calm
<1>2. \A id \in LeaseIds : GivenUpOK(id)'
  BY DEF LeaseInv, Calm, GivenUpOK
<1>3. \A id \in LeaseIds : ExpiryOK(id)'
  BY DEF LeaseInv, Calm, ExpiryOK, RowKept
<1> QED
  BY <1>1, <1>2, <1>3 DEF LeaseInv

\* A calm step that changes at most one refill.
LEMMA OneRefill ==
    ASSUME TypeOK, LeaseInv, Calm, NEW h \in Holders, NEW w \in Slots, NEW r,
           RefillBecomes(h, w, r), RefillOK(h, w)'
    PROVE  \A g \in Holders, v \in Slots : RefillOK(g, v)'
<1> SUFFICES ASSUME NEW g \in Holders, NEW v \in Slots, ~(g = h /\ v = w)
             PROVE  RefillOK(g, v)'
  OBVIOUS
<1>1. refill'[g][v] = refill[g][v]
  BY RefillAt DEF TypeOK
<1> QED
  BY <1>1, RefillFrame DEF LeaseInv, Calm

\* What the pool's handlers do to the rows.
LEMMA GrantRows ==
    ASSUME PoolTypeOK, NEW i \in LeaseIds, NEW units, BudgetGrant(i, units),
           NEW id \in LeaseIds
    PROVE  /\ RowKept(id)
           /\ lease'[id].state \in {"returned", "expired"} =>
                lease'[id].state = lease[id].state
BY DEF PoolTypeOK, BudgetGrant, RowKept, poolVars, Row

LEMMA ReportRows ==
    ASSUME PoolTypeOK, NEW i \in LeaseIds, NEW units, BudgetReport(i, units),
           NEW id \in LeaseIds
    PROVE  RowKept(id) /\ lease'[id].state = lease[id].state
BY DEF PoolTypeOK, BudgetReport, RowKept, poolVars, Row

LEMMA ReturnRows ==
    ASSUME PoolTypeOK, NEW i \in LeaseIds, NEW units, BudgetReturn(i, units),
           NEW id \in LeaseIds
    PROVE  /\ RowKept(id)
           /\ lease'[id].state = "expired" => lease[id].state = "expired"
           /\ lease'[id].state = "returned" => lease[id].state = "returned" \/ id = i
BY DEF PoolTypeOK, BudgetReturn, RowKept, poolVars, Row, IsLive

LEMMA ExpireRows ==
    ASSUME PoolTypeOK, NEW i \in LeaseIds, Expire(i), NEW id \in LeaseIds
    PROVE  /\ RowKept(id)
           /\ lease'[id].state = "returned" => lease[id].state = "returned"
           /\ lease'[id].state = "expired" =>
                \/ lease[id].state = "expired"
                \/ Ttl > 0 /\ now >= lease'[id].grantedMs + Ttl + Late
BY DEF PoolTypeOK, Expire, RowKept, Row, IsLive

\* No lease is given up by a step that leaves rows and settlements alone and
\* sends no return.
LEMMA CalmRequests ==
    ASSUME UNCHANGED <<now, nonce, skew, lease, settle>>,
           \A m \in net' : m \in net \/ m.kind # "return"
    PROVE  Calm
BY DEF Calm, GivenUp, RowKept

LEMMA SameChunks ==
    ASSUME NEW h \in Holders, cur'[h] = cur[h], nxt'[h] = nxt[h]
    PROVE  KeepsChunks(h)
BY DEF KeepsChunks, Cached

\* A step that touches none of what the invariant speaks of.
LEMMA Quiet ==
    ASSUME TypeOK, LeaseInv,
           UNCHANGED <<now, lease, cur, nxt, nonce, settle, refill, skew, net>>
    PROVE  LeaseInv'
<1>1. Calm
  BY CalmRequests
<1>2. \A h \in Holders, w \in Slots : RefillOK(h, w)'
  BY <1>1, RefillFrame DEF LeaseInv, Calm
<1> QED
  BY <1>1, <1>2, SameChunks, CalmStep

\* A step that only moves one refill.
LEMMA OnlyRefill ==
    ASSUME TypeOK, LeaseInv, NEW h \in Holders, NEW w \in Slots, NEW r,
           RefillBecomes(h, w, r), RefillOK(h, w)',
           UNCHANGED <<now, lease, nonce, settle, skew>>,
           \A g \in Holders : KeepsChunks(g),
           \A m \in net' : m \in net \/ m.kind # "return"
    PROVE  LeaseInv'
<1>1. Calm
  BY CalmRequests
<1> QED
  BY <1>1, OneRefill, CalmStep

\* A refill that is not past its snapshot, or ends, has nothing to keep.
LEMMA UncommittedOK ==
    ASSUME NEW h \in Holders, NEW w \in Slots, NEW r \in {IdleRefill, BegunRefill, EndedRefill},
           TypeOK, RefillBecomes(h, w, r)
    PROVE  RefillOK(h, w)'
<1>1. refill'[h][w].pc \in {"idle", "begin", "done"}
  BY RefillAt DEF TypeOK, IdleRefill, BegunRefill, EndedRefill
<1> QED
  BY <1>1 DEF RefillOK, Committed

\* A refill that is reporting or drawing, under a nonce not below the cell's.
LEMMA DrawingOK ==
    ASSUME TypeOK, NEW h \in Holders, NEW w \in Slots, NEW r,
           RefillBecomes(h, w, r), r.pc \in {"reporting", "drawing"},
           UNCHANGED nonce, r.nonce >= nonce[h]
    PROVE  RefillOK(h, w)'
<1>1. refill'[h][w] = r
  BY RefillAt DEF TypeOK
<1> QED
  BY <1>1 DEF RefillOK, Committed

LEMMA RedrawOK ==
    ASSUME TypeOK, LeaseInv, NEW h \in Holders, NEW w \in Slots, Redraw(h, w),
           refill[h][w].pc = "replied",
           UNCHANGED <<now, lease, cur, nxt, nonce, settle, skew>>
    PROVE  LeaseInv'
<1> DEFINE r == refill[h][w]
           s == [r EXCEPT !.pc = "drawing", !.nonce = @ + 1, !.attempt = @ + 1,
                          !.row = NoRow]
<1>0. r \in Refill /\ nonce[h] \in 0..(MaxNonce + 1)
  BY DEF TypeOK, RefillTypeOK, CellTypeOK
<1>1. r \in Refill /\ r.nonce >= nonce[h] /\ nonce[h] \in Int
  BY <1>0, PoolAssumption DEF LeaseInv, RefillOK, Committed
<1>2. \A m \in net' : m \in net \/ m.kind # "return"
  BY DEF Redraw, DrawRequest
<1>3. \A g \in Holders : KeepsChunks(g)
  BY SameChunks
<1>4. CASE r.attempt + 1 < MaxAttempts /\ r.nonce < MaxNonce
  <2>1. s.pc = "drawing" /\ s.nonce >= nonce[h]
    BY <1>1 DEF Refill
  <2>2. RefillBecomes(h, w, s)
    BY <1>4 DEF Redraw
  <2> QED
    BY <1>2, <1>3, <2>1, <2>2, DrawingOK, OnlyRefill
<1>5. CASE ~(r.attempt + 1 < MaxAttempts /\ r.nonce < MaxNonce)
  BY <1>2, <1>3, <1>5, UncommittedOK, OnlyRefill DEF Redraw
<1> QED
  BY <1>4, <1>5

\* The chunk an install buffers stops before the grantor reclaims its lease.
LEMMA InstallDeadline ==
    ASSUME TimingSound, TypeOK, LeaseInv, NEW h \in Holders, NEW w \in Slots,
           RefillInstall(h, w), Ttl > 0
    PROVE  LET id == makeLeaseID(h, refill[h][w].nonce) IN
           Installed(id, refill[h][w].row).deadline <= lease[id].grantedMs + Ttl + Late
<1> DEFINE r == refill[h][w]
           id == makeLeaseID(h, r.nonce)
<1>1. /\ r \in Refill
      /\ r.row.grantedMs \in Nat
      /\ r.gatedAt \in Nat
      /\ now \in Nat
      /\ skew[h] \in (-Skew)..Skew
  BY DEF TypeOK, PoolTypeOK, RefillTypeOK, Refill, Row
<1>2. /\ lease[id].grantedMs = r.row.grantedMs
      /\ now <= r.gatedAt + Gap
      /\ r.gatedAt + skew[h] - r.row.grantedMs <= Guard
  BY DEF LeaseInv, RefillOK, RefillInstall
<1>3. Installed(id, r.row).deadline = now + Ttl - Guard
  BY DEF Installed, TimingSound, nowMono
<1>4. Skew + Gap <= Late
  BY DEF TimingSound
<1> QED
  BY <1>1, <1>2, <1>3, <1>4, PoolAssumption, CacheAssumption

LEMMA InstallLease ==
    ASSUME TimingSound, TypeOK, FlightInv, LeaseInv,
           NEW h \in Holders, NEW w \in Slots, RefillInstall(h, w)
    PROVE  LeaseInv'
<1> DEFINE r == refill[h][w]
           id == makeLeaseID(h, r.nonce)
           x == Installed(id, r.row)
<1>1. /\ r \in Refill
      /\ r.nonce \in 0..MaxNonce
      /\ nonce \in [Holders -> 0..(MaxNonce + 1)]
      /\ r.nonce >= nonce[h]
      /\ r.pc = "gated"
      /\ r.row.state = "live"
  BY DEF TypeOK, RefillTypeOK, Refill, CellTypeOK, LeaseInv, RefillOK, Committed,
         RefillInstall
<1>2. id \in LeaseIds /\ id[1] = h /\ id[2] = r.nonce
  BY <1>1 DEF makeLeaseID, LeaseIds
<1>3. UNCHANGED <<now, lease, settle, net, skew>> /\ nonce' = [nonce EXCEPT ![h] = r.nonce + 1]
  BY DEF RefillInstall, poolVars, flagVars, NextNonce
<1>4. \A i \in LeaseIds : GivenUp(i)' <=> GivenUp(i)
  BY <1>3 DEF GivenUp
<1>5. \A g \in Holders : g # h => nonce'[g] = nonce[g]
  BY <1>1, <1>3
<1>6. nonce'[h] = r.nonce + 1
  BY <1>1, <1>3
<1>7. ASSUME NEW g \in Holders PROVE CachedOK(g)'
  <2>1. CASE g # h
    <3>1. KeepsChunks(g)
      BY <2>1, SameChunks DEF RefillInstall, TypeOK, CellTypeOK
    <3>2. \A i \in LeaseIds : RowKept(i)
      BY <1>3 DEF RowKept
    <3> QED
      BY <1>4, <1>5, <2>1, <3>1, <3>2, CachedFrame DEF LeaseInv
  <2>2. CASE g = h
    <3>1. ~GivenUp(id)
      BY <1>1, <1>2 DEF LeaseInv, GivenUpOK
    <3>2. lease[id].state # "none"
      BY <1>1 DEF LeaseInv, RefillOK
    <3>3. x.id = id
      BY DEF Installed
    <3>4. ASSUME NEW c \in Cached(h)'
          PROVE  c = x \/ c \in Cached(h)
      BY PromotedChunks, <3>4 DEF RefillInstall, Cached, TypeOK, CellTypeOK
    <3>5. ASSUME NEW c \in Cached(h)', c = x
          PROVE  /\ c.id[1] = h
                 /\ c.id[2] < nonce'[h]
                 /\ ~GivenUp(c.id)'
                 /\ lease'[c.id].state # "none"
                 /\ Ttl > 0 => c.deadline <= lease'[c.id].grantedMs + Ttl + Late
      <4>1. c.id = id
        BY <3>3, <3>5
      <4>2. c.id[1] = h /\ c.id[2] < nonce'[h]
        BY <1>1, <1>2, <1>6, <4>1
      <4>3. ~GivenUp(c.id)'
        BY <1>2, <1>4, <3>1, <4>1
      <4>4. lease' = lease
        BY <1>3
      <4>5. lease'[c.id].state # "none"
        BY <3>2, <4>1, <4>4
      <4>6. Ttl > 0 => c.deadline <= lease'[c.id].grantedMs + Ttl + Late
        BY <3>5, <4>1, <4>4, InstallDeadline
      <4> QED
        BY <4>2, <4>3, <4>5, <4>6
    <3>6. ASSUME NEW c \in Cached(h)', c \in Cached(h)
          PROVE  /\ c.id[1] = h
                 /\ c.id[2] < nonce'[h]
                 /\ ~GivenUp(c.id)'
                 /\ lease'[c.id].state # "none"
                 /\ Ttl > 0 => c.deadline <= lease'[c.id].grantedMs + Ttl + Late
      <4>1. c.id \in LeaseIds /\ c.id[2] \in 0..MaxNonce
        BY <3>6, CachedType
      <4>2. CachedOK(h)
        BY DEF LeaseInv
      <4> QED
        BY <1>1, <1>3, <1>4, <1>6, <3>6, <4>1, <4>2 DEF CachedOK
    <3> QED
      BY <2>2, <3>4, <3>5, <3>6 DEF CachedOK
  <2> QED
    BY <2>1, <2>2
<1>8. ASSUME NEW g \in Holders, NEW v \in Slots PROVE RefillOK(g, v)'
  <2>1. RefillBecomes(h, w, EndedRefill)
    BY DEF RefillInstall
  <2>2. CASE g = h
    <3>1. refill[h][w].pc # "idle"
      BY <1>1
    <3>2. v # w => refill[h][v].pc = "idle"
      BY <3>1 DEF FlightInv, FlightOK, InFlight
    <3>3. refill'[h][v].pc \in {"idle", "done"}
      BY <2>1, <3>2, RefillAt DEF TypeOK, EndedRefill, IdleRefill
    <3> QED
      BY <2>2, <3>3 DEF RefillOK, Committed
  <2>3. CASE g # h
    <3>1. refill'[g][v] = refill[g][v]
      BY <2>1, <2>3, RefillAt DEF TypeOK
    <3> QED
      BY <1>3, <1>5, <2>3, <3>1 DEF LeaseInv, RefillOK, Committed
  <2> QED
    BY <2>2, <2>3
<1>9. ASSUME NEW i \in LeaseIds PROVE GivenUpOK(i)' /\ ExpiryOK(i)'
  <2>1. i[1] \in Holders /\ i[2] \in 0..MaxNonce
    BY DEF LeaseIds
  <2>2. GivenUpOK(i) /\ ExpiryOK(i)
    BY DEF LeaseInv
  <2>3. GivenUpOK(i)'
    BY <1>1, <1>4, <1>5, <1>6, <2>1, <2>2 DEF GivenUpOK
  <2> QED
    BY <1>3, <2>2, <2>3 DEF ExpiryOK
<1> QED
  BY <1>7, <1>8, <1>9 DEF LeaseInv

\* Return takes a cell's chunks: they are given up, and no other cell has them.
LEMMA TakeLease ==
    ASSUME TypeOK, LeaseInv, NEW h \in Holders, ReturnTake(h)
    PROVE  LeaseInv'
<1>1. UNCHANGED <<now, lease, nonce, refill, skew, net>>
  BY DEF ReturnTake, poolVars, procVars
<1>2. settle' = [settle EXCEPT ![h] = Held(h)]
  BY DEF ReturnTake
<1>3. \A i \in 1..Len(Held(h)) : Held(h)[i] \in Cached(h)
  BY DEF Held, Cached
<1>4. ASSUME NEW id \in LeaseIds, GivenUp(id)'
      PROVE  GivenUp(id) \/ \E c \in Cached(h) : c.id = id
  <2>1. CASE lease'[id].state = "returned" \/ \E m \in net' : m.kind = "return" /\ m.id = id
    BY <1>1, <2>1 DEF GivenUp
  <2>2. ASSUME NEW g \in Holders, NEW i \in 1..Len(settle'[g]), settle'[g][i].id = id
        PROVE  GivenUp(id) \/ \E c \in Cached(h) : c.id = id
    <3>1. CASE g = h
      BY <1>2, <1>3, <2>2, <3>1 DEF TypeOK, FlagTypeOK
    <3>2. CASE g # h
      BY <1>2, <2>2, <3>2 DEF GivenUp, TypeOK, FlagTypeOK
    <3> QED
      BY <3>1, <3>2
  <2> QED
    BY <1>4, <2>1, <2>2 DEF GivenUp
<1>5. ASSUME NEW g \in Holders PROVE CachedOK(g)'
  <2>1. CASE g = h
    BY <2>1 DEF ReturnTake, CachedOK, Cached, TypeOK, CellTypeOK
  <2>2. CASE g # h
    <3>1. Cached(g)' = Cached(g)
      BY <2>2 DEF ReturnTake, Cached, TypeOK, CellTypeOK
    <3>2. ASSUME NEW c \in Cached(g) PROVE ~GivenUp(c.id)'
      <4>1. c.id \in LeaseIds /\ c.id[1] = g /\ ~GivenUp(c.id)
        BY CachedType DEF LeaseInv, CachedOK
      <4>2. \A b \in Cached(h) : b.id[1] = h
        BY DEF LeaseInv, CachedOK
      <4> QED
        BY <1>4, <2>2, <4>1, <4>2
    <3> QED
      BY <1>1, <3>1, <3>2 DEF LeaseInv, CachedOK
  <2> QED
    BY <2>1, <2>2
<1>6. \A g \in Holders, v \in Slots : RefillOK(g, v)'
  BY <1>1 DEF LeaseInv, RefillOK, Committed
<1>7. ASSUME NEW id \in LeaseIds PROVE GivenUpOK(id)' /\ ExpiryOK(id)'
  <2>1. \A c \in Cached(h) : c.id[1] = h /\ c.id[2] < nonce[h]
    BY DEF LeaseInv, CachedOK
  <2>2. GivenUpOK(id)'
    BY <1>1, <1>4, <2>1 DEF LeaseInv, GivenUpOK
  <2> QED
    BY <1>1, <2>2 DEF LeaseInv, ExpiryOK
<1> QED
  BY <1>5, <1>6, <1>7 DEF LeaseInv

\* A step of the server: rows keep their timing, refills waiting for an answer
\* see the row as it now is, and cells are left alone.
LEMMA DrawLease ==
    ASSUME TypeOK, TypeOK', LeaseInv, NEW m \in net, ServerDraw(m)
    PROVE  LeaseInv'
<1>1. m.id \in LeaseIds
  BY DEF TypeOK, Request
<1>2. ASSUME NEW id \in LeaseIds
      PROVE  /\ RowKept(id)
             /\ lease'[id].state \in {"returned", "expired"} =>
                  lease'[id].state = lease[id].state
  BY <1>1, GrantRows DEF ServerDraw, TypeOK
<1>3. /\ UNCHANGED <<now, nonce, skew, settle, cur, nxt>>
      /\ net' \subseteq net
  BY DEF ServerDraw, cellVars, flagVars
<1>4. Calm
  BY <1>2, <1>3 DEF Calm, GivenUp
<1>5. ASSUME NEW h \in Holders, NEW w \in Slots PROVE RefillOK(h, w)'
  <2> DEFINE r == refill[h][w]
  <2>1. r \in Refill /\ RefillOK(h, w)
    BY DEF TypeOK, RefillTypeOK, LeaseInv
  <2>2. CASE r.pc = "drawing" /\ makeLeaseID(h, r.nonce) = m.id
    <3> DEFINE row == lease'[m.id]
    <3> HIDE DEF row
    <3>1. refill'[h][w] = [r EXCEPT !.pc = "replied", !.row = row]
      BY <2>2 DEF ServerDraw, row
    <3>2. /\ refill'[h][w].pc = "replied"
          /\ refill'[h][w].nonce = r.nonce
          /\ refill'[h][w].row = row
      BY <2>1, <3>1 DEF Refill
    <3> QED
      BY <1>3, <2>1, <2>2, <3>2 DEF RefillOK, Committed, makeLeaseID, row
  <2>3. CASE ~(r.pc = "drawing" /\ makeLeaseID(h, r.nonce) = m.id)
    <3>1. refill'[h][w] = r
      BY <2>3 DEF ServerDraw
    <3> QED
      BY <1>2, <1>3, <2>1, <3>1, RefillFrame
  <2> QED
    BY <2>2, <2>3
<1> QED
  BY <1>3, <1>4, <1>5, CalmStep, SameChunks

LEMMA ReportLease ==
    ASSUME TypeOK, LeaseInv, NEW m \in net, ServerReport(m)
    PROVE  LeaseInv'
<1>1. m.id \in LeaseIds
  BY DEF TypeOK, Request
<1>2. ASSUME NEW id \in LeaseIds
      PROVE  RowKept(id) /\ lease'[id].state = lease[id].state
  BY <1>1, ReportRows DEF ServerReport, TypeOK
<1>3. /\ UNCHANGED <<now, nonce, skew, settle, cur, nxt>>
      /\ net' \subseteq net
  BY DEF ServerReport, cellVars, flagVars
<1>4. Calm
  BY <1>2, <1>3 DEF Calm, GivenUp
<1>5. ASSUME NEW h \in Holders, NEW w \in Slots PROVE RefillOK(h, w)'
  <2> DEFINE r == refill[h][w]
  <2>1. r \in Refill /\ RefillOK(h, w)
    BY DEF TypeOK, RefillTypeOK, LeaseInv
  <2>2. CASE refill'[h][w] = r
    BY <1>2, <1>3, <2>1, <2>2, RefillFrame
  <2>3. CASE r.pc = "reporting" /\ refill'[h][w] = [r EXCEPT !.pc = "reported"]
    <3>1. refill'[h][w].pc = "reported" /\ refill'[h][w].nonce = r.nonce
      BY <2>1, <2>3 DEF Refill
    <3> QED
      BY <1>3, <2>1, <2>3, <3>1 DEF RefillOK, Committed
  <2> QED
    BY <2>2, <2>3 DEF ServerReport
<1> QED
  BY <1>3, <1>4, <1>5, CalmStep, SameChunks

LEMMA ReturnLease ==
    ASSUME TypeOK, LeaseInv, NEW m \in net, ServerReturn(m)
    PROVE  LeaseInv'
<1>1. m.id \in LeaseIds /\ m.kind = "return"
  BY DEF TypeOK, Request, ServerReturn
<1>2. ASSUME NEW id \in LeaseIds
      PROVE  /\ RowKept(id)
             /\ lease'[id].state = "expired" => lease[id].state = "expired"
             /\ lease'[id].state = "returned" => lease[id].state = "returned" \/ id = m.id
  BY <1>1, ReturnRows DEF ServerReturn, TypeOK
<1>3. /\ UNCHANGED <<now, nonce, skew, settle, cur, nxt, refill>>
      /\ net' \subseteq net
  BY DEF ServerReturn, cellVars, flagVars, procVars
<1>4. Calm
  BY <1>1, <1>2, <1>3 DEF Calm, GivenUp
<1>5. ASSUME NEW h \in Holders, NEW w \in Slots PROVE RefillOK(h, w)'
  BY <1>2, <1>3, RefillFrame DEF LeaseInv
<1> QED
  BY <1>3, <1>4, <1>5, CalmStep, SameChunks

LEMMA ReclaimLease ==
    ASSUME TypeOK, LeaseInv, NEW i \in LeaseIds, Reclaim(i)
    PROVE  LeaseInv'
<1>1. ASSUME NEW id \in LeaseIds
      PROVE  /\ RowKept(id)
             /\ lease'[id].state = "returned" => lease[id].state = "returned"
             /\ lease'[id].state = "expired" =>
                  \/ lease[id].state = "expired"
                  \/ Ttl > 0 /\ now >= lease'[id].grantedMs + Ttl + Late
  BY ExpireRows DEF Reclaim, TypeOK
<1>2. UNCHANGED <<now, nonce, skew, settle, cur, nxt, refill, net>>
  BY DEF Reclaim, cellVars, flagVars, procVars
<1>3. \A id \in LeaseIds : GivenUp(id)' => GivenUp(id)
  BY <1>1, <1>2 DEF GivenUp
<1>4. \A h \in Holders : CachedOK(h)'
  BY <1>1, <1>2, <1>3, CachedFrame, SameChunks DEF LeaseInv
<1>5. ASSUME NEW h \in Holders, NEW w \in Slots PROVE RefillOK(h, w)'
  BY <1>1, <1>2, RefillFrame DEF LeaseInv
<1>6. \A id \in LeaseIds : GivenUpOK(id)'
  BY <1>2, <1>3 DEF LeaseInv, GivenUpOK
<1>7. \A id \in LeaseIds : ExpiryOK(id)'
  BY <1>1, <1>2 DEF LeaseInv, ExpiryOK, RowKept
<1> QED
  BY <1>4, <1>5, <1>6, <1>7 DEF LeaseInv

LEMMA NextLease ==
    TimingSound /\ TypeOK /\ TypeOK' /\ FlightInv /\ LeaseInv /\ [Next]_vars => LeaseInv'
<1> SUFFICES ASSUME TimingSound, TypeOK, TypeOK', FlightInv, LeaseInv, [Next]_vars
             PROVE  LeaseInv'
  OBVIOUS
<1>0. ASSUME UNCHANGED <<cur, nxt>> PROVE \A g \in Holders : KeepsChunks(g)
  BY <1>0, SameChunks
<1>1. ASSUME NEW h \in Holders, NEW t \in Spenders, SpendBegin(h, t)
      PROVE  LeaseInv'
  BY <1>1, Quiet DEF SpendBegin, poolVars, cellVars, flagVars
<1>2. ASSUME NEW h \in Holders, NEW t \in Spenders, SelfFence(h, t)
      PROVE  LeaseInv'
  <2>1. UNCHANGED <<now, lease, nonce, refill, settle, skew, net>>
    BY <1>2 DEF SelfFence, poolVars, flagVars
  <2>2. ASSUME NEW g \in Holders PROVE KeepsChunks(g)
    BY <1>2 DEF SelfFence, KeepsChunks, Cached, TypeOK, CellTypeOK
  <2>3. Calm
    BY <2>1, CalmRequests
  <2>4. \A g \in Holders, v \in Slots : RefillOK(g, v)'
    BY <2>1, RefillFrame DEF LeaseInv, RowKept
  <2> QED
    BY <2>2, <2>3, <2>4, CalmStep
<1>3. ASSUME NEW h \in Holders, NEW t \in Spenders, PaceOut(h, t)
      PROVE  LeaseInv'
  BY <1>3, Quiet DEF PaceOut, poolVars, cellVars, flagVars
<1>4. ASSUME NEW h \in Holders, NEW t \in Spenders, NEW n \in SpendSizes,
             SpendCached(h, t, n)
      PROVE  LeaseInv'
  <2>1. UNCHANGED <<now, lease, nonce, refill, settle, skew, net>>
    BY <1>4 DEF SpendCached, poolVars, flagVars
  <2>2. ASSUME NEW g \in Holders PROVE KeepsChunks(g)
    <3> DEFINE c == PromotedCur(cur[h], nxt[h])
               s == [c EXCEPT !.remaining = @ - n, !.spent = @ + n]
    <3>1. c \in LeaseChunk /\ c \in Cached(h)
      BY <1>4, ServedChunk DEF SpendCached, TypeOK, Cached
    <3>2. s.id = c.id /\ s.deadline = c.deadline
      BY <3>1 DEF LeaseChunk
    <3>3. /\ cur' = [cur EXCEPT ![h] = s]
          /\ nxt' = [nxt EXCEPT ![h] = PromotedNext(cur[h], nxt[h])]
      BY <1>4 DEF SpendCached
    <3> HIDE DEF c, s
    <3> QED
      BY <3>1, <3>2, <3>3, PromotedChunks DEF KeepsChunks, Cached, TypeOK, CellTypeOK
  <2>3. Calm
    BY <2>1, CalmRequests
  <2>4. \A g \in Holders, v \in Slots : RefillOK(g, v)'
    BY <2>1, RefillFrame DEF LeaseInv, RowKept
  <2> QED
    BY <2>2, <2>3, <2>4, CalmStep
<1>5. ASSUME NEW h \in Holders, NEW t \in Spenders, NEW n \in SpendSizes,
             SpendRefused(h, t, n)
      PROVE  LeaseInv'
  <2>1. UNCHANGED <<now, lease, nonce, refill, settle, skew, net>>
    BY <1>5 DEF SpendRefused, poolVars, flagVars
  <2>2. ASSUME NEW g \in Holders PROVE KeepsChunks(g)
    BY <1>5, PromotedChunks DEF SpendRefused, KeepsChunks, Cached, TypeOK, CellTypeOK
  <2>3. Calm
    BY <2>1, CalmRequests
  <2>4. \A g \in Holders, v \in Slots : RefillOK(g, v)'
    BY <2>1, RefillFrame DEF LeaseInv, RowKept
  <2> QED
    BY <2>2, <2>3, <2>4, CalmStep
<1>6. ASSUME NEW h \in Holders, NEW t \in Spenders, TriggerCheck(h, t)
      PROVE  LeaseInv'
  BY <1>6, Quiet DEF TriggerCheck, poolVars, cellVars, flagVars
<1>7. ASSUME NEW h \in Holders, NEW t \in Spenders, AlreadyRefilling(h, t)
      PROVE  LeaseInv'
  BY <1>7, Quiet DEF AlreadyRefilling, poolVars, cellVars, flagVars
<1>8. ASSUME NEW h \in Holders, NEW t \in Spenders, NEW w \in Slots,
             StartRefill(h, t, w)
      PROVE  LeaseInv'
  BY <1>0, <1>8, UncommittedOK, OnlyRefill
     DEF StartRefill, poolVars, cellVars
<1>9. ASSUME NEW h \in Holders, NEW w \in Slots, Acquire(h, w)
      PROVE  LeaseInv'
  BY <1>0, <1>9, UncommittedOK, OnlyRefill
     DEF Acquire, poolVars, cellVars
<1>10. ASSUME NEW h \in Holders, NEW w \in Slots, RefillNotNeeded(h, w)
      PROVE  LeaseInv'
  BY <1>0, <1>10, UncommittedOK, OnlyRefill
     DEF RefillNotNeeded, poolVars, cellVars, flagVars
<1>11. ASSUME NEW h \in Holders, NEW w \in Slots, RefillAttest(h, w)
      PROVE  LeaseInv'
  <2> DEFINE s == [refill[h][w] EXCEPT !.pc = "reporting",
                                      !.nonce = nonce[h],
                                      !.rep = [id |-> cur[h].id, spent |-> cur[h].spent]]
  <2>1. refill[h][w] \in Refill /\ nonce[h] \in 0..(MaxNonce + 1)
    BY DEF TypeOK, RefillTypeOK, CellTypeOK
  <2>2. s.pc = "reporting" /\ s.nonce >= nonce[h]
    BY <2>1, PoolAssumption DEF Refill
  <2>3. \A g \in Holders : KeepsChunks(g)
    BY <1>0, <1>11 DEF RefillAttest, cellVars
  <2>4. /\ RefillBecomes(h, w, s)
        /\ UNCHANGED <<now, lease, nonce, settle, skew>>
        /\ \A m \in net' : m \in net \/ m.kind # "return"
    BY <1>11 DEF RefillAttest, poolVars, cellVars, flagVars, ReportRequest
  <2> HIDE DEF s
  <2> QED
    BY <2>2, <2>3, <2>4, DrawingOK, OnlyRefill
<1>12. ASSUME NEW h \in Holders, NEW w \in Slots, RefillDraw(h, w)
      PROVE  LeaseInv'
  <2> DEFINE s == [refill[h][w] EXCEPT !.pc = "drawing", !.nonce = nonce[h]]
  <2>1. refill[h][w] \in Refill /\ nonce[h] \in 0..(MaxNonce + 1)
    BY DEF TypeOK, RefillTypeOK, CellTypeOK
  <2>2. s.pc = "drawing" /\ s.nonce >= nonce[h]
    BY <2>1, PoolAssumption DEF Refill
  <2>3. \A g \in Holders : KeepsChunks(g)
    BY <1>0, <1>12 DEF RefillDraw, cellVars
  <2>4. /\ RefillBecomes(h, w, s)
        /\ UNCHANGED <<now, lease, nonce, settle, skew>>
        /\ \A m \in net' : m \in net \/ m.kind # "return"
    BY <1>12 DEF RefillDraw, poolVars, cellVars, flagVars, DrawRequest
  <2> HIDE DEF s
  <2> QED
    BY <2>2, <2>3, <2>4, DrawingOK, OnlyRefill
<1>13. ASSUME NEW h \in Holders, NEW w \in Slots, RefillReported(h, w)
      PROVE  LeaseInv'
  <2> DEFINE s == [refill[h][w] EXCEPT !.pc = "drawing", !.rep = IdleRefill.rep]
  <2>1. refill[h][w] \in Refill /\ nonce[h] \in 0..(MaxNonce + 1)
    BY DEF TypeOK, RefillTypeOK, CellTypeOK
  <2>2. s.pc = "drawing" /\ s.nonce >= nonce[h]
    BY <1>13, <2>1 DEF RefillReported, LeaseInv, RefillOK, Committed, Refill
  <2>3. \A g \in Holders : KeepsChunks(g)
    BY <1>13 DEF RefillReported, KeepsChunks, Cached, TypeOK, CellTypeOK, LeaseChunk
  <2>4. /\ RefillBecomes(h, w, s)
        /\ UNCHANGED <<now, lease, nonce, settle, skew>>
        /\ \A m \in net' : m \in net \/ m.kind # "return"
    BY <1>13 DEF RefillReported, poolVars, flagVars, DrawRequest
  <2> HIDE DEF s
  <2> QED
    BY <2>2, <2>3, <2>4, DrawingOK, OnlyRefill
<1>14. ASSUME NEW h \in Holders, NEW w \in Slots, ReportFailed(h, w)
      PROVE  LeaseInv'
  <2> DEFINE s == [refill[h][w] EXCEPT !.pc = "drawing", !.rep = IdleRefill.rep]
  <2>1. refill[h][w] \in Refill /\ nonce[h] \in 0..(MaxNonce + 1)
    BY DEF TypeOK, RefillTypeOK, CellTypeOK
  <2>2. s.pc = "drawing" /\ s.nonce >= nonce[h]
    BY <1>14, <2>1 DEF ReportFailed, LeaseInv, RefillOK, Committed, Refill
  <2>3. \A g \in Holders : KeepsChunks(g)
    BY <1>0, <1>14 DEF ReportFailed, cellVars
  <2>4. /\ RefillBecomes(h, w, s)
        /\ UNCHANGED <<now, lease, nonce, settle, skew>>
        /\ \A m \in net' : m \in net \/ m.kind # "return"
    BY <1>14 DEF ReportFailed, poolVars, cellVars, flagVars, DrawRequest
  <2> HIDE DEF s
  <2> QED
    BY <2>2, <2>3, <2>4, DrawingOK, OnlyRefill
<1>15. ASSUME NEW h \in Holders, NEW w \in Slots, RefillSettled(h, w)
      PROVE  LeaseInv'
  BY <1>15, RedrawOK DEF RefillSettled, poolVars, cellVars, flagVars
<1>16. ASSUME NEW h \in Holders, NEW w \in Slots, RefillStale(h, w)
      PROVE  LeaseInv'
  BY <1>16, RedrawOK DEF RefillStale, poolVars, cellVars, flagVars
<1>17. ASSUME NEW h \in Holders, NEW w \in Slots, RefillGivesUp(h, w)
      PROVE  LeaseInv'
  BY <1>0, <1>17, UncommittedOK, OnlyRefill
     DEF RefillGivesUp, poolVars, cellVars, flagVars
<1>18. ASSUME NEW h \in Holders, NEW w \in Slots, RefillFresh(h, w)
      PROVE  LeaseInv'
  <2> DEFINE r == refill[h][w]
             s == [r EXCEPT !.pc = "gated", !.gatedAt = now]
  <2>1. r \in Refill /\ RefillOK(h, w) /\ now \in Nat
    BY DEF TypeOK, RefillTypeOK, PoolTypeOK, LeaseInv
  <2>2. /\ r.pc = "replied"
        /\ r.row.state = "live"
        /\ Ttl > 0 => now + skew[h] - r.row.grantedMs <= Guard
    BY <1>18, <2>1, CacheAssumption DEF RefillFresh, Stale, wallNow, TypeOK, Refill, Row
  <2>3. RefillBecomes(h, w, s) /\ UNCHANGED <<now, lease, cur, nxt, nonce, settle, skew, net>>
    BY <1>18 DEF RefillFresh, poolVars, cellVars, flagVars
  <2>4. refill'[h][w] = s
    BY <2>3, RefillAt DEF TypeOK
  <2>5. s.pc = "gated" /\ s.gatedAt = now /\ s.nonce = r.nonce /\ s.row = r.row
    BY <2>1 DEF Refill
  <2> HIDE DEF s
  <2>6. RefillOK(h, w)'
    BY <2>1, <2>2, <2>3, <2>4, <2>5, CacheAssumption DEF RefillOK, Committed, makeLeaseID
  <2> QED
    BY <1>0, <2>3, <2>6, OnlyRefill
<1>19. ASSUME NEW h \in Holders, NEW w \in Slots, RefillInstall(h, w)
      PROVE  LeaseInv'
  BY <1>19, InstallLease
<1>20. ASSUME NEW h \in Holders, NEW w \in Slots, RefillDone(h, w)
      PROVE  LeaseInv'
  BY <1>0, <1>20, UncommittedOK, OnlyRefill
     DEF RefillDone, poolVars, cellVars
<1>21. ASSUME NEW h \in Holders, ReturnBegin(h)
      PROVE  LeaseInv'
  BY <1>21, Quiet DEF ReturnBegin, poolVars, cellVars, procVars
<1>22. ASSUME NEW h \in Holders, ReturnTake(h)
      PROVE  LeaseInv'
  BY <1>22, TakeLease
<1>23. ASSUME NEW h \in Holders, ReturnCall(h)
      PROVE  LeaseInv'
  <2>1. UNCHANGED <<now, lease, cur, nxt, nonce, refill, skew>>
    BY <1>23 DEF ReturnCall, poolVars, cellVars, procVars
  <2>2. ASSUME NEW id \in LeaseIds, GivenUp(id)' PROVE GivenUp(id)
    <3>1. Head(settle[h]) = settle[h][1] /\ 1 \in 1..Len(settle[h])
      BY <1>23 DEF ReturnCall, TypeOK, FlagTypeOK
    <3>2. net' = net \cup {ReturnRequest(settle[h][1].id, FinalSpend(settle[h][1]))}
      BY <1>23, <3>1 DEF ReturnCall
    <3>3. \A m \in net' : m.kind = "return" /\ m.id = id =>
            GivenUp(id)
      BY <3>1, <3>2 DEF ReturnRequest, GivenUp
    <3>4. UNCHANGED <<lease, settle>>
      BY <1>23 DEF ReturnCall, poolVars
    <3> QED
      BY <2>2, <3>3, <3>4 DEF GivenUp
  <2>3. Calm
    BY <2>1, <2>2 DEF Calm, RowKept
  <2>4. \A g \in Holders, v \in Slots : RefillOK(g, v)'
    BY <2>1, RefillFrame DEF LeaseInv, RowKept
  <2> QED
    BY <1>0, <2>1, <2>3, <2>4, CalmStep
<1>24. ASSUME NEW h \in Holders, ReturnNext(h)
      PROVE  LeaseInv'
  <2>1. UNCHANGED <<now, lease, cur, nxt, nonce, refill, skew>>
    BY <1>24 DEF ReturnNext, poolVars, cellVars, procVars
  <2>2. ASSUME NEW id \in LeaseIds, GivenUp(id)' PROVE GivenUp(id)
    <3>1. settle[h] \in Seq(LeaseChunk) /\ settle[h] # << >>
      BY <1>24 DEF ReturnNext, TypeOK, FlagTypeOK
    <3>2. \A i \in 1..Len(Tail(settle[h])) :
            /\ i + 1 \in 1..Len(settle[h])
            /\ Tail(settle[h])[i] = settle[h][i + 1]
      BY <3>1
    <3>3. settle' = [settle EXCEPT ![h] = Tail(settle[h])] /\ UNCHANGED <<lease, net>>
      BY <1>24 DEF ReturnNext, poolVars
    <3>4. ASSUME NEW g \in Holders, NEW i \in 1..Len(settle'[g]), settle'[g][i].id = id
          PROVE  GivenUp(id)
      <4>1. CASE g = h
        BY <3>2, <3>3, <3>4, <4>1 DEF GivenUp, TypeOK, FlagTypeOK
      <4>2. CASE g # h
        BY <3>3, <3>4, <4>2 DEF GivenUp, TypeOK, FlagTypeOK
      <4> QED
        BY <4>1, <4>2
    <3> QED
      BY <2>2, <3>3, <3>4 DEF GivenUp
  <2>3. Calm
    BY <2>1, <2>2 DEF Calm, RowKept
  <2>4. \A g \in Holders, v \in Slots : RefillOK(g, v)'
    BY <2>1, RefillFrame DEF LeaseInv, RowKept
  <2> QED
    BY <1>0, <2>1, <2>3, <2>4, CalmStep
<1>25. ASSUME NEW h \in Holders, ReturnEnd(h)
      PROVE  LeaseInv'
  BY <1>25, Quiet DEF ReturnEnd, poolVars, cellVars, procVars
<1>26. ASSUME NEW m \in net, ServerDraw(m)
      PROVE  LeaseInv'
  BY <1>26, DrawLease
<1>27. ASSUME NEW m \in net, ServerReport(m)
      PROVE  LeaseInv'
  BY <1>27, ReportLease
<1>28. ASSUME NEW m \in net, ServerReturn(m)
      PROVE  LeaseInv'
  BY <1>28, ReturnLease
<1>29. ASSUME NEW id \in LeaseIds, Reclaim(id)
      PROVE  LeaseInv'
  BY <1>29, ReclaimLease
<1>30. ASSUME NEW acked \in 0..Cap, ControllerReconcile(acked)
      PROVE  LeaseInv'
  BY <1>30, Quiet DEF ControllerReconcile, poolVars, cellVars, flagVars, procVars
<1>33. ASSUME NEW c \in calls, ServerReconcile(c)
      PROVE  LeaseInv'
  BY <1>33, Quiet DEF ServerReconcile, Reconcile, cellVars, flagVars, procVars
<1>31. ASSUME Tick
      PROVE  LeaseInv'
  <2>1. /\ now' = now + 1 /\ now \in Nat
        /\ UNCHANGED <<lease, cur, nxt, nonce, settle, refill, skew, net>>
    BY <1>31 DEF Tick, poolVars, cellVars, flagVars, procVars, TypeOK, PoolTypeOK
  <2>2. \A id \in LeaseIds : GivenUp(id)' <=> GivenUp(id)
    BY <2>1 DEF GivenUp
  <2>3. \A g \in Holders : CachedOK(g)'
    BY <2>1, <2>2, CachedFrame, SameChunks DEF LeaseInv, RowKept
  <2>4. ASSUME NEW g \in Holders, NEW v \in Slots PROVE RefillOK(g, v)'
    <3>1. RefillOK(g, v) /\ refill[g][v].gatedAt \in Nat
      BY DEF LeaseInv, TypeOK, RefillTypeOK, Refill
    <3>2. refill[g][v].pc = "gated" => now' <= refill[g][v].gatedAt + Gap
      BY <1>31, <2>1, <3>1, CacheAssumption DEF Tick
    <3> QED
      BY <2>1, <3>1, <3>2 DEF RefillOK, Committed, makeLeaseID
  <2>5. ASSUME NEW id \in LeaseIds PROVE GivenUpOK(id)' /\ ExpiryOK(id)'
    <3>1. lease[id].grantedMs \in Nat
      BY DEF TypeOK, PoolTypeOK, Row
    <3> QED
      BY <2>1, <2>2, <3>1, PoolAssumption DEF LeaseInv, GivenUpOK, ExpiryOK
  <2> QED
    BY <2>3, <2>4, <2>5 DEF LeaseInv
<1>32. CASE UNCHANGED vars
  BY <1>32, Quiet DEF vars, poolVars, cellVars, flagVars, procVars
<1> QED
  BY <1>1, <1>2, <1>3, <1>4, <1>5, <1>6, <1>7, <1>8, <1>9, <1>10, <1>11, <1>12, <1>13, <1>14, <1>15, <1>16, <1>17, <1>18, <1>19, <1>20, <1>21, <1>22, <1>23, <1>24, <1>25, <1>26, <1>27, <1>28, <1>29, <1>30, <1>31, <1>32, <1>33
     DEF Next, SpendStep, RefillStep, ReturnStep

LEMMA LeaseInvariant == TimingSound => (Spec => []LeaseInv)
<1> SUFFICES ASSUME TimingSound PROVE Spec => []LeaseInv
  OBVIOUS
<1>1. TypeOK /\ TypeOK' /\ FlightInv /\ LeaseInv /\ [Next]_vars => LeaseInv'
  BY NextLease
<1> QED
  BY <1>1, InitLease, InitFlight, NextFlight, TypeCorrect, PTL DEF Spec

LEMMA LeaseInvImplies ==
    ASSUME TimingSound, TypeOK, LeaseInv PROVE SpendableIsLive
<1> SUFFICES ASSUME NEW h \in Holders, NEW c \in Cached(h), nowMono < c.deadline
             PROVE  IsLive(c.id)
  BY DEF SpendableIsLive
<1>1. c \in LeaseChunk /\ c.id \in LeaseIds
  BY CachedType
<1>2. Ttl > 0 => now < c.deadline
  BY DEF TimingSound, nowMono
<1>3. CachedOK(h) /\ ExpiryOK(c.id)
  BY <1>1 DEF LeaseInv
<1>4. lease[c.id] \in Row /\ now \in Nat /\ c.deadline \in Int
  BY <1>1 DEF TypeOK, PoolTypeOK, LeaseChunk
<1>5. lease[c.id].state \notin {"none", "returned"}
  BY <1>3 DEF CachedOK, GivenUp
<1>6. lease[c.id].state # "expired"
  BY <1>2, <1>3, <1>4, PoolAssumption DEF CachedOK, ExpiryOK, Row
<1> QED
  BY <1>4, <1>5, <1>6 DEF IsLive, Row

\* If the budget is untimed, or the clock can be read and clock skew plus a pause
\* between the freshness gate and the install is within the grantor's lateness, then
\* a cached chunk before its deadline is always backed by a live lease, whatever is
\* lost, late, paused or crashed (leasedbudget.go:19-24).
THEOREM StopsEarly == TimingSound => (Spec => []SpendableIsLive)
<1> SUFFICES ASSUME TimingSound PROVE Spec => []SpendableIsLive
  OBVIOUS
<1>1. TypeOK /\ LeaseInv => SpendableIsLive
  BY LeaseInvImplies
<1> QED
  BY <1>1, LeaseInvariant, TypeCorrect, PTL

LEMMA ServesLive ==
    ASSUME TypeOK, SpendableIsLive, NEW h \in Holders, NEW t \in Spenders,
           NEW n \in SpendSizes, SpendCached(h, t, n), NEW id \in LeaseIds,
           served'[id] # served[id]
    PROVE  IsLive(id)
<1> DEFINE c == PromotedCur(cur[h], nxt[h])
<1>1. c # NoChunk /\ c \in Cached(h) /\ c \in LeaseChunk
  BY ServedChunk DEF SpendCached, TypeOK, Cached
<1>2. id = c.id
  BY DEF SpendCached, TypeOK
<1>3. ~(nowMono >= c.deadline)
  BY <1>1 DEF PromotedCur, Kept
<1>4. nowMono < c.deadline
  BY <1>1, <1>3 DEF LeaseChunk, nowMono, TypeOK, PoolTypeOK
<1> QED
  BY <1>1, <1>2, <1>4 DEF SpendableIsLive

\* A step that changes what was served is a spend from the cache.
LEMMA OnlySpendServes ==
    ASSUME [Next]_vars, served' # served
    PROVE  \E h \in Holders, t \in Spenders, n \in SpendSizes :
             SpendCached(h, t, n)
<1>1. Next
  BY DEF vars
<1>2. ASSUME NEW h \in Holders, NEW t \in Spenders, SpendStep(h, t)
      PROVE  \E n \in SpendSizes : SpendCached(h, t, n)
  <2>1. ~SpendBegin(h, t) /\ ~SelfFence(h, t) /\ ~PaceOut(h, t)
    BY DEF SpendBegin, SelfFence, PaceOut
  <2>2. \A n \in SpendSizes : ~SpendRefused(h, t, n)
    BY DEF SpendRefused
  <2>3. ~TriggerCheck(h, t) /\ ~AlreadyRefilling(h, t)
    BY DEF TriggerCheck, AlreadyRefilling
  <2>4. \A w \in Slots : ~StartRefill(h, t, w)
    BY DEF StartRefill
  <2> QED
    BY <1>2, <2>1, <2>2, <2>3, <2>4 DEF SpendStep
<1>3. ASSUME NEW h \in Holders, NEW w \in Slots PROVE ~Acquire(h, w)
  BY DEF Acquire
<1>4. ASSUME NEW h \in Holders, NEW w \in Slots PROVE ~RefillStep(h, w)
  <2>1. ~RefillNotNeeded(h, w) /\ ~RefillAttest(h, w) /\ ~RefillDraw(h, w)
    BY DEF RefillNotNeeded, RefillAttest, RefillDraw
  <2>2. ~RefillReported(h, w) /\ ~ReportFailed(h, w)
    BY DEF RefillReported, ReportFailed
  <2>3. ~RefillSettled(h, w) /\ ~RefillStale(h, w) /\ ~RefillGivesUp(h, w)
    BY DEF RefillSettled, RefillStale, RefillGivesUp
  <2>4. ~RefillFresh(h, w) /\ ~RefillInstall(h, w) /\ ~RefillDone(h, w)
    BY DEF RefillFresh, RefillInstall, RefillDone
  <2> QED
    BY <2>1, <2>2, <2>3, <2>4 DEF RefillStep
<1>5. ASSUME NEW h \in Holders PROVE ~(ReturnBegin(h) \/ ReturnStep(h))
  BY DEF ReturnBegin, ReturnStep, ReturnTake, ReturnCall, ReturnNext, ReturnEnd
<1>6. ASSUME NEW m \in net
      PROVE  ~(ServerDraw(m) \/ ServerReport(m) \/ ServerReturn(m))
  BY DEF ServerDraw, ServerReport, ServerReturn
<1>7. \A id \in LeaseIds : ~Reclaim(id)
  BY DEF Reclaim
<1>8. /\ \A acked \in 0..Cap : ~ControllerReconcile(acked)
      /\ \A c \in calls : ~ServerReconcile(c)
  BY DEF ControllerReconcile, ServerReconcile
<1>9. ~Tick
  BY DEF Tick
<1> QED
  BY <1>1, <1>2, <1>3, <1>4, <1>5, <1>6, <1>7, <1>8, <1>9 DEF Next

\* Under the same hypothesis no unit is ever served from a lease that was
\* reclaimed, returned or never granted.
THEOREM NeverServesStale == TimingSound => (Spec => ServesOnlyLive)
<1> SUFFICES ASSUME TimingSound PROVE Spec => ServesOnlyLive
  OBVIOUS
<1>1. TypeOK /\ SpendableIsLive /\ [Next]_vars =>
        [\A id \in LeaseIds : served'[id] # served[id] => IsLive(id)]_vars
  <2> SUFFICES ASSUME TypeOK, SpendableIsLive, [Next]_vars, NEW id \in LeaseIds,
                      served'[id] # served[id]
               PROVE  IsLive(id)
    OBVIOUS
  <2>1. PICK h \in Holders, t \in Spenders, n \in SpendSizes : SpendCached(h, t, n)
    BY OnlySpendServes
  <2> QED
    BY <2>1, ServesLive
<1> QED
  BY <1>1, StopsEarly, TypeCorrect, PTL DEF Spec, ServesOnlyLive

=============================================================================
