------------------------------ MODULE RefillIds ------------------------------
(***************************************************************************)
(* The lease ids one cell draws under, over all its refills (refillOnce):  *)
(* can a refill come to nothing for ever?                                  *)
(*                                                                         *)
(* LeasedBudget follows every refill to its end; here only its ids matter, *)
(* and there is no last one.  Id i stands for the nonce of the cell plus   *)
(* i, so that an install, which moves the nonce past its id, moves all     *)
(* others down.  The budget is timed and the clocks agree.  Until the      *)
(* network is calm, draws are slow, lost or executed late; from then on    *)
(* each is answered, with capacity, and gated within self_guard.  Between  *)
(* the gate, which holds no lock, and the install the refill may always    *)
(* pause for as long as it likes.                                          *)
(***************************************************************************)
EXTENDS Integers

CONSTANTS
    MaxAttempts,  \* maxRefillAttempts
    Guard,        \* self_guard echoed by the server
    ReclaimAge    \* age at which the grantor reclaims a lease

ASSUME IdsAssumption ==
    /\ MaxAttempts \in Nat \ {0}
    /\ Guard \in Nat
    /\ ReclaimAge \in Nat
    /\ Guard < ReclaimAge

VARIABLES
    cached,    \* whether the cell has the chunk a refill is for
    pc,        \* where the refill is
    attempt,   \* turn of the redraw loop, and so the id it draws
    answer,    \* state of the lease as the server's reply has it
    aged,      \* time since the grant the reply tells of, up to ReclaimAge
    wait,      \* time since the draw was sent, up to Guard
    row,       \* the server's lease of each id
    age,       \* time since its grant, up to ReclaimAge
    net,       \* draws the server has not taken
    calm       \* the network answers in time from now on

vars == <<cached, pc, attempt, answer, aged, wait, row, age, net, calm>>

Ids == 0..(MaxAttempts - 1)

TypeOK ==
    /\ cached \in BOOLEAN
    /\ pc \in {"idle", "drawing", "replied", "gated"}
    /\ attempt \in Ids
    /\ answer \in {"none", "live", "settled"}
    /\ aged \in 0..ReclaimAge
    /\ wait \in 0..Guard
    /\ row \in [Ids -> {"none", "live", "settled"}]
    /\ age \in [Ids -> 0..ReclaimAge]
    /\ net \subseteq Ids
    /\ calm \in BOOLEAN

Init ==
    /\ cached = FALSE
    /\ pc = "idle"
    /\ attempt = 0
    /\ answer = "none"
    /\ aged = 0
    /\ wait = 0
    /\ row = [i \in Ids |-> "none"]
    /\ age = [i \in Ids |-> 0]
    /\ net = {}
    /\ calm = FALSE

-----------------------------------------------------------------------------
(* The refill *)

\* The draw of id i is sent.
Draw(i) ==
    /\ pc' = "drawing"
    /\ attempt' = i
    /\ answer' = "none"
    /\ aged' = 0
    /\ wait' = 0
    /\ net' = net \cup {i}

\* The refill goroutine ends.
End ==
    /\ pc' = "idle"
    /\ attempt' = 0
    /\ answer' = "none"
    /\ aged' = 0
    /\ wait' = 0

\* A Spend or Acquire finds too little cached.  The loop starts at the nonce of the
\* cell, whatever the refills before have drawn.
Begin ==
    /\ pc = "idle"
    /\ ~cached
    /\ Draw(0)
    /\ UNCHANGED <<cached, row, age, calm>>

\* Mutant of TooOld: a grant that took exactly self_guard is rejected.
TooOldEarly == aged >= Guard

\* Mutant of TooOld: no gate.
TooOldNever == FALSE

\* The freshness gate, on the granted_ms of the reply.
TooOld == aged > Guard

\* Mutant of LastAttempt: one attempt too many.
LastAttemptLate(i) == i + 1 > MaxAttempts

LastAttempt(i) == i + 1 >= MaxAttempts

\* The id is tombstoned or its grant is stale: the next id, or the end.
Reject ==
    /\ pc = "replied"
    /\ answer = "settled" \/ TooOld
    /\ IF LastAttempt(attempt) THEN End /\ UNCHANGED net ELSE Draw(attempt + 1)
    /\ UNCHANGED <<cached, row, age, calm>>

\* The grant is fresh.  No lock is held yet.
Pass ==
    /\ pc = "replied"
    /\ answer = "live"
    /\ ~TooOld
    /\ pc' = "gated"
    /\ UNCHANGED <<cached, attempt, answer, aged, wait, row, age, net, calm>>

\* The chunk is cached, whatever has become of its lease since the gate, and the
\* nonce moves past its id.
Install ==
    LET moved(i) == i + attempt + 1 IN
    /\ pc = "gated"
    /\ cached' = TRUE
    /\ row' = [i \in Ids |-> IF moved(i) \in Ids THEN row[moved(i)] ELSE "none"]
    /\ age' = [i \in Ids |-> IF moved(i) \in Ids THEN age[moved(i)] ELSE 0]
    /\ net' = {i \in Ids : moved(i) \in net}
    /\ End
    /\ UNCHANGED calm

\* The draw fails, times out, or finds no capacity.
GiveUp ==
    /\ ~calm
    /\ pc \in {"drawing", "replied"}
    /\ End
    /\ UNCHANGED <<cached, row, age, net, calm>>

\* The chunk is spent, past its deadline, or dropped by the fence.
Drain ==
    /\ cached
    /\ cached' = FALSE
    /\ UNCHANGED <<pc, attempt, answer, aged, wait, row, age, net, calm>>

-----------------------------------------------------------------------------
(* The server, the grantor and time *)

\* The server takes a draw: a new id is granted, a known one answered as it is.
ServerDraw(i) ==
    LET state == IF row[i] = "none" THEN "live" ELSE row[i] IN
    /\ i \in net
    /\ net' = net \ {i}
    /\ row' = [row EXCEPT ![i] = state]
    /\ IF pc = "drawing" /\ attempt = i
       THEN pc' = "replied" /\ answer' = state /\ aged' = age[i]
       ELSE UNCHANGED <<pc, answer, aged>>
    /\ UNCHANGED <<cached, attempt, wait, age, calm>>

\* The grantor reclaims a lease.
Expire(i) ==
    /\ row[i] = "live"
    /\ age[i] = ReclaimAge
    /\ row' = [row EXCEPT ![i] = "settled"]
    /\ UNCHANGED <<cached, pc, attempt, answer, aged, wait, age, net, calm>>

\* External: past its dedup window a tombstone is collected, and its id is as new,
\* also while a refill still has the answer to it in hand.
Forget(i) ==
    /\ row[i] = "settled"
    /\ row' = [row EXCEPT ![i] = "none"]
    /\ age' = [age EXCEPT ![i] = 0]
    /\ UNCHANGED <<cached, pc, attempt, answer, aged, wait, net, calm>>

\* One time unit older, up to the age at which it no longer matters.
Older(a) == IF a < ReclaimAge THEN a + 1 ELSE a

Tick ==
    /\ calm /\ pc \in {"drawing", "replied"} => wait < Guard
    /\ age' = [i \in Ids |-> IF row[i] = "live" THEN Older(age[i]) ELSE age[i]]
    /\ aged' = IF pc = "replied" THEN Older(aged) ELSE aged
    /\ wait' = IF pc \in {"drawing", "replied"} /\ wait < Guard THEN wait + 1 ELSE wait
    /\ UNCHANGED <<cached, pc, attempt, answer, row, net, calm>>

BecomeCalm ==
    /\ ~calm
    /\ calm' = TRUE
    /\ UNCHANGED <<cached, pc, attempt, answer, aged, wait, row, age, net>>

-----------------------------------------------------------------------------

Next ==
    \/ Begin
    \/ Reject
    \/ Pass
    \/ Install
    \/ GiveUp
    \/ Drain
    \/ \E i \in Ids : ServerDraw(i) \/ Expire(i) \/ Forget(i)
    \/ Tick
    \/ BecomeCalm

\* Callers go on spending and the refill goroutine runs; a calm network delivers
\* the draw that is waited for.  Nothing is assumed of time, of draws given up, or
\* of when the server forgets.
Spec ==
    /\ Init
    /\ [][Next]_vars
    /\ WF_vars(Begin)
    /\ WF_vars(Reject)
    /\ WF_vars(Pass)
    /\ WF_vars(Install)
    /\ WF_vars(calm /\ ServerDraw(attempt))

\* An id within reach of the redraw loop that was never drawn.
Spare == \E i \in Ids : row[i] = "none" /\ i \notin net

\* Stale grants and tombstones cost a refill its turns, not the cell its chunk:
\* while the loop can reach an unused id, a cell on a calm network is refilled
\* (leasedbudget.go:456-475: "redraw with a fresh nonce").
RefillsWhileSpare == calm /\ Spare ~> cached

\* What the gate passes is backed by a lease the grantor has not reclaimed at that
\* moment: the reply may wait for its gate while time goes on and its id is reclaimed,
\* forgotten and granted again, and is refused before its lease can be gone
\* (leasedbudget.go:469-475).  Of the install that follows nothing is said.
GatePassesLive ==
    [][pc # "gated" /\ pc' = "gated" => row[attempt] = "live" /\ age[attempt] = aged]_vars

=============================================================================
