------------------------------- MODULE Escrow -------------------------------
(***************************************************************************)
(* What a STRICT budget promises whoever spends from it, with no mention   *)
(* of leases, clocks or messages.  A unit of the cap is free, held for a   *)
(* spender, or consumed.  A unit must be held before it is consumed, and   *)
(* consumed plus held never exceeds the cap.                               *)
(***************************************************************************)
EXTENDS Integers

CONSTANT Cap

VARIABLES consumed, held

Init == consumed = 0 /\ held = 0

\* Units are set aside for a spender, while the cap has room for them.
Allot == \E k \in 1..Cap :
    /\ consumed + held + k <= Cap
    /\ held' = held + k
    /\ UNCHANGED consumed

\* Held units are spent.
Consume == \E k \in 1..Cap :
    /\ k <= held
    /\ held' = held - k
    /\ consumed' = consumed + k

\* Held units are given up: returned, or reclaimed from a lost spender.
Release == \E k \in 1..Cap :
    /\ k <= held
    /\ held' = held - k
    /\ UNCHANGED consumed

Next == Allot \/ Consume \/ Release

Spec == Init /\ [][Next]_<<consumed, held>>

=============================================================================
