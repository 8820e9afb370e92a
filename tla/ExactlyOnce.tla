---------------------------- MODULE ExactlyOnce ----------------------------
(***************************************************************************)
(* What an idempotency key promises (collections.go, "a retry applies      *)
(* exactly once and returns the original result"): each write takes effect *)
(* at most once, and is answered with the result of its own effect.        *)
(***************************************************************************)
EXTENDS Sequences, Functions

CONSTANT Writes

VARIABLES
    log,       \* the writes that took effect, in order
    result     \* what the caller of each was told; 0 is nothing yet

vars == <<log, result>>

Init == log = << >> /\ result = [w \in Writes |-> 0]

TakeEffect(w) ==
    /\ w \notin Range(log)
    /\ log' = Append(log, w)
    /\ UNCHANGED result

\* The result of a write is its place among the effects.
Answer(w) ==
    /\ result[w] = 0
    /\ \E i \in DOMAIN log : log[i] = w /\ result' = [result EXCEPT ![w] = i]
    /\ UNCHANGED log

Next == \E w \in Writes : TakeEffect(w) \/ Answer(w)

Spec == Init /\ [][Next]_vars

=============================================================================
