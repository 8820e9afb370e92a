---------------------------- MODULE KeyedWrites ----------------------------
(***************************************************************************)
(* Writes with and without an idempotency key, and their retries: the      *)
(* sub-clients of collections.go and budget.go, which carry a key, and the *)
(* options of Put and Delete (options.go, kv.go), which do the same for    *)
(* one call.                                                               *)
(*                                                                         *)
(* Each logical write is a process: its caller sends it, waits, and may    *)
(* give up waiting and send it again, while the request, or its answer, is *)
(* still on its way or was lost.  All callers share one sub-client.        *)
(*                                                                         *)
(* The server is the environment: it applies requests in any order, once   *)
(* each, and one whose key it has seen not at all, answering as it did the *)
(* first time.                                                             *)
(***************************************************************************)
EXTENDS Integers, Sequences

CONSTANTS
    Writes,        \* the logical writes
    BulkRemoves,   \* those that are a BulkRemove
    Shared,        \* the sub-client of Client.Collections, used by all
    NoKey,         \* the nil IdempotencyKey
    MaxSends       \* a bound: how often a write is sent

ASSUME KeyAssumption ==
    /\ BulkRemoves \subseteq Writes
    /\ Shared \notin Writes
    /\ NoKey \notin Writes
    /\ MaxSends \in Nat

\* The sub-client made for a write is named after it.
Handles == Writes \cup {Shared}

\* "Use a fresh key per logical write": the key of a write is the write itself.
Keys == Writes

VARIABLES
    idem,          \* the key each sub-client carries
    via,           \* the sub-client each write is made with
    stage,         \* where the caller of each write is
    sends,         \* how often each was sent
    net,           \* requests on their way or lost
    answers,       \* answers on their way or lost
    seen,          \* server: the result it gave for each key; 0 is none
    log,           \* server: the writes applied, in order
    result         \* the result each caller was given; 0 is none

callerVars == <<idem, via, stage, sends, result>>
serverVars == <<seen, log>>
vars == <<callerVars, net, answers, serverVars>>

-----------------------------------------------------------------------------

Requests == [write : Writes, key : Keys \cup {NoKey}, send : 1..MaxSends]

TypeOK ==
    /\ idem \in [Handles -> Keys \cup {NoKey}]
    /\ via \in [Writes -> Handles]
    /\ stage \in [Writes -> {"new", "ready", "calling", "failed", "done"}]
    /\ sends \in [Writes -> 0..MaxSends]
    /\ net \subseteq Requests
    /\ answers \subseteq [write : Writes, send : 1..MaxSends, result : Nat \ {0}]
    /\ seen \in [Keys -> Nat]
    /\ log \in Seq(Writes)
    /\ result \in [Writes -> Nat]

Init ==
    /\ idem = [h \in Handles |-> NoKey]
    /\ via = [w \in Writes |-> Shared]
    /\ stage = [w \in Writes |-> "new"]
    /\ sends = [w \in Writes |-> 0]
    /\ net = {}
    /\ answers = {}
    /\ seen = [k \in Keys |-> 0]
    /\ log = << >>
    /\ result = [w \in Writes |-> 0]

-----------------------------------------------------------------------------
(* The sub-clients *)

\* Mutant of Clone: the sub-client it was asked of is changed and returned.
CloneInPlace(w) == Shared

\* The sub-client WithIdempotencyKey sets the key on and returns: a copy.
Clone(w) == w

WithIdempotencyKey(w) ==
    /\ stage[w] = "new"
    /\ idem' = [idem EXCEPT ![Clone(w)] = w]
    /\ via' = [via EXCEPT ![w] = Clone(w)]
    /\ stage' = [stage EXCEPT ![w] = "ready"]
    /\ UNCHANGED <<sends, result, net, answers, serverVars>>

WithoutKey(w) ==
    /\ stage[w] = "new"
    /\ stage' = [stage EXCEPT ![w] = "ready"]
    /\ UNCHANGED <<idem, via, sends, result, net, answers, serverVars>>

\* Mutant of idemPtr: the key never reaches the request.
idemPtrNil(w) == NoKey

\* Mutant of idemPtr: a pointer to the empty key where nil is meant.
idemPtrEmpty(w) == IF idem[via[w]] = NoKey THEN "" ELSE idem[via[w]]

\* The key a request carries: a BulkRemove has no field for one.
idemPtr(w) == IF w \in BulkRemoves THEN NoKey ELSE idem[via[w]]

-----------------------------------------------------------------------------
(* A call.  A write is sent again only if it was made with a key that its *)
(* request has room for: the callers' part of the promise.                 *)

Send(w) ==
    /\ \/ stage[w] = "ready"
       \/ stage[w] = "failed" /\ via[w] # Shared /\ w \notin BulkRemoves
    /\ sends[w] < MaxSends
    /\ sends' = [sends EXCEPT ![w] = @ + 1]
    /\ net' = net \cup {[write |-> w, key |-> idemPtr(w), send |-> sends[w] + 1]}
    /\ stage' = [stage EXCEPT ![w] = "calling"]
    /\ UNCHANGED <<idem, via, result, answers, serverVars>>

\* The call ends in an error, of which its caller learns nothing: its context
\* is over or its connection breaks.
CallFails(w) ==
    /\ stage[w] = "calling"
    /\ stage' = [stage EXCEPT ![w] = "failed"]
    /\ UNCHANGED <<idem, via, sends, result, net, answers, serverVars>>

\* An answer reaches the call it belongs to; those of earlier calls find nobody.
CallReturns(w, a) ==
    /\ stage[w] = "calling"
    /\ a \in answers
    /\ a.write = w /\ a.send = sends[w]
    /\ result' = [result EXCEPT ![w] = a.result]
    /\ stage' = [stage EXCEPT ![w] = "done"]
    /\ UNCHANGED <<idem, via, sends, net, answers, serverVars>>

-----------------------------------------------------------------------------
(* The server *)

Repeated(m) == m.key # NoKey /\ seen[m.key] # 0

Answering(m, r) ==
    answers' = answers \cup {[write |-> m.write, send |-> m.send, result |-> r]}

ApplyRequest(m) ==
    /\ m \in net
    /\ ~Repeated(m)
    /\ net' = net \ {m}
    /\ log' = Append(log, m.write)
    /\ seen' = IF m.key = NoKey THEN seen
                                ELSE [seen EXCEPT ![m.key] = Len(log) + 1]
    /\ Answering(m, Len(log) + 1)
    /\ UNCHANGED callerVars

RepeatAnswer(m) ==
    /\ m \in net
    /\ Repeated(m)
    /\ net' = net \ {m}
    /\ Answering(m, seen[m.key])
    /\ UNCHANGED <<callerVars, serverVars>>

-----------------------------------------------------------------------------

CallerStep(w) ==
    \/ WithIdempotencyKey(w) \/ WithoutKey(w)
    \/ Send(w) \/ CallFails(w) \/ (\E a \in answers : CallReturns(w, a))

Next ==
    \/ \E w \in Writes : CallerStep(w)
    \/ \E m \in net : ApplyRequest(m) \/ RepeatAnswer(m)

Spec == Init /\ [][Next]_vars

-----------------------------------------------------------------------------
(* Properties *)

\* Whatever is retried, late or lost, each write takes effect at most once and
\* its caller is given the result of that effect, never another write's
\* (WithIdempotencyKey, "applies exactly once and returns the original result").
Once == INSTANCE ExactlyOnce
ImplementsExactlyOnce == Once!Spec

\* A write is told of an effect only if it had one, and one made through the
\* shared sub-client, without a key, is not swallowed by a key another caller
\* asked for: what the server has answered to a key is that key's own write.
KeyIsItsWrites ==
    /\ \A m \in net : m.key \in {NoKey, m.write}
    /\ \A k \in Keys : seen[k] # 0 => seen[k] \in DOMAIN log /\ log[seen[k]] = k

=============================================================================
