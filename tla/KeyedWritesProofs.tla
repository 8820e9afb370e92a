------------------------- MODULE KeyedWritesProofs -------------------------
(***************************************************************************)
(* Retried writes take effect once, for every set of writes and every      *)
(* number of retries.                                                      *)
(***************************************************************************)
EXTENDS KeyedWrites, SequenceTheorems, TLAPS

-----------------------------------------------------------------------------
(* Type correctness *)

LEMMA InitType == Init => TypeOK
<1> SUFFICES ASSUME Init PROVE TypeOK
  OBVIOUS
<1>1. log \in Seq(Writes)
  BY DEF Init
<1>2. sends \in [Writes -> 0..MaxSends]
  BY KeyAssumption DEF Init
<1>3. /\ idem \in [Handles -> Keys \cup {NoKey}]
      /\ via \in [Writes -> Handles]
      /\ stage \in [Writes -> {"new", "ready", "calling", "failed", "done"}]
      /\ seen \in [Keys -> Nat]
      /\ result \in [Writes -> Nat]
  BY DEF Init, Handles
<1>4. /\ net \subseteq Requests
      /\ answers \subseteq [write : Writes, send : 1..MaxSends, result : Nat \ {0}]
  BY DEF Init
<1> QED
  BY <1>1, <1>2, <1>3, <1>4 DEF TypeOK

LEMMA KeyType ==
    ASSUME TypeOK, NEW w \in Writes
    PROVE  idemPtr(w) \in Keys \cup {NoKey}
BY DEF TypeOK, idemPtr

\* Every request is one write's, and so is every answer.
LEMMA MessageType ==
    ASSUME TypeOK
    PROVE  /\ \A m \in net : /\ m.write \in Writes
                             /\ m.key \in Keys \cup {NoKey}
                             /\ m.send \in 1..MaxSends
           /\ \A a \in answers : /\ a.write \in Writes
                                 /\ a.send \in 1..MaxSends
                                 /\ a.result \in Nat \ {0}
BY DEF TypeOK, Requests

LEMMA SameRequest ==
    ASSUME NEW m \in Requests, NEW n \in Requests,
           m.write = n.write, m.key = n.key, m.send = n.send
    PROVE  m = n
BY DEF Requests

LEMMA TypeOfCaller ==
    ASSUME TypeOK, NEW w \in Writes, CallerStep(w)
    PROVE  TypeOK'
<1>1. CASE WithIdempotencyKey(w)
  BY <1>1 DEF TypeOK, WithIdempotencyKey, Clone, Handles, Keys, serverVars
<1>2. CASE WithoutKey(w)
  BY <1>2 DEF TypeOK, WithoutKey, serverVars
<1>3. CASE Send(w)
  <2>1. sends[w] + 1 \in 1..MaxSends
    BY <1>3, KeyAssumption DEF TypeOK, Send
  <2>2. [write |-> w, key |-> idemPtr(w), send |-> sends[w] + 1] \in Requests
    BY <2>1, KeyType DEF Requests
  <2>3. net' \subseteq Requests
    BY <1>3, <2>2 DEF TypeOK, Send
  <2>4. sends' \in [Writes -> 0..MaxSends]
    BY <1>3, <2>1, KeyAssumption DEF TypeOK, Send
  <2>5. stage' \in [Writes -> {"new", "ready", "calling", "failed", "done"}]
    BY <1>3 DEF TypeOK, Send
  <2> QED
    BY <1>3, <2>3, <2>4, <2>5 DEF TypeOK, Send, serverVars
<1>4. CASE CallFails(w)
  BY <1>4 DEF TypeOK, CallFails, serverVars
<1>5. ASSUME NEW a \in answers, CallReturns(w, a) PROVE TypeOK'
  <2>1. a.result \in Nat
    BY MessageType
  <2> QED
    BY <1>5, <2>1 DEF TypeOK, CallReturns, serverVars
<1> QED
  BY <1>1, <1>2, <1>3, <1>4, <1>5 DEF CallerStep

LEMMA TypeOfServer ==
    ASSUME TypeOK, NEW m \in net, ApplyRequest(m) \/ RepeatAnswer(m)
    PROVE  TypeOK'
<1> DEFINE answer(r) == [write |-> m.write, send |-> m.send, result |-> r]
<1>1. /\ m.write \in Writes
      /\ \A r \in Nat \ {0} :
           answer(r) \in [write : Writes, send : 1..MaxSends, result : Nat \ {0}]
  BY MessageType
<1>2. log \in Seq(Writes) /\ Len(log) \in Nat /\ Len(log) + 1 \in Nat \ {0}
  BY DEF TypeOK
<1>3. CASE ApplyRequest(m)
  <2>1. log' \in Seq(Writes)
    BY <1>1, <1>2, <1>3, AppendProperties DEF ApplyRequest
  <2>2. seen' \in [Keys -> Nat]
    BY <1>2, <1>3 DEF ApplyRequest, TypeOK
  <2>3. answers' \subseteq [write : Writes, send : 1..MaxSends, result : Nat \ {0}]
    BY <1>1, <1>2, <1>3 DEF ApplyRequest, Answering, TypeOK
  <2> QED
    BY <1>3, <2>1, <2>2, <2>3 DEF TypeOK, ApplyRequest, callerVars
<1>4. CASE RepeatAnswer(m)
  <2>1. seen[m.key] \in Nat \ {0}
    BY <1>4, MessageType DEF TypeOK, RepeatAnswer, Repeated
  <2>2. answers' \subseteq [write : Writes, send : 1..MaxSends, result : Nat \ {0}]
    BY <1>1, <1>4, <2>1 DEF RepeatAnswer, Answering, TypeOK
  <2> QED
    BY <1>4, <2>2 DEF TypeOK, RepeatAnswer, callerVars, serverVars
<1> QED
  BY <1>3, <1>4

LEMMA NextType == TypeOK /\ [Next]_vars => TypeOK'
<1>1. TypeOK /\ UNCHANGED vars => TypeOK'
  BY DEF TypeOK, vars, callerVars, serverVars
<1> QED
  BY <1>1, TypeOfCaller, TypeOfServer DEF Next

\* Type correctness of the callers, the messages and the server.
THEOREM TypeCorrect == Spec => []TypeOK
BY InitType, NextType, PTL DEF Spec

-----------------------------------------------------------------------------
(* The inductive invariant *)

\* A write that may be sent again: its requests carry its own key.
Keyed(w) == via[w] # Shared /\ w \notin BulkRemoves

\* A sub-client has its write's key or none, and every request of a write the
\* one its sub-client gives it.
KeysCarried ==
    /\ idem[Shared] = NoKey
    /\ \A w \in Writes : via[w] = Shared \/ (via[w] = w /\ idem[w] = w)
    /\ \A w \in Writes : stage[w] = "new" => via[w] = Shared
    /\ \A m \in net : m.key = IF Keyed(m.write) THEN m.write ELSE NoKey

\* Nothing is under way of a write that has not been sent, and only one request
\* was ever made of a write without a key.
SentOnce ==
    /\ \A w \in Writes : stage[w] \in {"new", "ready"} <=> sends[w] = 0
    /\ \A w \in Writes : ~Keyed(w) => sends[w] <= 1
    /\ \A m \in net : m.send <= sends[m.write]

\* The server holds the place of each write in its log, by its key if it has one.
PlacesKept ==
    /\ \A i \in DOMAIN log : sends[log[i]] # 0
    /\ \A i \in DOMAIN log : Keyed(log[i]) => seen[log[i]] = i
    /\ \A i \in DOMAIN log, m \in net : m.write = log[i] => Keyed(log[i])
    /\ \A k \in Keys : seen[k] # 0 => seen[k] \in DOMAIN log /\ log[seen[k]] = k

\* No write is in the log twice; what a caller is told is the place of its own.
PlacesTold ==
    /\ \A i, j \in DOMAIN log : log[i] = log[j] => i = j
    /\ \A a \in answers : a.result \in DOMAIN log /\ log[a.result] = a.write
    /\ \A w \in Writes : result[w] # 0 => stage[w] = "done"

Inv == TypeOK /\ KeysCarried /\ SentOnce /\ PlacesKept /\ PlacesTold

LEMMA InitInv == Init => Inv
<1> SUFFICES ASSUME Init PROVE KeysCarried /\ SentOnce /\ PlacesKept /\ PlacesTold
  BY InitType DEF Inv
<1>1. net = {} /\ answers = {} /\ DOMAIN log = {}
  BY DEF Init
<1>2. /\ \A h \in Handles : idem[h] = NoKey
      /\ \A w \in Writes : via[w] = Shared /\ stage[w] = "new" /\ sends[w] = 0 /\ result[w] = 0
      /\ \A k \in Keys : seen[k] = 0
  BY DEF Init
<1> QED
  BY <1>1, <1>2 DEF KeysCarried, SentOnce, PlacesKept, PlacesTold, Handles

\* The server knows every place it has given, and so gives none twice.
LEMMA Sizes ==
    ASSUME TypeOK
    PROVE  /\ Len(log) \in Nat /\ DOMAIN log = 1..Len(log)
           /\ \A i \in DOMAIN log : log[i] \in Writes
           /\ \A w \in Writes : sends[w] \in Nat
           /\ \A k \in Keys : seen[k] \in Nat
<1>1. log \in Seq(Writes)
  BY DEF TypeOK
<1>2. \A i \in 1..Len(log) : log[i] \in Writes
  BY <1>1, ElementOfSeq
<1>3. Len(log) \in Nat /\ DOMAIN log = 1..Len(log)
  BY <1>1
<1>4. (\A w \in Writes : sends[w] \in Nat) /\ (\A k \in Keys : seen[k] \in Nat)
  BY KeyAssumption DEF TypeOK
<1> QED
  BY <1>2, <1>3, <1>4

\* The request a write sends carries its own key, if it may be sent again.
LEMMA KeySent ==
    ASSUME Inv, NEW w \in Writes
    PROVE  idemPtr(w) = IF Keyed(w) THEN w ELSE NoKey
BY DEF Inv, KeysCarried, Keyed, idemPtr

\* A request that is no repetition is of a write that is not in the log.
LEMMA FirstOfItsWrite ==
    ASSUME Inv, NEW m \in net, ~Repeated(m)
    PROVE  \A i \in DOMAIN log : log[i] # m.write
<1> SUFFICES ASSUME NEW i \in DOMAIN log, log[i] = m.write PROVE FALSE
  OBVIOUS
<1>1. Keyed(m.write) /\ m.write \in Writes /\ i # 0
  BY MessageType, Sizes DEF Inv, PlacesKept
<1>2. m.key = m.write /\ m.key # NoKey
  BY <1>1, KeyAssumption DEF Inv, KeysCarried
<1>3. seen[m.key] = i
  BY <1>1, <1>2 DEF Inv, PlacesKept
<1> QED
  BY <1>1, <1>2, <1>3 DEF Repeated

LEMMA InvOfCaller ==
    ASSUME Inv, TypeOK', NEW w \in Writes, CallerStep(w)
    PROVE  Inv'
<1>1. CASE WithIdempotencyKey(w)
  <2>1. /\ idem' = [idem EXCEPT ![w] = w]
        /\ via' = [via EXCEPT ![w] = w]
        /\ stage' = [stage EXCEPT ![w] = "ready"]
        /\ stage[w] = "new" /\ sends[w] = 0
        /\ UNCHANGED <<sends, result, net, answers, seen, log>>
    BY <1>1 DEF WithIdempotencyKey, Clone, serverVars, Inv, SentOnce
  <2>2. \A m \in net : m.write # w
    BY <2>1, MessageType DEF Inv, SentOnce
  <2>3. \A i \in DOMAIN log : log[i] # w
    BY <2>1 DEF Inv, PlacesKept
  <2>4. \A v \in Writes : v # w => (Keyed(v)' <=> Keyed(v))
    BY <2>1 DEF Keyed, Inv, TypeOK
  <2>5. KeysCarried'
    BY <2>1, <2>2, <2>4, MessageType, KeyAssumption DEF KeysCarried, Inv, TypeOK, Handles
  <2>6. SentOnce'
    BY <2>1, <2>4 DEF SentOnce, Inv, TypeOK
  <2>7. PlacesKept'
    BY <2>1, <2>3, <2>4, Sizes DEF PlacesKept, Inv
  <2>8. PlacesTold'
    BY <2>1 DEF PlacesTold, Inv, TypeOK
  <2> QED
    BY <2>5, <2>6, <2>7, <2>8 DEF Inv
<1>2. CASE WithoutKey(w)
  <2>1. /\ stage' = [stage EXCEPT ![w] = "ready"]
        /\ stage[w] = "new"
        /\ UNCHANGED <<idem, via, sends, result, net, answers, seen, log>>
    BY <1>2 DEF WithoutKey, serverVars
  <2>2. KeysCarried' /\ SentOnce' /\ PlacesKept' /\ PlacesTold'
    BY <2>1 DEF KeysCarried, SentOnce, PlacesKept, PlacesTold, Keyed, Inv, TypeOK
  <2> QED
    BY <2>2 DEF Inv
<1>3. CASE Send(w)
  <2> DEFINE m == [write |-> w, key |-> idemPtr(w), send |-> sends[w] + 1]
  <2>1. /\ net' = net \cup {m}
        /\ sends' = [sends EXCEPT ![w] = @ + 1]
        /\ stage' = [stage EXCEPT ![w] = "calling"]
        /\ stage[w] = "ready" \/ Keyed(w)
        /\ stage[w] \in {"ready", "failed"}
        /\ UNCHANGED <<idem, via, result, answers, seen, log>>
    BY <1>3 DEF Send, Keyed, serverVars
  <2>2. m.write = w /\ m.key = (IF Keyed(w) THEN w ELSE NoKey) /\ m.send = sends[w] + 1
    BY KeySent
  <2>3. \A n \in net' : n \in net \/ n = m
    BY <2>1
  <2> HIDE DEF m
  <2>4. /\ \A v \in Writes : v # w => sends'[v] = sends[v] /\ stage'[v] = stage[v]
        /\ sends'[w] = sends[w] + 1 /\ stage'[w] = "calling"
        /\ \A v \in Writes : sends[v] \in Nat
    BY <2>1, Sizes DEF Inv, TypeOK
  <2>5. KeysCarried'
    BY <2>1, <2>2, <2>3, <2>4 DEF KeysCarried, Keyed, Inv
  <2>6. SentOnce'
    <3>1. \A v \in Writes : stage'[v] \in {"new", "ready"} <=> sends'[v] = 0
      BY <2>4 DEF Inv, SentOnce
    <3>2. \A v \in Writes : ~Keyed(v)' => sends'[v] <= 1
      BY <2>1, <2>4 DEF Inv, SentOnce, Keyed
    <3>3. \A n \in net' : n.send <= sends'[n.write]
      <4>1. \A n \in net : n.send <= sends[n.write] /\ n.write \in Writes /\ n.send \in Nat
        BY MessageType DEF Inv, SentOnce
      <4> QED
        BY <2>2, <2>3, <2>4, <4>1
    <3> QED
      BY <3>1, <3>2, <3>3 DEF SentOnce
  <2>7. PlacesKept'
    <3>1. \A i \in DOMAIN log : log[i] \in Writes /\ sends'[log[i]] # 0
      BY <2>4, Sizes DEF Inv, PlacesKept
    <3>2. \A i \in DOMAIN log, n \in net' : n.write = log[i] => Keyed(log[i])
      BY <2>1, <2>2, <2>3, Sizes DEF Inv, PlacesKept, SentOnce
    <3> QED
      BY <2>1, <3>1, <3>2 DEF Inv, PlacesKept, Keyed
  <2>8. PlacesTold'
    BY <2>1, <2>4 DEF Inv, PlacesTold
  <2> QED
    BY <2>5, <2>6, <2>7, <2>8 DEF Inv
<1>4. CASE CallFails(w)
  <2>1. /\ stage' = [stage EXCEPT ![w] = "failed"]
        /\ stage[w] = "calling"
        /\ UNCHANGED <<idem, via, sends, result, net, answers, seen, log>>
    BY <1>4 DEF CallFails, serverVars
  <2>2. KeysCarried' /\ SentOnce' /\ PlacesKept' /\ PlacesTold'
    BY <2>1 DEF KeysCarried, SentOnce, PlacesKept, PlacesTold, Keyed, Inv, TypeOK
  <2> QED
    BY <2>2 DEF Inv
<1>5. ASSUME NEW a \in answers, CallReturns(w, a) PROVE Inv'
  <2>1. /\ stage' = [stage EXCEPT ![w] = "done"]
        /\ result' = [result EXCEPT ![w] = a.result]
        /\ stage[w] = "calling"
        /\ UNCHANGED <<idem, via, sends, net, answers, seen, log>>
    BY <1>5 DEF CallReturns, serverVars
  <2>2. KeysCarried' /\ SentOnce' /\ PlacesKept'
    BY <2>1 DEF KeysCarried, SentOnce, PlacesKept, Keyed, Inv, TypeOK
  <2>3. \A v \in Writes : result'[v] # 0 => stage'[v] = "done"
    BY <2>1 DEF PlacesTold, Inv, TypeOK
  <2>4. PlacesTold'
    BY <2>1, <2>3 DEF PlacesTold, Inv
  <2> QED
    BY <2>2, <2>4 DEF Inv
<1> QED
  BY <1>1, <1>2, <1>3, <1>4, <1>5 DEF CallerStep

LEMMA InvOfServer ==
    ASSUME Inv, TypeOK', NEW m \in net, ApplyRequest(m) \/ RepeatAnswer(m)
    PROVE  Inv'
<1>0. m.write \in Writes /\ UNCHANGED callerVars
  BY MessageType DEF Inv, ApplyRequest, RepeatAnswer
<1>1. /\ net' = net \ {m}
      /\ UNCHANGED <<idem, via, stage, sends, result>>
      /\ \A w : Keyed(w)' <=> Keyed(w)
  BY <1>0 DEF ApplyRequest, RepeatAnswer, callerVars, Keyed
<1>2. KeysCarried' /\ SentOnce'
  BY <1>1 DEF Inv, KeysCarried, SentOnce
<1>3. CASE ApplyRequest(m)
  <2> DEFINE place == Len(log) + 1
             answer == [write |-> m.write, send |-> m.send, result |-> place]
  <2>1. /\ place \in Nat \ {0}
        /\ DOMAIN log' = 1..place
        /\ log'[place] = m.write
        /\ DOMAIN log = 1..(place - 1)
        /\ \A i \in DOMAIN log : log'[i] = log[i] /\ i \in DOMAIN log' /\ i # place
        /\ \A i \in DOMAIN log' : i \in DOMAIN log \/ i = place
    <3>1. log' = Append(log, m.write) /\ log \in Seq(Writes)
      BY <1>3 DEF ApplyRequest, Inv, TypeOK
    <3> QED
      BY <1>0, <3>1, AppendProperties, Sizes DEF Inv
  <2>2. answers' = answers \cup {answer}
    BY <1>3 DEF ApplyRequest, Answering
  <2>3. answer.write = m.write /\ answer.result = place
    OBVIOUS
  <2>4. \A i \in DOMAIN log : log[i] # m.write
    BY <1>3, FirstOfItsWrite DEF ApplyRequest
  <2>5. m.key = IF Keyed(m.write) THEN m.write ELSE NoKey
    BY DEF Inv, KeysCarried
  <2>6. seen' = IF Keyed(m.write) THEN [seen EXCEPT ![m.write] = place] ELSE seen
    BY <1>0, <1>3, <2>5, KeyAssumption DEF ApplyRequest
  <2>7. \A w \in Keys : seen'[w] = IF Keyed(m.write) /\ w = m.write THEN place ELSE seen[w]
    BY <2>6 DEF Inv, TypeOK
  <2> HIDE DEF place, answer
  <2>8. PlacesTold'
    <3>1. \A i, j \in DOMAIN log' : log'[i] = log'[j] => i = j
      BY <2>1, <2>4 DEF Inv, PlacesTold
    <3>2. \A a \in answers' : a.result \in DOMAIN log' /\ log'[a.result] = a.write
      BY <2>1, <2>2, <2>3 DEF Inv, PlacesTold
    <3> QED
      BY <1>1, <3>1, <3>2 DEF Inv, PlacesTold
  <2>9. PlacesKept'
    <3>1. sends[m.write] # 0
      BY <1>0, MessageType, Sizes DEF Inv, SentOnce
    <3>2. \A i \in DOMAIN log' : sends[log'[i]] # 0
      BY <2>1, <3>1 DEF Inv, PlacesKept
    <3>3. \A i \in DOMAIN log' : Keyed(log'[i]) => seen'[log'[i]] = i
      BY <1>0, <2>1, <2>4, <2>7, Sizes DEF Inv, PlacesKept, Keys
    <3>4. \A i \in DOMAIN log', n \in net' : n.write = log'[i] => Keyed(log'[i])
      <4>1. ASSUME NEW n \in net', n.write = m.write, ~Keyed(m.write) PROVE FALSE
        <5>1. n.send = 1 /\ m.send = 1
          BY <1>1, <4>1, MessageType, Sizes DEF Inv, SentOnce
        <5>2. n.key = NoKey /\ m.key = NoKey
          BY <1>1, <4>1 DEF Inv, KeysCarried
        <5>3. n = m
          BY <1>1, <4>1, <5>1, <5>2, SameRequest DEF Inv, TypeOK
        <5> QED
          BY <1>1, <4>1, <5>3
      <4> QED
        BY <1>1, <2>1, <4>1 DEF Inv, PlacesKept
    <3>5. \A k \in Keys : seen'[k] # 0 => seen'[k] \in DOMAIN log' /\ log'[seen'[k]] = k
      BY <2>1, <2>7 DEF Inv, PlacesKept
    <3> QED
      BY <1>1, <3>2, <3>3, <3>4, <3>5 DEF PlacesKept
  <2> QED
    BY <1>2, <2>8, <2>9 DEF Inv
<1>4. CASE RepeatAnswer(m)
  <2>1. m.key \in Keys /\ seen[m.key] # 0 /\ m.key = m.write
    BY <1>4, MessageType, KeyAssumption DEF RepeatAnswer, Repeated, Inv, KeysCarried
  <2>2. seen[m.key] \in DOMAIN log /\ log[seen[m.key]] = m.write
    BY <2>1 DEF Inv, PlacesKept
  <2>3. answers' = answers \cup {[write |-> m.write, send |-> m.send, result |-> seen[m.key]]}
    BY <1>4 DEF RepeatAnswer, Answering
  <2>4. UNCHANGED <<seen, log>>
    BY <1>4 DEF RepeatAnswer, serverVars
  <2>5. PlacesTold'
    BY <1>1, <2>2, <2>3, <2>4 DEF Inv, PlacesTold
  <2>6. PlacesKept'
    BY <1>1, <2>4 DEF Inv, PlacesKept
  <2> QED
    BY <1>2, <2>5, <2>6 DEF Inv
<1> QED
  BY <1>3, <1>4

LEMMA NextInv == Inv /\ [Next]_vars => Inv'
<1> SUFFICES ASSUME Inv, [Next]_vars PROVE Inv'
  OBVIOUS
<1>1. TypeOK'
  BY NextType DEF Inv
<1>2. UNCHANGED vars => Inv'
  BY <1>1 DEF vars, callerVars, serverVars, Inv, KeysCarried, SentOnce, PlacesKept, PlacesTold,
          Keyed
<1> QED
  BY <1>1, <1>2, InvOfCaller, InvOfServer DEF Next

LEMMA Invariant == Spec => []Inv
BY InitInv, NextInv, PTL DEF Spec

-----------------------------------------------------------------------------
(* The promise *)

\* No caller's key swallows another's write: what the server holds for a key, and
\* every request that carries it, is the write it was made for.
THEOREM KeysNotShared == Spec => []KeyIsItsWrites
<1>1. Inv => KeyIsItsWrites
  BY DEF Inv, KeysCarried, PlacesKept, KeyIsItsWrites
<1> QED
  BY <1>1, Invariant, PTL

LEMMA InitOnce == Init => Once!Init
BY DEF Init, Once!Init

LEMMA NextOnce == Inv /\ [Next]_vars => [Once!Next]_(Once!vars)
<1> SUFFICES ASSUME Inv, [Next]_vars PROVE Once!Next \/ UNCHANGED <<log, result>>
  BY DEF Once!vars
<1>1. ASSUME NEW m \in net, ApplyRequest(m) PROVE Once!Next
  <2>1. m.write \in Writes
    BY MessageType DEF Inv
  <2>2. m.write \notin Once!Range(log)
    BY <1>1, FirstOfItsWrite DEF ApplyRequest, Once!Range
  <2>3. Once!TakeEffect(m.write)
    BY <1>1, <2>2 DEF ApplyRequest, callerVars, Once!TakeEffect
  <2> QED
    BY <2>1, <2>3 DEF Once!Next
<1>2. ASSUME NEW w \in Writes, NEW a \in answers, CallReturns(w, a) PROVE Once!Next
  <2>1. a.result \in DOMAIN log /\ log[a.result] = w
    BY <1>2 DEF CallReturns, Inv, PlacesTold
  <2>2. result[w] = 0
    BY <1>2 DEF CallReturns, Inv, PlacesTold
  <2>3. Once!Answer(w)
    BY <1>2, <2>1, <2>2 DEF CallReturns, serverVars, Once!Answer
  <2> QED
    BY <2>3 DEF Once!Next
<1>3. ASSUME NEW w \in Writes, CallerStep(w),
             ~(\E a \in answers : CallReturns(w, a))
      PROVE  UNCHANGED <<log, result>>
  BY <1>3 DEF CallerStep, WithIdempotencyKey, WithoutKey, Send, CallFails, serverVars
<1>4. ASSUME NEW m \in net, RepeatAnswer(m) PROVE UNCHANGED <<log, result>>
  BY <1>4 DEF RepeatAnswer, callerVars, serverVars
<1>5. UNCHANGED vars => UNCHANGED <<log, result>>
  BY DEF vars, callerVars, serverVars
<1> QED
  BY <1>1, <1>2, <1>3, <1>4, <1>5 DEF Next

\* Keyed writes keep the promise of an idempotency key: however often a write is
\* sent, and whatever is lost or late, it takes effect at most once and its caller
\* is told the result of that effect.
THEOREM WritesOnce == Spec => ImplementsExactlyOnce
<1>1. Spec => Once!Init /\ [][Once!Next]_(Once!vars)
  BY InitOnce, NextOnce, Invariant, PTL DEF Spec
<1> QED
  BY <1>1 DEF ImplementsExactlyOnce, Once!Spec

=============================================================================
