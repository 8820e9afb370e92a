-------------------------- MODULE RowStreamProofs --------------------------
(***************************************************************************)
(* The safety of the row iterators, for streams of every length.           *)
(***************************************************************************)
EXTENDS RowStream, SequenceTheorems, TLAPS

-----------------------------------------------------------------------------
(* Type correctness *)

\* The frame kept for replay is the one Scan has read.
PendingRead == pending <= read

LEMMA InitType == Init => TypeOK /\ PendingRead
<1> SUFFICES ASSUME Init PROVE TypeOK /\ PendingRead
  OBVIOUS
<1>1. << >> \in Seq(Frames) /\ << >> \in Seq(1..MaxFrames) /\ Len(<< >>) = 0
  OBVIOUS
<1>2. frames \in Seq(Frames) /\ Len(frames) <= MaxFrames /\ got \in Seq(1..MaxFrames)
  BY <1>1, StreamAssumption DEF Init
<1>3. read \in 0..Len(frames) /\ pending \in {0, 1} /\ pending <= read
  BY <1>1 DEF Init
<1>4. /\ kind \in {"scan", "query"}
      /\ pc \in {"opening", "failed", "idle", "recv", "body"}
      /\ end \in {"open", "eof", "aborted"}
      /\ outcome \in {"none", "done", "broken", "error"}
  BY DEF Init
<1>5. exhausted \in BOOLEAN /\ final \in BOOLEAN /\ released \in BOOLEAN
  BY DEF Init
<1> QED
  BY <1>2, <1>3, <1>4, <1>5 DEF TypeOK, PendingRead

\* What an iterator does with a frame leaves its variables in their types.
LEMMA DispatchType ==
    ASSUME TypeOK, NEW i \in 1..Len(frames), Dispatch(i)
    PROVE  /\ pc' \in {"recv", "body", "idle"}
           /\ outcome' \in {"none", "done"}
           /\ exhausted' \in BOOLEAN
           /\ final' \in BOOLEAN
           /\ got' \in Seq(1..MaxFrames)
<1>1. i \in 1..MaxFrames
  BY StreamAssumption DEF TypeOK
<1>2. CASE frames[i] = "row"
  <2>1. got \in Seq(1..MaxFrames) /\ Append(got, i) \in Seq(1..MaxFrames)
    BY <1>1, AppendProperties DEF TypeOK
  <2> QED
    BY <1>2, <2>1 DEF TypeOK, Dispatch
<1>3. CASE frames[i] = "trailer"
  BY <1>3 DEF TypeOK, Dispatch
<1>4. CASE frames[i] \notin {"row", "trailer"}
  BY <1>4 DEF TypeOK, Dispatch
<1> QED
  BY <1>2, <1>3, <1>4

LEMMA NextType == TypeOK /\ PendingRead /\ [Next]_vars => TypeOK' /\ PendingRead'
<1> SUFFICES ASSUME TypeOK, PendingRead, [Next]_vars PROVE TypeOK' /\ PendingRead'
  OBVIOUS
<1>1. CASE UNCHANGED vars
  BY <1>1 DEF TypeOK, PendingRead, vars, serverVars, resultVars
<1>2. ASSUME NEW f \in Frames, SendFrame(f) PROVE TypeOK' /\ PendingRead'
  BY <1>2, StreamAssumption DEF TypeOK, PendingRead, SendFrame, resultVars
<1>3. ASSUME NEW e \in {"eof", "aborted"}, EndStream(e) PROVE TypeOK' /\ PendingRead'
  BY <1>3 DEF TypeOK, PendingRead, EndStream, resultVars
<1>4. CASE Cancel
  <2>1. /\ SubSeq(frames, 1, read) \in Seq(Frames)
        /\ Len(SubSeq(frames, 1, read)) = read
    BY DEF TypeOK, PendingRead
  <2> QED
    BY <1>4, <2>1, StreamAssumption DEF TypeOK, PendingRead, Cancel, resultVars
<1>5. CASE ScanFirst
  BY <1>5 DEF TypeOK, PendingRead, ScanFirst, Unread, Kept, serverVars
<1>6. CASE ScanEnds
  BY <1>6 DEF TypeOK, PendingRead, ScanEnds, serverVars
<1>7. CASE Rows
  <2>1. CASE pending # 0
    <3>1. pending \in 1..Len(frames)
      BY <2>1 DEF TypeOK, PendingRead
    <3>2. Dispatch(pending) /\ pending' = 0 /\ UNCHANGED <<serverVars, kind, read, released>>
      BY <1>7, <2>1 DEF Rows, Replayed
    <3> QED
      BY <3>1, <3>2, DispatchType DEF TypeOK, PendingRead, serverVars
  <2>2. CASE pending = 0
    BY <1>7, <2>2 DEF TypeOK, PendingRead, Rows, Replayed, serverVars
  <2> QED
    BY <2>1, <2>2
<1>8. CASE RecvFrame
  <2>1. read + 1 \in 1..Len(frames)
    BY <1>8 DEF TypeOK, PendingRead, RecvFrame, Unread
  <2> QED
    BY <1>8, <2>1, DispatchType DEF TypeOK, PendingRead, RecvFrame, serverVars
<1>9. CASE RecvEnd
  BY <1>9 DEF TypeOK, PendingRead, RecvEnd, OutcomeOf, AfterEnd, serverVars
<1>10. CASE Continue \/ Break
  BY <1>10 DEF TypeOK, PendingRead, Continue, Break, PendingAfterBreak, serverVars, resultVars
<1> QED
  BY <1>1, <1>2, <1>3, <1>4, <1>5, <1>6, <1>7, <1>8, <1>9, <1>10
  DEF Next, ScanStep, IterStep

\* Type correctness of a scan's or query's result, its consumer and its stream.
THEOREM TypeCorrect == Spec => []TypeOK
BY InitType, NextType, PTL DEF Spec

-----------------------------------------------------------------------------
(* What has been yielded *)

\* The rows yielded are rows that were read, in their order.
Yielded ==
    /\ \A n \in DOMAIN got : got[n] <= read /\ frames[got[n]] = "row"
    /\ \A m, n \in DOMAIN got : m < n => got[m] < got[n]

\* Each row read has been yielded, or is the one frame kept for the first
\* iteration, before which there are no others.
Accounted ==
    /\ \A i \in 1..read : frames[i] = "row" => i = pending \/ \E n \in DOMAIN got : got[n] = i
    /\ pending # 0 => pc = "idle" /\ read = 1 /\ Len(got) = 0 /\ ~final
    /\ pc = "opening" => read = 0 /\ pending = 0

\* Nothing follows a trailer, so that nothing is left when it has been recorded.
Ended ==
    /\ \A i \in DOMAIN frames : frames[i] = "trailer" => i = Len(frames)
    /\ final => read # 0 /\ read = Len(frames) /\ frames[read] = "trailer" /\ pending = 0

LEMMA Sizes ==
    ASSUME TypeOK
    PROVE  /\ Len(frames) \in Nat /\ DOMAIN frames = 1..Len(frames)
           /\ read \in Nat /\ read <= Len(frames)
           /\ Len(got) \in Nat /\ DOMAIN got = 1..Len(got)
           /\ \A n \in DOMAIN got : got[n] \in Nat \ {0}
<1>1. read \in 0..Len(frames) /\ frames \in Seq(Frames) /\ got \in Seq(1..MaxFrames)
  BY DEF TypeOK
<1>2. Len(frames) \in Nat /\ DOMAIN frames = 1..Len(frames)
  BY <1>1
<1>3. Len(got) \in Nat /\ DOMAIN got = 1..Len(got)
  BY <1>1
<1>4. \A n \in 1..Len(got) : got[n] \in 1..MaxFrames
  <2>1. got \in Seq(1..MaxFrames)
    BY DEF TypeOK
  <2> QED
    BY <2>1, ElementOfSeq
<1> QED
  BY <1>1, <1>2, <1>3, <1>4

\* How the variables stand when the iterator has a frame in hand: the one kept by
\* Scan, or the next of the stream.
InHand(i) ==
    /\ i \in 1..Len(frames)
    /\ Dispatch(i)
    /\ frames' = frames
    /\ pending' = 0
    /\ read' = i
    /\ \/ pending = 0 /\ read = i - 1
       \/ pending = i /\ read = i

LEMMA Hands ==
    ASSUME TypeOK, Accounted, RecvFrame \/ (Rows /\ pending # 0)
    PROVE  (\E i : InHand(i)) /\ pc # "opening"
<1>1. CASE RecvFrame
  <2>1. read + 1 \in 1..Len(frames)
    BY <1>1 DEF TypeOK, RecvFrame, Unread
  <2>2. pc = "recv" /\ pending = 0
    BY <1>1 DEF RecvFrame, Accounted
  <2>3. InHand(read + 1)
    BY <1>1, <2>1, <2>2 DEF RecvFrame, InHand, TypeOK, serverVars
  <2> QED
    BY <2>2, <2>3
<1>2. CASE Rows /\ pending # 0
  <2>1. pending = 1 /\ read = 1
    BY <1>2 DEF TypeOK, Accounted
  <2>2. InHand(1)
    BY <1>2, <2>1 DEF Rows, Replayed, InHand, TypeOK, serverVars
  <2> QED
    BY <1>2, <2>2 DEF Rows
<1> QED
  BY <1>1, <1>2

\* A row in hand comes after all that were yielded.
LEMMA YieldedInHand ==
    ASSUME TypeOK, Yielded, Accounted, Ended, NEW i, InHand(i)
    PROVE  Yielded' /\ Accounted' /\ Ended'
<1>1. i \in Nat \ {0} /\ i <= Len(frames) /\ Len(frames) \in Nat /\ i \in 1..MaxFrames
  BY StreamAssumption DEF InHand, TypeOK
<1>2. \A n \in DOMAIN got : got[n] < i
  <2>1. CASE read = i - 1
    BY <1>1, <2>1, Sizes DEF Yielded
  <2>2. CASE pending = i /\ read = i
    BY <1>1, <2>2 DEF Accounted, TypeOK
  <2> QED
    BY <1>1, <2>1, <2>2 DEF InHand
<1>3. \A j \in 1..i : frames[j] = "row" => j = i \/ \E n \in DOMAIN got : got[n] = j
  <2>1. CASE pending = 0 /\ read = i - 1
    BY <1>1, <2>1 DEF Accounted
  <2>2. CASE pending = i /\ read = i
    BY <1>1, <2>2 DEF Accounted
  <2> QED
    BY <2>1, <2>2 DEF InHand
<1>4. ~final
  BY <1>1 DEF InHand, Accounted, Ended
<1>5. frames' = frames /\ read' = i /\ pending' = 0
  BY DEF InHand
<1>6. CASE frames[i] = "row"
  <2>1. got' = Append(got, i) /\ pc' = "body" /\ final' = final
    BY <1>6 DEF InHand, Dispatch
  <2>2. /\ got \in Seq(1..MaxFrames)
        /\ Len(got') = Len(got) + 1
        /\ DOMAIN got' = 1..(Len(got) + 1)
        /\ got'[Len(got) + 1] = i
        /\ \A n \in DOMAIN got : n \in DOMAIN got' /\ got'[n] = got[n]
    BY <1>1, <2>1, AppendProperties DEF TypeOK
  <2>3. DOMAIN got = 1..Len(got) /\ Len(got) \in Nat
    BY <2>2
  <2>4. Yielded'
    <3>1. \A n \in DOMAIN got' : got'[n] <= i /\ frames[got'[n]] = "row"
      BY <1>1, <1>2, <1>6, <2>2, <2>3, Sizes DEF Yielded
    <3>2. \A m, n \in DOMAIN got' : m < n => got'[m] < got'[n]
      BY <1>1, <1>2, <2>2, <2>3 DEF Yielded, TypeOK
    <3> QED
      BY <1>5, <3>1, <3>2 DEF Yielded
  <2>5. Accounted'
    <3>1. \A j \in 1..i : frames[j] = "row" => \E n \in DOMAIN got' : got'[n] = j
      BY <1>3, <2>2, <2>3
    <3> QED
      BY <1>5, <2>1, <3>1 DEF Accounted
  <2> QED
    BY <1>4, <1>5, <2>1, <2>4, <2>5 DEF Ended
<1>7. CASE frames[i] # "row"
  <2>1. got' = got /\ pc' # "opening"
    BY <1>7 DEF InHand, Dispatch
  <2>2. final' => frames[i] = "trailer"
    BY <1>4, <1>7 DEF InHand, Dispatch
  <2>3. Yielded'
    BY <1>1, <1>2, <1>5, <2>1, Sizes DEF Yielded
  <2>4. Accounted'
    BY <1>3, <1>5, <1>7, <2>1 DEF Accounted
  <2>5. Ended'
    BY <1>1, <1>5, <2>2 DEF Ended, TypeOK
  <2> QED
    BY <2>3, <2>4, <2>5
<1> QED
  BY <1>6, <1>7

LEMMA InitYielded == Init => Yielded /\ Accounted /\ Ended
<1> SUFFICES ASSUME Init PROVE Yielded /\ Accounted /\ Ended
  OBVIOUS
<1>1. DOMAIN got = {} /\ Len(got) = 0 /\ DOMAIN frames = {}
  BY DEF Init
<1>2. read = 0 /\ pending = 0 /\ ~final
  BY DEF Init
<1> QED
  BY <1>1, <1>2 DEF Yielded, Accounted, Ended

LEMMA NextYielded ==
    ASSUME TypeOK, TypeOK', Yielded, Accounted, Ended, [Next]_vars
    PROVE  Yielded' /\ Accounted' /\ Ended'
<1> DEFINE Inv == Yielded /\ Accounted /\ Ended
<1>1. CASE UNCHANGED <<frames, read, got, pending, final>> /\ (pc' \in {pc, "recv", "idle", "failed"})
           /\ (pending # 0 => pc' = "idle")
  BY <1>1 DEF Yielded, Accounted, Ended
<1>2. ASSUME NEW f \in Frames, SendFrame(f) PROVE Inv'
  <2>1. /\ Len(frames') = Len(frames) + 1
        /\ frames'[Len(frames) + 1] = f
        /\ \A i \in 1..Len(frames) : frames'[i] = frames[i]
        /\ DOMAIN frames = 1..Len(frames)
        /\ DOMAIN frames' = 1..(Len(frames) + 1)
        /\ Len(frames) \in Nat
    BY <1>2, AppendProperties DEF TypeOK, SendFrame
  <2>2. \A i \in 1..Len(frames) : frames[i] # "trailer"
    <3>1. CASE Len(frames) = 0
      BY <3>1
    <3>2. CASE Len(frames) # 0
      <4>1. Last = frames[Len(frames)]
        BY <3>2 DEF Last
      <4> QED
        BY <1>2, <2>1, <4>1 DEF SendFrame, Ended
    <3> QED
      BY <3>1, <3>2
  <2>3. ~final
    BY <2>1, <2>2, Sizes DEF Ended
  <2>4. UNCHANGED <<read, got, pending, final, pc>>
    BY <1>2 DEF SendFrame, resultVars
  <2>5. Yielded'
    BY <2>1, <2>4, Sizes DEF Yielded
  <2>6. Accounted'
    BY <2>1, <2>4 DEF Accounted, TypeOK
  <2>7. Ended'
    BY <2>1, <2>2, <2>3, <2>4 DEF Ended
  <2> QED
    BY <2>5, <2>6, <2>7
<1>3. CASE Cancel
  <2>1. /\ Len(frames') = read
        /\ \A i \in 1..read : frames'[i] = frames[i]
        /\ DOMAIN frames' = 1..read
        /\ DOMAIN frames = 1..Len(frames)
    BY <1>3 DEF TypeOK, Cancel
  <2>2. UNCHANGED <<read, got, pending, final, pc>>
    BY <1>3 DEF Cancel, resultVars
  <2>3. Yielded'
    BY <2>1, <2>2, Sizes DEF Yielded
  <2>4. Accounted'
    BY <2>1, <2>2 DEF Accounted, TypeOK
  <2>5. Ended'
    BY <2>1, <2>2, Sizes DEF Ended
  <2> QED
    BY <2>3, <2>4, <2>5
<1>4. CASE ScanFirst
  <2>1. UNCHANGED <<frames, got, final>> /\ read' = 1 /\ read = 0 /\ pc' = "idle"
    BY <1>4 DEF ScanFirst, Accounted, serverVars
  <2>2. Len(got) = 0 /\ DOMAIN got = {}
    BY <2>1, Sizes DEF Yielded
  <2>3. pending' = Kept(1) /\ ~final /\ Len(frames) >= 1
    BY <1>4, <2>1 DEF ScanFirst, Unread, Ended, TypeOK
  <2>4. Kept(1) = 0 => frames[1] # "row"
    BY DEF Kept
  <2>5. Kept(1) \in {0, 1}
    BY DEF Kept
  <2> QED
    BY <2>1, <2>2, <2>3, <2>4, <2>5 DEF Yielded, Accounted, Ended
<1>5. CASE RecvFrame \/ (Rows /\ pending # 0)
  BY <1>5, Hands, YieldedInHand
<1>6. CASE Rows /\ pending = 0
  BY <1>1, <1>6 DEF Rows, Replayed, serverVars
<1>7. CASE RecvEnd
  BY <1>1, <1>7 DEF RecvEnd, AfterEnd, serverVars, Accounted
<1>8. CASE ScanEnds
  BY <1>1, <1>8 DEF ScanEnds, serverVars, Accounted
<1>9. CASE Continue \/ Break
  BY <1>1, <1>9 DEF Continue, Break, PendingAfterBreak, serverVars, resultVars,
                    Accounted
<1>10. CASE UNCHANGED vars \/ \E e \in {"eof", "aborted"} : EndStream(e)
  BY <1>10 DEF vars, EndStream, serverVars, resultVars, Yielded, Accounted, Ended
<1> QED
  BY <1>2, <1>3, <1>4, <1>5, <1>6, <1>7, <1>8, <1>9, <1>10 DEF Next, ScanStep, IterStep

LEMMA AllYielded == Spec => [](TypeOK /\ Yielded /\ Accounted /\ Ended)
<1>1. TypeOK /\ Yielded /\ Accounted /\ Ended /\ [Next]_vars /\ TypeOK'
        => (Yielded /\ Accounted /\ Ended)'
  BY NextYielded
<1> QED
  BY <1>1, InitYielded, TypeCorrect, PTL DEF Spec

\* However often a consumer breaks off and iterates again, no row that was read is
\* lost, repeated or out of order.
THEOREM RowsInOrder == Spec => []InOrder
<1>1. TypeOK /\ Yielded /\ Accounted => InOrder
  <2> SUFFICES ASSUME TypeOK, Yielded, Accounted PROVE InOrder
    OBVIOUS
  <2>1. {got[n] : n \in DOMAIN got} \subseteq RowsRead \ {pending}
    <3> SUFFICES ASSUME NEW n \in DOMAIN got
                 PROVE  got[n] \in RowsRead \ {pending}
      OBVIOUS
    <3>1. got[n] \in 1..read /\ frames[got[n]] = "row"
      BY Sizes DEF Yielded
    <3>2. pending = 0
      BY Sizes DEF Accounted
    <3> QED
      BY <3>1, <3>2 DEF RowsRead
  <2>2. RowsRead \ {pending} \subseteq {got[n] : n \in DOMAIN got}
    BY DEF RowsRead, Accounted
  <2> QED
    BY <2>1, <2>2 DEF InOrder, Yielded
<1> QED
  BY <1>1, AllYielded, PTL

\* Once the trailer is recorded nothing of the stream is missing: the summary it
\* gives is one of the rows the consumer has seen.
THEOREM TrailerMeansAll == Spec => []FinalMeansAll
<1>1. TypeOK /\ Accounted /\ Ended => FinalMeansAll
  <2> SUFFICES ASSUME TypeOK, Accounted, Ended, final,
                      NEW i \in DOMAIN frames, frames[i] = "row"
               PROVE  \E n \in DOMAIN got : got[n] = i
    BY DEF FinalMeansAll
  <2>1. i \in 1..read /\ i # 0 /\ pending = 0
    BY Sizes DEF Ended
  <2> QED
    BY <2>1 DEF Accounted
<1> QED
  BY <1>1, AllYielded, PTL

-----------------------------------------------------------------------------
(* How iterations end *)

\* An EOF that was read stays: a stream that has been released is not cancelled.
EOFKept ==
    outcome = "done" \/ exhausted => final \/ (end = "eof" /\ released)

LEMMA InitEOFKept == Init => EOFKept
BY DEF Init, EOFKept

LEMMA NextEOFKept == EOFKept /\ [Next]_vars => EOFKept'
<1> SUFFICES ASSUME EOFKept, [Next]_vars PROVE EOFKept'
  OBVIOUS
<1>1. CASE UNCHANGED vars \/ Continue \/ Cancel \/ ScanFirst
  BY <1>1 DEF vars, serverVars, resultVars, Continue, Cancel, ScanFirst, EOFKept
<1>2. ASSUME NEW f \in Frames, SendFrame(f) PROVE EOFKept'
  BY <1>2 DEF SendFrame, resultVars, EOFKept
<1>3. ASSUME NEW e \in {"eof", "aborted"}, EndStream(e) PROVE EOFKept'
  BY <1>3 DEF EndStream, resultVars, EOFKept
<1>4. CASE ScanEnds
  BY <1>4 DEF ScanEnds, serverVars, EOFKept
<1>5. ASSUME NEW i, Dispatch(i), UNCHANGED <<end, released>> PROVE EOFKept'
  BY <1>5 DEF Dispatch, EOFKept
<1>6. CASE Rows \/ RecvFrame
  BY <1>5, <1>6 DEF Rows, RecvFrame, serverVars, EOFKept
<1>7. CASE RecvEnd
  <2>1. released' /\ end' = end /\ final' = final
    BY <1>7 DEF RecvEnd, serverVars
  <2>2. CASE end = "eof"
    BY <2>1, <2>2 DEF EOFKept
  <2>3. CASE end # "eof"
    <3>1. OutcomeOf(end) # "done"
      BY <2>3 DEF OutcomeOf
    <3>2. outcome' # "done"
      BY <1>7, <3>1 DEF RecvEnd
    <3>3. exhausted' => exhausted
      BY <1>7, <3>1, Zenon DEF RecvEnd
    <3> QED
      BY <2>1, <3>2, <3>3 DEF EOFKept
  <2> QED
    BY <2>2, <2>3
<1>8. CASE Break
  BY <1>8 DEF Break, serverVars, EOFKept
<1> QED
  BY <1>1, <1>2, <1>3, <1>4, <1>6, <1>7, <1>8 DEF Next, ScanStep, IterStep

\* An iteration that ends without an error or a break has reached the trailer or
\* the end of its stream, also if the stream is cancelled at that moment.
THEOREM NoSilentTruncation == Spec => []DoneMeansEnded
<1>1. EOFKept => DoneMeansEnded
  BY DEF EOFKept, DoneMeansEnded
<1> QED
  BY <1>1, InitEOFKept, NextEOFKept, PTL DEF Spec

=============================================================================
