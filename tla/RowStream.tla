----------------------------- MODULE RowStream -----------------------------
(***************************************************************************)
(* The rows of a Scan (kv.go) or of a Query (cypher.go): a gRPC stream of  *)
(* frames, read by an iterator whose consumer may break off, iterate       *)
(* again, or cancel the call's context.                                    *)
(*                                                                         *)
(* The server and gRPC are the environment: frames arrive in order; the    *)
(* stream ends in EOF or in an error, which every further Recv returns     *)
(* again, and is released once a Recv has returned either, or when its     *)
(* context is cancelled.                                                   *)
(***************************************************************************)
EXTENDS Integers, Sequences

CONSTANT MaxFrames   \* a bound: the frames a server sends

ASSUME StreamAssumption == MaxFrames \in Nat

VARIABLES
    kind,          \* which of the two it is
    frames,        \* the frames the server has sent
    end,           \* how the stream has ended, if it has
    read,          \* how many frames Recv has returned
    pc,            \* where the consumer is
    pending,       \* the frame kept for replay; 0 is nil
    exhausted,     \* the flag of a ScanResult
    final,         \* whether the trailer, or the QueryMeta, is recorded
    got,           \* history: the frames whose rows were yielded
    outcome,       \* history: how the last iteration ended
    released       \* history: whether the stream is released

serverVars == <<frames, end>>
resultVars == <<kind, pending, exhausted, final>>
vars == <<serverVars, resultVars, read, pc, got, outcome, released>>

-----------------------------------------------------------------------------

\* A "header" is any frame that is neither a row nor the last one.
Frames == {"header", "row", "trailer"}

\* The frame sent last: nothing but the end follows the trailer.
Last == IF frames = << >> THEN "header" ELSE frames[Len(frames)]

TypeOK ==
    /\ kind \in {"scan", "query"}
    /\ frames \in Seq(Frames) /\ Len(frames) <= MaxFrames
    /\ end \in {"open", "eof", "aborted"}
    /\ read \in 0..Len(frames)
    /\ pc \in {"opening", "failed", "idle", "recv", "body"}
    /\ pending \in {0, 1}
    /\ exhausted \in BOOLEAN
    /\ final \in BOOLEAN
    /\ got \in Seq(1..MaxFrames)
    /\ outcome \in {"none", "done", "broken", "error"}
    /\ released \in BOOLEAN

\* Scan goes on to read the header; Query returns at once.
Init ==
    /\ kind \in {"scan", "query"}
    /\ frames = << >>
    /\ end = "open"
    /\ read = 0
    /\ pc = IF kind = "scan" THEN "opening" ELSE "idle"
    /\ pending = 0
    /\ exhausted = FALSE
    /\ final = FALSE
    /\ got = << >>
    /\ outcome = "none"
    /\ released = FALSE

-----------------------------------------------------------------------------
(* The server *)

SendFrame(f) ==
    /\ end = "open"
    /\ Len(frames) < MaxFrames
    /\ Last # "trailer"
    /\ frames' = Append(frames, f)
    /\ UNCHANGED <<end, resultVars, read, pc, got, outcome, released>>

\* The server finishes, or it fails or the connection breaks.
EndStream(e) ==
    /\ end = "open"
    /\ end' = e
    /\ UNCHANGED <<frames, resultVars, read, pc, got, outcome, released>>

\* The context is cancelled, or its deadline passes: what was not read is lost.
Cancel ==
    /\ ~released
    /\ end' = "aborted"
    /\ frames' = SubSeq(frames, 1, read)
    /\ released' = TRUE
    /\ UNCHANGED <<resultVars, read, pc, got, outcome>>

-----------------------------------------------------------------------------
(* Scan reads the first frame before it returns. *)

Unread == read < Len(frames)

\* Mutant of Kept: a first frame that is not the header is dropped.
KeptNever(i) == 0

\* What Scan keeps of the first frame, for Rows to replay.
Kept(i) == IF frames[i] = "header" THEN 0 ELSE i

ScanFirst ==
    /\ pc = "opening"
    /\ Unread
    /\ read' = 1
    /\ pending' = Kept(1)
    /\ pc' = "idle"
    /\ UNCHANGED <<serverVars, kind, exhausted, final, got, outcome, released>>

ScanEnds ==
    /\ pc = "opening"
    /\ ~Unread /\ end # "open"
    /\ released' = TRUE
    /\ IF end = "eof" THEN pc' = "idle" /\ exhausted' = TRUE
                      ELSE pc' = "failed" /\ UNCHANGED exhausted
    /\ UNCHANGED <<serverVars, kind, pending, final, read, got, outcome>>

-----------------------------------------------------------------------------
(* Rows *)

\* dispatch, and the switch of a Query's Rows: a row is yielded, the last frame
\* recorded, which ends the iteration, anything else ignored.
Dispatch(i) ==
    CASE frames[i] = "row" ->
             /\ got' = Append(got, i)
             /\ pc' = "body"
             /\ outcome' = "none"
             /\ UNCHANGED <<exhausted, final>>
      [] frames[i] = "trailer" ->
             /\ final' = TRUE
             /\ exhausted' = (kind = "scan")
             /\ pc' = "idle"
             /\ outcome' = "done"
             /\ UNCHANGED got
      [] OTHER ->
             /\ pc' = "recv"
             /\ outcome' = "none"
             /\ UNCHANGED <<exhausted, final, got>>

\* Mutant of Replayed: the pending frame is not cleared.
ReplayedAgain == pending

\* What is pending once an iteration has begun.
Replayed == 0

\* The consumer ranges over Rows; of an exhausted scan there is nothing more.
Rows ==
    /\ pc = "idle"
    /\ ~exhausted
    /\ IF pending # 0 THEN Dispatch(pending)
       ELSE /\ pc' = "recv"
            /\ outcome' = "none"
            /\ UNCHANGED <<exhausted, final, got>>
    /\ pending' = Replayed
    /\ UNCHANGED <<serverVars, kind, read, released>>

RecvFrame ==
    /\ pc = "recv"
    /\ Unread
    /\ read' = read + 1
    /\ Dispatch(read + 1)
    /\ UNCHANGED <<serverVars, kind, pending, released>>

\* Mutant of OutcomeOf: any end of the stream is taken for its EOF.
OutcomeAlwaysDone(e) == "done"

\* How the iteration ends when the stream has ended: EOF, or an error, which is
\* yielded.
OutcomeOf(e) == IF e = "eof" THEN "done" ELSE "error"

\* Mutant of AfterEnd: the loop goes on once the error has been yielded.
AfterEndOn(e) == IF e = "eof" THEN "idle" ELSE "recv"

\* The iterator returns at the end of its stream.
AfterEnd(e) == "idle"

RecvEnd ==
    /\ pc = "recv"
    /\ ~Unread /\ end # "open"
    /\ outcome' = OutcomeOf(end)
    /\ exhausted' = (exhausted \/ (kind = "scan" /\ OutcomeOf(end) = "done"))
    /\ released' = TRUE
    /\ pc' = AfterEnd(end)
    /\ UNCHANGED <<serverVars, kind, pending, final, read, got>>

Continue ==
    /\ pc = "body"
    /\ pc' = "recv"
    /\ UNCHANGED <<serverVars, resultVars, read, got, outcome, released>>

\* Mutant of PendingAfterBreak: the frame in hand is kept for the next time.
PendingAfterBreakKept == read

\* A row that was yielded is not replayed.
PendingAfterBreak == pending

\* The consumer breaks off: yield has returned false, to the replay of the pending
\* row or to the loop, and either returns at once.
Break ==
    /\ pc = "body"
    /\ pc' = "idle"
    /\ outcome' = "broken"
    /\ pending' = PendingAfterBreak
    /\ UNCHANGED <<serverVars, kind, exhausted, final, read, got, released>>

-----------------------------------------------------------------------------

ScanStep == ScanFirst \/ ScanEnds

\* What the iterator does by itself.
IterStep == RecvFrame \/ RecvEnd

Next ==
    \/ \E f \in Frames : SendFrame(f)
    \/ \E e \in {"eof", "aborted"} : EndStream(e)
    \/ Cancel
    \/ ScanStep
    \/ Rows
    \/ IterStep
    \/ Continue
    \/ Break

Spec == Init /\ [][Next]_vars

\* The server ends its stream, or the deadline of the call does; the goroutine
\* runs, and the consumer's loop body ends.
FairSpec ==
    /\ Spec
    /\ WF_vars(\E e \in {"eof", "aborted"} : EndStream(e))
    /\ WF_vars(ScanStep)
    /\ WF_vars(IterStep)
    /\ WF_vars(Continue \/ Break)

-----------------------------------------------------------------------------
(* Properties *)

RowsRead == {i \in 1..read : frames[i] = "row"}

\* Over all the iterations of a result, with breaks between them, each row read
\* from the stream is yielded once, in the server's order, but for one kept for
\* replay (ScanResult.pending).
InOrder ==
    /\ \A i, j \in DOMAIN got : i < j => got[i] < got[j]
    /\ {got[i] : i \in DOMAIN got} = RowsRead \ {pending}

\* A result that holds the trailer or the QueryMeta, "valid only after Rows() is
\* fully drained", has yielded every row the server sent before it.
FinalMeansAll ==
    final => \A i \in DOMAIN frames : frames[i] = "row" => \E j \in DOMAIN got : got[j] = i

\* An aborted stream is not taken for a complete one: an iteration that ends
\* with neither a break nor an error has seen the last frame or EOF.
DoneMeansEnded ==
    outcome = "done" \/ exhausted => final \/ end = "eof"

\* An iteration ends, by itself or by its consumer, even if the stream fails:
\* no loop goes on over an error that every Recv returns again.
IterationEnds == pc \in {"opening", "recv", "body"} ~> pc \in {"idle", "failed"}

\* "Always drain ScanResult.Rows (or cancel ctx) to release the stream" (Scan): an
\* iteration that was not broken off has released it.
DrainReleases == outcome = "done" => released

=============================================================================
