----------------------------- MODULE SpanWriter -----------------------------
(***************************************************************************)
(* The Writer of internal/span/writer.go.  A caller hands it consecutive   *)
(* regions of the input, each with the spans that start in it; the Writer  *)
(* writes the plain bytes and the replacement of the redacted ones to a    *)
(* destination whose Write may be short, fail, or lie about its count, and *)
(* carries a span that runs past its region over to the next calls.  A     *)
(* caller may break the contract: then Emit panics.                        *)
(*                                                                         *)
(* What is written is a sequence of items: the plain byte of an offset,    *)
(* the mask byte of an offset, or one of the MarkerLen bytes of a marker.  *)
(***************************************************************************)
EXTENDS Integers, SequencesExt, Spans

CONSTANTS
    MaxOffset,    \* bound: no region reaches past this offset
    MaxRegion,    \* bound: the longest region of one call
    SpanChoices,  \* the spans a caller may pass, legal or not
    MaxSpans,     \* bound: spans passed in one call
    MarkerLen,    \* bytes of the marker
    MaskStrategies  \* a run ranges over these: "fixed", "length", "format"

ASSUME WriterAssumption ==
    /\ MaxOffset \in Nat /\ MaxRegion \in Nat /\ MaxSpans \in Nat
    /\ SpanChoices \subseteq [start : Int, end : Int]
    /\ MarkerLen \in Nat \ {0}
    /\ MaskStrategies \subseteq {"fixed", "length", "format"}

VARIABLES
    strategy,      \* fixed when the Writer is made
    offset,        \* expected at the next Emit call
    redacting,     \* a straddling span is still being consumed
    pendingEnd,    \* its end
    bytesWritten, redactedBytes,
    cur, end,      \* the call's position and the end of its region
    todo,          \* the call's spans not yet processed
    unwritten,     \* what the writeAll in progress has still to write
    pc,            \* where Emit is, or how it ended
    next,          \* where writeAll returns to
    dest,          \* what the destination received
    accepted       \* history: the spans whose replacement was begun

callVars  == <<cur, end, todo>>
stateVars == <<strategy, offset, redacting, pendingEnd, redactedBytes, accepted>>
vars == <<stateVars, bytesWritten, callVars, unwritten, pc, next, dest>>

Plain(from, to) == [i \in 1 .. Higher(to - from, 0) |-> [at |-> from + i - 1, byte |-> "plain"]]
Marker(at)      == [i \in 1 .. MarkerLen |-> [at |-> at, byte |-> "marker", nth |-> i]]

(* writeMasked writes nothing for the fixed marker.                        *)
Masked(from, to) ==
    IF strategy = "fixed" THEN <<>>
    ELSE [i \in 1 .. Higher(to - from, 0) |-> [at |-> from + i - 1, byte |-> "mask"]]

Opening(s) == IF strategy = "fixed" THEN Marker(s.start) ELSE <<>>

Init ==
    /\ strategy \in MaskStrategies
    /\ offset = 0 /\ redacting = FALSE /\ pendingEnd = 0
    /\ bytesWritten = 0 /\ redactedBytes = 0
    /\ cur = 0 /\ end = 0 /\ todo = <<>>
    /\ unwritten = <<>> /\ pc = "idle" /\ next = "idle"
    /\ dest = <<>> /\ accepted = {}

Panic == pc' = "panic" /\ UNCHANGED <<stateVars, bytesWritten, callVars, unwritten, next, dest>>

(* Emit(off, data, spans), with off where the last region ended or not.    *)
Emit ==
    /\ pc = "idle"
    /\ \E off \in {offset, offset + 1}, n \in 0 .. Lower(MaxRegion, MaxOffset - offset),
          spans \in BoundedSeq(SpanChoices, MaxSpans) :
         IF off # offset THEN Panic
         ELSE /\ cur' = off /\ end' = off + n /\ todo' = spans
              /\ pc' = IF redacting THEN "tail" ELSE "spans"
              /\ UNCHANGED <<stateVars, bytesWritten, unwritten, next, dest>>

WriteAll(p, return) == pc' = "write" /\ unwritten' = p /\ next' = return

(* Finish consuming a span that straddled in from a previous call.         *)
Straddle ==
    /\ pc = "tail"
    /\ WriteAll(Masked(cur, Lower(pendingEnd, end)), "tailDone")
    /\ UNCHANGED <<stateVars, bytesWritten, callVars, dest>>

(* Faulty: the bytes consumed by a later call are not counted.             *)
StraddleDoneUncounted ==
    /\ pc = "tailDone"
    /\ cur' = Lower(pendingEnd, end) /\ redacting' = (cur' < pendingEnd) /\ pc' = "spans"
    /\ UNCHANGED <<strategy, offset, pendingEnd, redactedBytes, accepted, bytesWritten, end, todo,
                   unwritten, next, dest>>

StraddleDone ==
    /\ pc = "tailDone"
    /\ cur' = Lower(pendingEnd, end)
    /\ redactedBytes' = redactedBytes + (cur' - cur)
    /\ redacting' = (cur' < pendingEnd)
    /\ pc' = "spans"
    /\ UNCHANGED <<strategy, offset, pendingEnd, accepted, bytesWritten, end, todo, unwritten, next, dest>>

Illegal(s) == s.start < cur \/ s.end <= s.start \/ s.start >= end

(* The next span: the plain bytes before it, its marker, its mask bytes.   *)
Span ==
    /\ pc = "spans" /\ todo # <<>>
    /\ LET s == Head(todo)
       IN  IF Illegal(s) THEN Panic
           ELSE /\ WriteAll(Plain(cur, s.start) \o Opening(s) \o Masked(s.start, Lower(s.end, end)),
                            "spanDone")
                /\ accepted' = accepted \cup {[start |-> s.start, end |-> s.end]}
                /\ UNCHANGED <<strategy, offset, redacting, pendingEnd, redactedBytes, bytesWritten,
                               callVars, dest>>

(* Faulty: the end of a straddling span is not remembered.                 *)
SpanDoneForgetful ==
    /\ pc = "spanDone"
    /\ cur' = Lower(Head(todo).end, end)
    /\ redactedBytes' = redactedBytes + (cur' - Head(todo).start)
    /\ todo' = Tail(todo) /\ pc' = "spans"
    /\ UNCHANGED <<strategy, offset, redacting, pendingEnd, accepted, bytesWritten, end, unwritten, next, dest>>

SpanDone ==
    /\ pc = "spanDone"
    /\ LET s == Head(todo)
       IN  /\ cur' = Lower(s.end, end)
           /\ redactedBytes' = redactedBytes + (cur' - s.start)
           /\ IF s.end > end THEN redacting' = TRUE /\ pendingEnd' = s.end
              ELSE UNCHANGED <<redacting, pendingEnd>>
    /\ todo' = Tail(todo) /\ pc' = "spans"
    /\ UNCHANGED <<strategy, offset, accepted, bytesWritten, end, unwritten, next, dest>>

Rest ==
    /\ pc = "spans" /\ todo = <<>>
    /\ WriteAll(Plain(cur, end), "restDone")
    /\ UNCHANGED <<stateVars, bytesWritten, callVars, dest>>

RestDone ==
    /\ pc = "restDone"
    /\ offset' = end /\ cur' = end /\ pc' = "idle"
    /\ UNCHANGED <<strategy, redacting, pendingEnd, redactedBytes, accepted, bytesWritten, end, todo,
                   unwritten, next, dest>>

----------------------------------------------------------------------------
(* writeAll, one Write of the destination at a time.                       *)

Written(n) == dest' = dest \o SubSeq(unwritten, 1, n)

(* A full or short write; one of no bytes is io.ErrShortWrite.             *)
WriteSome ==
    /\ pc = "write" /\ unwritten # <<>>
    /\ \E n \in 0 .. Len(unwritten) :
         /\ Written(n)
         /\ bytesWritten' = bytesWritten + n
         /\ IF n = 0 THEN pc' = "failed" /\ UNCHANGED unwritten
            ELSE unwritten' = SubSeq(unwritten, n + 1, Len(unwritten)) /\ UNCHANGED pc
    /\ UNCHANGED <<stateVars, callVars, next>>

(* An error: the bytes written before it count.                            *)
WriteFails ==
    /\ pc = "write" /\ unwritten # <<>>
    /\ \E n \in 0 .. Len(unwritten) : Written(n) /\ bytesWritten' = bytesWritten + n
    /\ pc' = "failed"
    /\ UNCHANGED <<stateVars, callVars, unwritten, next>>

(* A count outside 0..len(p), whatever was really written: not counted.    *)
WriteLies ==
    /\ pc = "write" /\ unwritten # <<>>
    /\ \E n \in 0 .. Len(unwritten) : Written(n)
    /\ pc' = "invalidCount"
    /\ UNCHANGED <<stateVars, bytesWritten, callVars, unwritten, next>>

WriteDone ==
    /\ pc = "write" /\ unwritten = <<>>
    /\ pc' = next
    /\ UNCHANGED <<stateVars, bytesWritten, callVars, unwritten, next, dest>>

(* After an error or a panic the Writer is not used again.                 *)
Stopped == (pc \in {"failed", "invalidCount", "panic"}) /\ UNCHANGED vars

Next ==
    \/ Emit \/ Straddle \/ StraddleDone \/ Span \/ SpanDone \/ Rest \/ RestDone
    \/ WriteSome \/ WriteFails \/ WriteLies \/ WriteDone
    \/ Stopped

Spec == Init /\ [][Next]_vars

----------------------------------------------------------------------------
(* The offsets below n, each by its replacement.                           *)
Piece(i) ==
    LET inside == \E s \in accepted : s.start <= i /\ i < s.end
    IN  IF ~inside THEN Plain(i, i + 1)
        ELSE (IF \E s \in accepted : s.start = i THEN Opening([start |-> i]) ELSE <<>>)
             \o Masked(i, i + 1)
Rendering(n) == FlattenSeq([i \in 1 .. n |-> Piece(i - 1)])

(* Whatever regions the caller chose and however Write behaved, the        *)
(* destination holds a prefix of the rendering of the accepted spans, and  *)
(* exactly that rendering between two calls.  A byte of a span that was    *)
(* accepted is never written plain, not even when a later call breaks the  *)
(* contract.                                                               *)
DestIsRendering ==
    /\ IsPrefix(dest, Rendering(end))
    /\ pc = "idle" => dest = Rendering(offset)

(* BytesWritten is what the destination received, unless its Write lied;   *)
(* RedactedBytes counts every offset of an accepted span once, over all    *)
(* the calls it straddles.                                                 *)
CountersExact ==
    /\ pc # "invalidCount" => bytesWritten = Len(dest)
    /\ pc = "idle" => redactedBytes = Cardinality(Offsets(accepted) \cap 0 .. (offset - 1))
=============================================================================
