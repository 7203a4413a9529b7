--------------------------- MODULE SpanWriterInv ---------------------------
(***************************************************************************)
(* The inductive invariant of the Writer: what the destination holds and   *)
(* what is still to be written make up the rendering of the offsets up to  *)
(* a target, and the spans accepted so far lie behind the position, but    *)
(* for one that straddles it and for the one whose bytes are being         *)
(* written.                                                                *)
(***************************************************************************)
EXTENDS SpanWriter

Items == [at : Int, byte : {"plain", "mask"}]
         \cup [at : Int, byte : {"marker"}, nth : 1 .. MarkerLen]
Returns == {"tailDone", "spanDone", "restDone"}

TypeOK ==
    /\ strategy \in MaskStrategies
    /\ offset \in Nat /\ redacting \in BOOLEAN /\ pendingEnd \in Int
    /\ bytesWritten \in Nat /\ redactedBytes \in Nat
    /\ cur \in Nat /\ end \in Nat /\ cur <= end
    /\ todo \in Seq([start : Int, end : Int])
    /\ unwritten \in Seq(Items) /\ dest \in Seq(Items)
    /\ pc \in {"idle", "tail", "spans", "write", "failed", "invalidCount", "panic"} \cup Returns
    /\ next \in {"idle"} \cup Returns
    /\ accepted \subseteq [start : Int, end : Int]

Stopping == pc \in {"failed", "invalidCount", "panic"}

(* The step of the call under way: that of its writeAll, once it writes.   *)
Stage == IF pc = "write" THEN next ELSE pc

(* The offset up to which the call will have rendered, when the writeAll   *)
(* of a stage is done.                                                     *)
Target(stage) ==
    IF stage = "tailDone" THEN Lower(pendingEnd, end)
    ELSE IF stage = "spanDone" THEN Lower(Head(todo).end, end)
    ELSE IF stage = "restDone" THEN end
    ELSE cur

(* What is written and what is being written render the offsets up to the  *)
(* target.                                                                 *)
Rendered ==
    /\ pc = "write" => next \in Returns /\ dest \o unwritten = Rendering(Target(next))
    /\ pc # "write" /\ ~Stopping => dest = Rendering(Target(pc))
    /\ Stopping => IsPrefix(dest, Rendering(end))

(* s has begun behind the position and, but for a straddling one, ended.   *)
Behind(s) == s.start < cur /\ s.end <= IF redacting THEN pendingEnd ELSE cur

Straddling == cur < pendingEnd /\ \E s \in accepted : s.end = pendingEnd

(* Where the accepted spans are.                                           *)
Accepted ==
    /\ Stage = "idle" => cur = end /\ end = offset
    /\ Stage \in {"tail", "tailDone"} => redacting
    /\ Stage \in {"spans", "restDone"} => (redacting => cur = end)
    /\ redacting /\ ~Stopping => Straddling
    /\ Stage # "spanDone" /\ ~Stopping => \A s \in accepted : Behind(s)
    /\ Stage = "spanDone" =>
         /\ todo # <<>> /\ ~redacting
         /\ LET s == Head(todo)
            IN  /\ cur <= s.start /\ s.start < s.end /\ s.start < end
                /\ s \in accepted
                /\ \A t \in accepted \ {s} : Behind(t)

(* The counters.                                                           *)
Counted ==
    /\ pc # "invalidCount" => bytesWritten = Len(dest)
    /\ ~Stopping => redactedBytes = Cardinality(Offsets(accepted) \cap 0 .. (cur - 1))

WriterInv == TypeOK /\ Rendered /\ Accepted /\ Counted
=============================================================================
