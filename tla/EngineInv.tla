----------------------------- MODULE EngineInv -----------------------------
(***************************************************************************)
(* The inductive invariants of Engine, as conjunctions of named parts, in  *)
(* three layers: IInv, what the loop's variables are and that no secret    *)
(* leaks; SpanInv, where the spans stand; RefInv, that they and the output *)
(* are the reference's.  Each layer is inductive with those below it.      *)
(***************************************************************************)
EXTENDS Engine

(* Nothing reaches past what was read, or past the end of the input.       *)
Bounded ==
    /\ emitted <= bufEnd
    /\ pendingEnd <= input.len
    /\ \A e \in entries \cup released : e.end <= input.len

(* Where the queues stand at each point of the loop: Scan leaves nothing   *)
(* unreported, and only candidates short of lookahead stay queued.         *)
Queues ==
    /\ pc \notin {"scan", "done"} => scanQ = {}
    /\ pc \in {"top", "room", "full", "read", "flush"} => \A c \in pending : ~Buffered(c)
    /\ pc = "drain" => bufEnd = input.len
    /\ pc \in {"scan", "pend", "flush"} /\ rerr = "eof" => bufEnd = input.len
    /\ pc = "flush" /\ rerr = "eof" => pending = {}

(* The windows of the candidates still to be validated lie beyond the last *)
(* release, and start no earlier than the buffer; release stays a window   *)
(* behind the buffer, and emission behind release.                         *)
AheadOfFrontier ==
    pc # "done" =>
        /\ -Window <= frontier /\ frontier <= bufEnd - Window
        /\ emitted <= Higher(frontier, 0)
        /\ \A c \in Unvalidated :
             /\ c.trigStart - MaxLookbehind[c.rule] > frontier
             /\ bufBase <= Higher(c.trigStart - MaxLookbehind[c.rule], 0)

(* An offset the output is safe for: written, or known to be redacted.     *)
Settled(i) ==
    \/ i < emitted \/ i < pendingEnd
    \/ \E e \in entries \cup released : e.start <= i /\ i < e.end

(* Every confirmed candidate's offsets are settled.                        *)
Accounted ==
    pc # "done" =>
        \A c \in input.cands \ Unvalidated :
            c.answer = "span" => \A i \in RefStart(c, input) .. (RefEnd(c, input) - 1) : Settled(i)

(* A full buffer that cannot be compacted is pinned by a span that covers  *)
(* it up to its last Window bytes.                                         *)
Pinned ==
    /\ pc \in {"room", "full"} => emitted <= bufBase /\ bufEnd - bufBase = capacity
    /\ pc = "full" => Discardable(bufEnd - Window)

IInv ==
    /\ TypeOK /\ Bounded /\ Queues /\ AheadOfFrontier /\ Accounted /\ Pinned
    /\ BufferFixed /\ NoLeak

----------------------------------------------------------------------------
(* The second layer: where the spans stand, whatever their attribution.    *)

(* Held and reported spans are not empty and stay apart; a release takes   *)
(* those that end by its limit, and hands them to the Writer when emission *)
(* reaches their start.                                                    *)
Ordered ==
    /\ \A e \in entries \cup found : e.start < e.end
    /\ Apart(entries \cup found)
    /\ \A f \in found : f.end <= frontier
    /\ \A e \in entries : frontier < e.end /\ emitted <= e.start
    /\ released = {f \in found : emitted <= f.start}

(* pendingEnd is the furthest end of the spans the Writer was handed.      *)
Handed ==
    /\ \A f \in found : f.start < emitted => f.end <= pendingEnd
    /\ pendingEnd = 0 \/ \E f \in found : f.start < emitted /\ f.end = pendingEnd

(* EmitsPromptly, all the way from a flush to the next read.               *)
Prompt ==
    pc \in {"top", "room", "full", "read"} /\ ~RecordAligned =>
        emitted >= bufEnd - Window \/ \E e \in entries : e.start <= emitted

SpanInv == IInv /\ Ordered /\ Handed /\ GapCovered /\ Prompt

----------------------------------------------------------------------------
(* The third layer: how the spans and the output compare to the reference. *)

(* The reference's spans whose candidates have been validated.             *)
ConfirmedSpans ==
    {RawSpan(RefStart(c, input), RefEnd(c, input), c.rule, Confidence[c.rule]) :
        c \in {d \in input.cands \ Unvalidated :
                  d.answer = "span" /\ RefStart(d, input) < RefEnd(d, input)}}

(* A candidate waits in one queue at most, and only once it is buffered.   *)
QueuedOnce ==
    /\ scanQ \cap pending = {}
    /\ \A c \in scanQ \cup pending : c.trigEnd <= bufEnd

(* AheadOfFrontier, as far as it outlives the call.                        *)
StillAhead ==
    /\ emitted <= Higher(frontier, 0)
    /\ \A c \in Unvalidated : c.trigStart - MaxLookbehind[c.rule] > frontier

(* What is held and what was reported are the components of those spans.   *)
Merged ==
    /\ \A e \in entries \cup found : IsComponent(e, ConfirmedSpans)
    /\ \A s \in ConfirmedSpans : \E e \in entries \cup found : s \in Inside(ConfirmedSpans, e)

(* The output is the reference's up to emitted.  Where the mask follows    *)
(* the shape of a byte it is not: a discarded byte has lost its shape.     *)
Printed ==
    MaskStrategy # "format" => out = {o \in ReferenceOut(input) : o.at < emitted}

(* The call has a result once it returns, "ok" for the whole input only.   *)
Outcome ==
    /\ pc # "done" => result = "none"
    /\ result = "ok" => emitted = input.len

RefInv == SpanInv /\ QueuedOnce /\ StillAhead /\ Merged /\ Printed /\ Outcome

(* What the third layer is for: the findings reported are findings of the  *)
(* reference, all of those that start where output has been produced.      *)
FoundExactly ==
    /\ found \subseteq ReferenceFindings(input)
    /\ \A f \in ReferenceFindings(input) : f.start < emitted => f \in found
=============================================================================
