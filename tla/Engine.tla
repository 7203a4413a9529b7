------------------------------- MODULE Engine -------------------------------
(***************************************************************************)
(* The streaming engine of internal/goredact/engine.go: one call of Redact *)
(* over one input, read in whatever portions the source hands out, through *)
(* a buffer of ChunkSize bytes that slides over the input.                 *)
(*                                                                         *)
(* The input is fixed in Init and read portion by portion.  A rule's       *)
(* validator is a pure function of its window, so what it would say of     *)
(* each trigger occurrence is part of the input (a "candidate"): no span,  *)
(* a span from..to (perhaps reaching outside its window), or a panic.  It  *)
(* says so only when it is shown its whole window.  Collector is the set   *)
(* of entries of module Spans; Writer.Emit is Rendered below, in full      *)
(* detail in SpanWriter.                                                   *)
(***************************************************************************)
EXTENDS Integers, FiniteSets, Spans

CONSTANTS
    Rules,              \* indexes into the active rule set
    MaxLookbehind,      \* rule -> bytes its window reaches before a trigger
    MaxLookahead,       \* rule -> bytes its window reaches after a trigger
    Confidence,         \* rule -> confidence of its findings
    Window,             \* rules.Set.MaxWindow()
    ChunkSize,          \* capacity of the buffer, at least MinChunkSize()
    RecordAligned,      \* Config.RecordAligned
    MaskStrategy,       \* "fixed", "length" or "format"
    MaxConsecutiveZeroReads,
    Inputs              \* the inputs a run ranges over

(* A candidate: one occurrence of a trigger of one rule, with the answer   *)
(* the rule's validator gives for its whole window.                        *)
Candidate == [rule : Rules, trigStart : Nat, trigEnd : Nat,
              answer : {"none", "span", "panic"}, from : Int, to : Int]

(* An input: its length, its candidates, the offsets of its newlines and   *)
(* of the bytes whose shape MaskFormatPreserving keeps.                    *)
WellFormed(in) ==
    /\ in.len \in Nat
    /\ in.newlines \subseteq Nat /\ in.shaped \subseteq Nat
    /\ in.cands \subseteq Candidate
    /\ \A c \in in.cands :
         /\ c.trigStart < c.trigEnd /\ c.trigEnd <= in.len
         /\ MaxLookbehind[c.rule] + (c.trigEnd - c.trigStart) + MaxLookahead[c.rule] <= Window

ASSUME EngineAssumption ==
    /\ Rules \subseteq Nat
    /\ MaxLookbehind \in [Rules -> Nat] /\ MaxLookahead \in [Rules -> Nat]
    /\ Confidence \in [Rules -> 0..255]
    /\ Window \in Nat
    /\ ChunkSize \in Nat \ {0} /\ ChunkSize >= 2 * Window
    /\ RecordAligned \in BOOLEAN
    /\ MaskStrategy \in {"fixed", "length", "format"}
    /\ MaxConsecutiveZeroReads \in Nat \ {0}
    /\ \A in \in Inputs : WellFormed(in)

VARIABLES
    input,       \* the input, an element of Inputs
    pc,          \* where the goroutine of Redact is
    bufBase,     \* absolute offset of buf[0]
    bufEnd,      \* absolute offset one past the last buffered byte
    capacity,    \* cap(buf)
    scanQ,       \* occurrences the current Scan call has still to report
    pending,     \* candidates waiting for their lookahead
    entries,     \* the collector
    released,    \* released spans not yet handed to the Writer
    emitted,     \* output has been produced for the offsets below
    pendingEnd,  \* Writer: end of the last span handed to it
    zeroReads,
    rerr,        \* the error the last Read returned
    result,      \* what Redact returned
    found,       \* findings reported to OnFinding
    out,         \* what the destination has received
    frontier     \* history: the limit of the last Release

vars == <<input, pc, bufBase, bufEnd, capacity, scanQ, pending, entries, released,
          emitted, pendingEnd, zeroReads, rerr, result, found, out, frontier>>

scanVars == <<scanQ, pending>>
outVars  == <<released, emitted, pendingEnd, found, out, frontier>>
readVars == <<zeroReads, rerr>>

Init ==
    /\ input \in Inputs
    /\ pc = "top"
    /\ bufBase = 0 /\ bufEnd = 0 /\ capacity = ChunkSize
    /\ scanQ = {} /\ pending = {}
    /\ entries = {} /\ released = {}
    /\ emitted = 0 /\ pendingEnd = 0
    /\ zeroReads = 0 /\ rerr = "nil"
    /\ result = "none"
    /\ found = {} /\ out = {}
    /\ frontier = -Window

Return(r) == pc' = "done" /\ result' = r
Goto(p)   == pc' = p /\ UNCHANGED result

----------------------------------------------------------------------------
(* Flushing: release, report, emit, compact.                               *)

(* Faulty: spans released, and bytes emitted, one byte too early.          *)
ReleaseLimitEarly(eof) == IF eof THEN bufEnd ELSE bufEnd - Window + 1
(* Faulty: output held back by two windows.                                *)
ReleaseLimitLate(eof) == IF eof THEN bufEnd ELSE bufEnd - 2 * Window

(* A queued candidate keeps release short of the start of its window.      *)
ReleaseLimit(eof) ==
    LET limit  == bufEnd - Window
        starts == {c.trigStart - MaxLookbehind[c.rule] : c \in pending}
    IN  IF eof THEN bufEnd
        ELSE IF \E ws \in starts : ws <= limit THEN Min(starts) - 1 ELSE limit

(* Lowered to just past the last buffered newline, if there is one.        *)
AlignToRecord(limit) ==
    LET lines == {i \in input.newlines : Higher(emitted, bufBase) <= i /\ i < limit}
    IN  IF lines = {} THEN limit ELSE Max(lines) + 1

(* Faulty: emission overtakes a span that is still held.                   *)
EmitLimitPastHeld(eof, held) == ReleaseLimit(eof)

(* A held span may still grow: nothing at or past its start is emitted.    *)
EmitLimit(eof, held) ==
    LET limit == ReleaseLimit(eof)
        safe  == IF held = {} THEN limit
                 ELSE Lower(limit, Min({e.start : e \in held}))
    IN  IF RecordAligned /\ ~eof THEN AlignToRecord(safe) ELSE safe

(* The replacement of a redacted byte; a discarded byte is scratch, 0x00.  *)
MaskByte(i) ==
    IF MaskStrategy = "format" /\ i >= bufBase /\ i \in input.shaped THEN "shape" ELSE "*"

(* Faulty: the tail of a span handed over earlier is forgotten.            *)
RenderedNoStraddle(to, spans) ==
    LET redacted == {i \in emitted .. (to - 1) : \E s \in spans : s.start <= i /\ i < s.end}
    IN  {[at |-> i, byte |-> "plain"] : i \in (emitted .. (to - 1)) \ redacted}
        \cup IF MaskStrategy = "fixed"
             THEN {[at |-> s.start, byte |-> "marker"] : s \in {t \in spans : t.start < to}}
             ELSE {[at |-> i, byte |-> MaskByte(i)] : i \in redacted}

(* What Emit writes for the offsets [emitted, to): plain bytes, and for a  *)
(* redacted range one marker where it starts, or one mask byte per offset. *)
Rendered(to, spans) ==
    LET redacted == {i \in emitted .. (to - 1) :
                        i < pendingEnd \/ \E s \in spans : s.start <= i /\ i < s.end}
        plain    == (emitted .. (to - 1)) \ redacted
    IN  {[at |-> i, byte |-> IF i < bufBase THEN "nul" ELSE "plain"] : i \in plain}
        \cup IF MaskStrategy = "fixed"
             THEN {[at |-> s.start, byte |-> "marker"] : s \in {t \in spans : t.start < to}}
             ELSE {[at |-> i, byte |-> MaskByte(i)] : i \in redacted}

(* Faulty: compaction drops a byte that is not emitted yet.                *)
CompactedBaseExtra(done, force) == IF done > bufBase THEN done + 1 ELSE bufBase

(* compact: worth a copy once half the buffer is reclaimable, or on demand.*)
CompactedBase(done, force) ==
    LET drop == done - bufBase
    IN  IF drop > 0 /\ (force \/ drop >= capacity \div 2) THEN done ELSE bufBase

(* flush.  A failing Write lets some prefix of the region, up to cut, out; *)
(* the run ends there in every caller.                                     *)
Flush(eof, force, failed, cut) ==
    LET limit == ReleaseLimit(eof)
        final == {e \in entries : e.end <= limit}
        held  == entries \ final
        spans == released \cup final
        to    == EmitLimit(eof, held)
    IN  /\ frontier' = limit
        /\ entries' = held
        /\ found' = found \cup final
        /\ IF to <= emitted
           THEN /\ ~failed /\ cut = emitted
                /\ released' = spans
                /\ UNCHANGED <<emitted, pendingEnd, out, bufBase>>
           ELSE /\ cut \in emitted .. to
                /\ failed \/ cut = to
                /\ emitted' = cut
                /\ released' = {s \in spans : s.start >= cut}
                /\ pendingEnd' = Max({pendingEnd} \cup {s.end : s \in {t \in spans : t.start < cut}})
                /\ out' = out \cup Rendered(cut, spans)
                /\ bufBase' = IF failed THEN bufBase ELSE CompactedBase(to, force)

----------------------------------------------------------------------------
(* The top of the loop: the context is polled, then makeRoom.              *)

Cancel ==
    /\ pc = "top"
    /\ Return("ctx")
    /\ UNCHANGED <<input, bufBase, bufEnd, capacity, entries, scanVars, outVars, readVars>>

MakeRoom ==
    /\ pc = "top"
    /\ bufBase' = IF bufEnd - bufBase < capacity THEN bufBase ELSE CompactedBase(emitted, TRUE)
    /\ Goto(IF bufEnd - bufBase' < capacity THEN "read" ELSE "room")
    /\ UNCHANGED <<input, bufEnd, capacity, entries, scanVars, outVars, readVars>>

(* Nothing reclaimable: flush once more, compact, re-check.                *)
RoomFlush ==
    /\ pc = "room"
    /\ \E failed \in BOOLEAN, cut \in emitted .. Higher(emitted, bufEnd) :
         /\ Flush(FALSE, TRUE, failed, cut)
         /\ IF failed THEN Return("write")
            ELSE Goto(IF bufEnd - bufBase' < capacity THEN "read" ELSE "full")
    /\ UNCHANGED <<input, bufEnd, capacity, scanVars, readVars>>

(* Faulty: a span that starts exactly at the frontier is not seen.         *)
DiscardableStrict(keepFrom) ==
    /\ \E first \in entries : first.start < emitted /\ first.end >= keepFrom
    /\ keepFrom > bufBase

(* Still full: the interior of the span that pins the emission frontier is *)
(* dropped, all but the last Window bytes; failing that, the buffer grows. *)
Discardable(keepFrom) ==
    /\ \E first \in entries :
         /\ \A e \in entries : first.start <= e.start
         /\ first.start <= emitted /\ first.end >= keepFrom
    /\ keepFrom > bufBase

Discard ==
    /\ pc = "full"
    /\ LET keepFrom == bufEnd - Window
       IN  IF Discardable(keepFrom)
           THEN bufBase' = keepFrom /\ capacity' = capacity
           ELSE capacity' = 2 * capacity /\ bufBase' = bufBase
    /\ Goto("read")
    /\ UNCHANGED <<input, bufEnd, entries, scanVars, outVars, readVars>>

----------------------------------------------------------------------------
(* Read.                                                                   *)

(* n > 0 bytes, possibly together with EOF or with an error.               *)
ReadSome ==
    /\ pc = "read"
    /\ \E n \in 1 .. Lower(capacity - (bufEnd - bufBase), input.len - bufEnd) :
         /\ bufEnd' = bufEnd + n
         /\ scanQ' = {c \in input.cands : bufEnd < c.trigEnd /\ c.trigEnd <= bufEnd + n}
         /\ rerr' \in {"nil", "err"} \cup (IF bufEnd + n = input.len THEN {"eof"} ELSE {})
    /\ zeroReads' = 0
    /\ Goto("scan")
    /\ UNCHANGED <<input, bufBase, capacity, pending, entries, outVars>>

(* Faulty: the count of empty reads is never raised.                       *)
ReadNothingForever ==
    /\ pc = "read" /\ Goto("top") /\ rerr' = "nil"
    /\ UNCHANGED <<input, bufBase, bufEnd, capacity, zeroReads, entries, scanVars, outVars>>

(* No byte and no error: tolerated a bounded number of times in a row.     *)
ReadNothing ==
    /\ pc = "read"
    /\ zeroReads' = zeroReads + 1
    /\ rerr' = "nil"
    /\ IF zeroReads' >= MaxConsecutiveZeroReads THEN Return("noProgress") ELSE Goto("top")
    /\ UNCHANGED <<input, bufBase, bufEnd, capacity, entries, scanVars, outVars>>

(* EOF or an error by itself.                                              *)
ReadEnds ==
    /\ pc = "read"
    /\ rerr' \in {"err"} \cup (IF bufEnd = input.len THEN {"eof"} ELSE {})
    /\ Goto(IF rerr' = "eof" THEN "drain" ELSE "flush")
    /\ UNCHANGED <<input, bufBase, bufEnd, capacity, zeroReads, entries, scanVars, outVars>>

(* A count outside 0..len(free).                                           *)
ReadBadCount ==
    /\ pc = "read"
    /\ Return("read")
    /\ UNCHANGED <<input, bufBase, bufEnd, capacity, entries, scanVars, outVars, readVars>>

----------------------------------------------------------------------------
(* Validation.                                                             *)

(* Faulty: lookahead not awaited; a byte too many awaited.                 *)
BufferedNoLookahead(c) == c.trigEnd <= bufEnd
BufferedStrict(c)      == c.trigEnd + MaxLookahead[c.rule] < bufEnd

Buffered(c) == c.trigEnd + MaxLookahead[c.rule] <= bufEnd

(* The window the validator is shown, and the one it is entitled to.       *)
WindowStart(c) == Higher(c.trigStart - MaxLookbehind[c.rule], bufBase)
WindowEnd(c)   == Lower(c.trigEnd + MaxLookahead[c.rule], bufEnd)
WholeWindow(c) == /\ WindowStart(c) = Higher(c.trigStart - MaxLookbehind[c.rule], 0)
                  /\ WindowEnd(c) = Lower(c.trigEnd + MaxLookahead[c.rule], input.len)

(* The reported range, clamped to the window.                              *)
ClampedStart(c) == Higher(c.from, WindowStart(c))
ClampedEnd(c)   == Lower(c.to, WindowEnd(c))

Confirmed(c) == c.answer = "span" /\ WholeWindow(c) /\ ClampedStart(c) < ClampedEnd(c)

ConfirmedSpan(c) == RawSpan(ClampedStart(c), ClampedEnd(c), c.rule, Confidence[c.rule])

Collected(c) == IF Confirmed(c) THEN AddSpan(entries, ConfirmedSpan(c)) ELSE entries

(* validate: a panic ends the call, without a flush.                       *)
Validate(c) ==
    IF c.answer = "panic"
    THEN Return("validator") /\ UNCHANGED entries
    ELSE entries' = Collected(c) /\ UNCHANGED <<pc, result>>

(* Matches are reported, and queued, in the order of their ends.           *)
FirstIn(c, Q) == \A d \in Q : c.trigEnd <= d.trigEnd

(* onTrigger, for one rule of one match.                                   *)
OnTrigger(c) ==
    /\ scanQ' = scanQ \ {c}
    /\ IF c.trigStart < bufBase
       THEN UNCHANGED <<pending, entries, pc, result>>
       ELSE IF Buffered(c)
            THEN Validate(c) /\ UNCHANGED pending
            ELSE pending' = pending \cup {c} /\ UNCHANGED <<entries, pc, result>>

Scan ==
    /\ pc = "scan"
    /\ IF scanQ = {}
       THEN Goto("pend") /\ UNCHANGED <<scanVars, entries>>
       ELSE \E c \in scanQ : FirstIn(c, scanQ) /\ OnTrigger(c)
    /\ UNCHANGED <<input, bufBase, bufEnd, capacity, outVars, readVars>>

(* validatePending(eof): a candidate at a time, then on.                   *)
ValidatePending(eof, next) ==
    LET ready == {c \in pending : eof \/ Buffered(c)}
    IN  /\ IF ready = {}
           THEN Goto(next) /\ UNCHANGED <<scanVars, entries>>
           ELSE \E c \in ready :
                  /\ FirstIn(c, ready)
                  /\ Validate(c)
                  /\ pending' = pending \ {c} /\ UNCHANGED scanQ
        /\ UNCHANGED <<input, bufBase, bufEnd, capacity, outVars, readVars>>

Pend  == pc = "pend" /\ ValidatePending(FALSE, IF rerr = "eof" THEN "drain" ELSE "flush")
Drain == pc = "drain" /\ ValidatePending(TRUE, "flush")

----------------------------------------------------------------------------
(* The end of an iteration.  After a read error the flush is best effort:  *)
(* its own failure is ignored.                                             *)
Finish ==
    /\ pc = "flush"
    /\ \E failed \in BOOLEAN, cut \in emitted .. Higher(emitted, bufEnd) :
         /\ Flush(rerr = "eof", FALSE, failed, cut)
         /\ \/ rerr = "err" /\ Return("read")
            \/ rerr # "err" /\ failed /\ Return("write")
            \/ rerr = "eof" /\ ~failed /\ Return("ok")
            \/ rerr = "nil" /\ ~failed /\ Goto("top")
    /\ UNCHANGED <<input, bufEnd, capacity, scanVars, readVars>>

Terminated == pc = "done" /\ UNCHANGED vars

Next ==
    \/ Cancel \/ MakeRoom \/ RoomFlush \/ Discard
    \/ ReadSome \/ ReadNothing \/ ReadEnds \/ ReadBadCount
    \/ Scan \/ Pend \/ Drain \/ Finish
    \/ Terminated

Spec == Init /\ [][Next]_vars

(* The loop is one goroutine: it keeps running as long as the source's     *)
(* Read and the destination's Write return.                                *)
FairSpec == Spec /\ WF_vars(Next)

----------------------------------------------------------------------------
(* The reference: what the input's candidates amount to when every window  *)
(* is whole, whatever the portions it is read in.                          *)

RefStart(c, in) == Higher(c.from, Higher(c.trigStart - MaxLookbehind[c.rule], 0))
RefEnd(c, in)   == Lower(c.to, Lower(c.trigEnd + MaxLookahead[c.rule], in.len))

ReferenceSpans(in) ==
    {RawSpan(RefStart(c, in), RefEnd(c, in), c.rule, Confidence[c.rule]) :
        c \in {d \in in.cands : d.answer = "span" /\ RefStart(d, in) < RefEnd(d, in)}}

ReferenceFindings(in) == Components(ReferenceSpans(in))

ReferenceOut(in) ==
    LET redacted == Offsets(ReferenceSpans(in))
        mask(i)  == IF MaskStrategy = "format" /\ i \in in.shaped THEN "shape" ELSE "*"
    IN  {[at |-> i, byte |-> "plain"] : i \in (0 .. (in.len - 1)) \ redacted}
        \cup IF MaskStrategy = "fixed"
             THEN {[at |-> f.start, byte |-> "marker"] : f \in ReferenceFindings(in)}
             ELSE {[at |-> i, byte |-> mask(i)] : i \in redacted}

(* Candidates whose validator may still run.                               *)
Unvalidated == scanQ \cup pending \cup {c \in input.cands : c.trigEnd > bufEnd}

----------------------------------------------------------------------------
(* Every variable of the loop stays in its range.                          *)
Entry == [start : Nat, end : Nat, rule : Rules, confidence : 0..255, attribStart : Nat]

TypeOK ==
    /\ input \in Inputs
    /\ pc \in {"top", "room", "full", "read", "scan", "pend", "drain", "flush", "done"}
    /\ bufBase \in Nat /\ bufEnd \in Nat /\ capacity \in Nat /\ emitted \in Nat
    /\ bufBase <= bufEnd /\ bufEnd <= input.len
    /\ scanQ \subseteq input.cands /\ pending \subseteq input.cands
    /\ entries \subseteq Entry /\ released \subseteq Entry /\ found \subseteq Entry
    /\ pendingEnd \in Nat /\ zeroReads \in Nat /\ frontier \in Int
    /\ rerr \in {"nil", "eof", "err"}
    /\ result \in {"none", "ok", "ctx", "read", "noProgress", "validator", "write"}
    /\ out \subseteq [at : Nat, byte : {"plain", "nul", "marker", "*", "shape"}]

(* No byte of a secret the whole input would confirm is ever written       *)
(* plain, not even by a call that ends in an error before confirming it.   *)
NoLeak == \A o \in out : o.byte = "plain" => o.at \notin Offsets(ReferenceSpans(input))

(* A trigger is never behind the buffer, and a validator that runs sees    *)
(* its whole window, cut short only by the two ends of the input.          *)
WindowsWhole ==
    pc \in {"scan", "pend", "drain"} =>
        \A c \in scanQ \cup pending :
            /\ c.trigStart >= bufBase
            /\ Buffered(c) \/ pc = "drain" => WholeWindow(c)

(* Release's contract: no span added later starts at or before the limit   *)
(* of an earlier Release, wherever in its window a validator finds it.     *)
ReleaseContract ==
    pc # "done" =>
        \A c \in Unvalidated : c.trigStart - MaxLookbehind[c.rule] > frontier

(* "Structurally this never binds": before the end of the input a queued   *)
(* candidate's window never reaches back to the release limit.             *)
QueueNeverBinds ==
    pc \in {"top", "room", "full", "read"} \/ (pc = "flush" /\ rerr # "eof") =>
        \A c \in pending : c.trigStart - MaxLookbehind[c.rule] > bufEnd - Window

(* The buffer never grows, and Read is never called without free space.    *)
BufferFixed ==
    /\ capacity = ChunkSize
    /\ bufEnd - bufBase <= capacity
    /\ pc = "read" => bufEnd - bufBase < capacity

(* Discarded bytes that are still to be output lie inside one span, and it *)
(* is the span that stands at the emission frontier.                       *)
GapCovered ==
    pc # "done" /\ emitted < bufBase =>
        \E e \in entries : e.start <= emitted /\ bufBase <= e.end

(* What Emit is told never makes it panic: spans lie ahead of the write    *)
(* position and of the redaction in progress, and apart from each other.   *)
WriterContract ==
    LET ahead == entries \cup released
    IN  /\ \A s \in ahead : s.start >= emitted /\ (pendingEnd > 0 => s.start > pendingEnd)
        /\ \A s, t \in ahead : s # t => ~Touches(s, t)

(* Output is never held back longer than it must: at the top of the loop   *)
(* it is a window behind, or stands at a span that may still grow.         *)
EmitsPromptly ==
    pc = "top" /\ ~RecordAligned =>
        emitted >= bufEnd - Window \/ \E e \in entries : e.start <= emitted

(* Findings are reported in input order, each apart from those before it.  *)
FindingsInOrder == [][\A f \in found' \ found, g \in found : g.end < f.start]_vars

(* A source that ends, fails or stalls ends the call.                      *)
Terminates == <>(pc = "done")
=============================================================================
