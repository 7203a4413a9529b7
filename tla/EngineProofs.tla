---------------------------- MODULE EngineProofs ----------------------------
(***************************************************************************)
(* Theorems about Engine, for every rule set, window, chunk size and input *)
(* that EngineAssumption allows, and every way the source, the destination *)
(* and the context behave.  The argument is an inductive invariant in      *)
(* three layers.  IInv: no secret is lost.  SpanInv, where the spans       *)
(* stand: the collector's entries and the findings reported never touch,   *)
(* release takes them in input order, and what Emit is told keeps its      *)
(* contract.  RefInv, what they are: the engine reports and writes what    *)
(* the input determines, so it implements the abstract redactor.           *)
(***************************************************************************)
EXTENDS EngineRefinement, SpansProofs

(* What EngineAssumption says of one candidate of one input.               *)
LEMMA CandidateFacts ==
    ASSUME NEW in \in Inputs, NEW c \in in.cands
    PROVE  /\ in.len \in Nat /\ c.rule \in Rules
           /\ c.trigStart \in Nat /\ c.trigEnd \in Nat /\ c.from \in Int /\ c.to \in Int
           /\ c.trigStart < c.trigEnd /\ c.trigEnd <= in.len
           /\ MaxLookbehind[c.rule] \in Nat /\ MaxLookahead[c.rule] \in Nat
           /\ Confidence[c.rule] \in 0..255
           /\ c.trigStart - MaxLookbehind[c.rule] >= c.trigEnd + MaxLookahead[c.rule] - Window
<1>1. WellFormed(in) BY EngineAssumption
<1>2. c \in Candidate BY <1>1 DEF WellFormed
<1>3. /\ in.len \in Nat /\ c.trigStart < c.trigEnd /\ c.trigEnd <= in.len
      /\ MaxLookbehind[c.rule] + (c.trigEnd - c.trigStart) + MaxLookahead[c.rule] <= Window
  BY <1>1 DEF WellFormed
<1>4. c.rule \in Rules /\ c.trigStart \in Nat /\ c.trigEnd \in Nat /\ c.from \in Int /\ c.to \in Int
  BY <1>2 DEF Candidate
<1>5. /\ MaxLookbehind[c.rule] \in Nat /\ MaxLookahead[c.rule] \in Nat
      /\ Confidence[c.rule] \in 0..255 /\ Window \in Nat
  BY <1>4, EngineAssumption
<1>6. c.trigStart - MaxLookbehind[c.rule] >= c.trigEnd + MaxLookahead[c.rule] - Window
  BY <1>3, <1>4, <1>5
<1> QED BY <1>3, <1>4, <1>5, <1>6

(* Zero is below every start clamped to it.                                *)
LEMMA HigherZero == \A a \in Int : Higher(a, 0) \in Nat /\ a <= Higher(a, 0)
BY DEF Higher

(* Clamping to zero keeps the order.                                       *)
LEMMA HigherMonotone ==
    \A a, b, x \in Int : a <= b /\ x <= Higher(a, 0) => x <= Higher(b, 0)
BY DEF Higher

(* A buffer that starts later holds less.                                  *)
LEMMA HoldsLess ==
    \A end, base, later, size \in Int :
        base <= later /\ end - base <= size => end - later <= size
OBVIOUS

(* Entries of the engine are spans of bounded confidence.                  *)
LEMMA EntryAttributed == Entry \subseteq Attributed /\ \A e \in Entry : e.confidence <= 255
<1>1. Rules \subseteq Nat /\ 0..255 \subseteq Nat /\ \A n \in 0..255 : n <= 255
  BY EngineAssumption
<1> QED BY <1>1 DEF Entry, Attributed

(* What the invariant says of the numbers and sets of the state.           *)
LEMMA Typed ==
    ASSUME IInv
    PROVE  /\ input \in Inputs /\ input.len \in Nat /\ Window \in Nat /\ ChunkSize \in Nat
           /\ bufBase \in Nat /\ bufEnd \in Nat /\ capacity \in Nat /\ emitted \in Nat
           /\ pendingEnd \in Nat /\ frontier \in Int /\ zeroReads \in Nat
           /\ scanQ \subseteq input.cands /\ pending \subseteq input.cands
           /\ entries \subseteq Entry /\ released \subseteq Entry /\ found \subseteq Entry
           /\ bufBase <= bufEnd /\ bufEnd <= input.len /\ emitted <= bufEnd
           /\ capacity = ChunkSize /\ bufEnd - bufBase <= capacity
BY EngineAssumption DEF IInv, TypeOK, Bounded, BufferFixed, WellFormed

(* The call starts with every candidate still ahead.                       *)
LEMMA InitIInv == Init => IInv
<1> SUFFICES ASSUME Init PROVE IInv OBVIOUS
<1> USE DEF Init
<1>0. Window \in Nat /\ ChunkSize \in Nat \ {0} /\ input \in Inputs /\ input.len \in Nat
  BY EngineAssumption DEF WellFormed
<1>1. TypeOK BY <1>0, EngineAssumption DEF TypeOK
<1>2. Bounded BY <1>0 DEF Bounded
<1>3. Queues BY DEF Queues
<1>4. Unvalidated = input.cands
  <2>1. \A c \in input.cands : c.trigEnd > 0 BY <1>0, CandidateFacts
  <2> QED BY <2>1 DEF Unvalidated
<1>5. AheadOfFrontier
  <2>1. \A c \in input.cands : c.trigStart - MaxLookbehind[c.rule] > -Window
    BY <1>0, CandidateFacts
  <2>2. \A c \in input.cands : 0 <= Higher(c.trigStart - MaxLookbehind[c.rule], 0)
    <3> SUFFICES ASSUME NEW c \in input.cands
                 PROVE  0 <= Higher(c.trigStart - MaxLookbehind[c.rule], 0) OBVIOUS
    <3> DEFINE start == c.trigStart - MaxLookbehind[c.rule]
    <3>1. start \in Int BY <1>0, CandidateFacts
    <3> HIDE DEF start
    <3>2. 0 <= Higher(start, 0) BY <3>1, HigherZero
    <3> QED BY <3>2 DEF start
  <2>3. -Window <= frontier /\ frontier <= bufEnd - Window /\ emitted <= Higher(frontier, 0)
    BY <1>0 DEF Higher
  <2> QED BY <1>4, <2>1, <2>2, <2>3 DEF AheadOfFrontier
<1>6. Accounted BY <1>4 DEF Accounted
<1>7. Pinned BY DEF Pinned
<1>8. BufferFixed BY <1>0 DEF BufferFixed
<1>9. NoLeak BY DEF NoLeak
<1> QED BY <1>1, <1>2, <1>3, <1>5, <1>6, <1>7, <1>8, <1>9 DEF IInv

----------------------------------------------------------------------------
(* Steps that neither validate nor flush.                                  *)

LEMMA CancelIInv == IInv /\ Cancel => IInv'
<1> SUFFICES ASSUME IInv, Cancel PROVE IInv' OBVIOUS
<1> USE DEF IInv, Cancel, Return, scanVars, outVars, readVars
<1>1. TypeOK' BY DEF TypeOK
<1>2. Bounded' BY DEF Bounded
<1>3. Queues' BY DEF Queues
<1>4. AheadOfFrontier' /\ Accounted' BY DEF AheadOfFrontier, Accounted
<1>5. Pinned' BY DEF Pinned
<1>6. BufferFixed' BY DEF BufferFixed
<1>7. NoLeak' BY DEF NoLeak
<1> QED BY <1>1, <1>2, <1>3, <1>4, <1>5, <1>6, <1>7

LEMMA AccountedFrame ==
    ASSUME Accounted, pc # "done", Unvalidated' = Unvalidated, input' = input,
           entries' = entries, released' = released, emitted' = emitted, pendingEnd' = pendingEnd
    PROVE  Accounted'
BY DEF Accounted, Settled

LEMMA MakeRoomIInv == IInv /\ MakeRoom => IInv'
<1> SUFFICES ASSUME IInv, MakeRoom PROVE IInv' OBVIOUS
<1> USE DEF IInv, MakeRoom, Goto, scanVars, outVars, readVars
<1>0. /\ input \in Inputs /\ input.len \in Nat /\ bufBase \in Nat /\ bufEnd \in Nat /\ capacity \in Nat
      /\ emitted \in Nat /\ frontier \in Int /\ bufBase <= bufEnd /\ emitted <= bufEnd
      /\ capacity = ChunkSize /\ bufEnd - bufBase <= capacity
      /\ pc = "top" /\ pc' \in {"read", "room"}
      /\ bufEnd' = bufEnd /\ capacity' = capacity /\ emitted' = emitted
  BY EngineAssumption DEF TypeOK, Bounded, BufferFixed, WellFormed
<1>1. /\ bufBase' \in Nat /\ bufBase <= bufBase' /\ bufBase' <= bufEnd
      /\ bufBase' = bufBase \/ bufBase' = emitted
      /\ pc' = "read" => bufEnd - bufBase' < capacity
      /\ pc' = "room" => emitted <= bufBase' /\ bufEnd - bufBase' >= capacity
  BY <1>0 DEF CompactedBase
<1>2. TypeOK' BY <1>0, <1>1 DEF TypeOK
<1>3. Bounded' BY <1>0, <1>1 DEF Bounded
<1>4. Queues' BY <1>0 DEF Queues, Buffered
<1>5. Unvalidated' = Unvalidated BY DEF Unvalidated
<1>6. AheadOfFrontier'
  <2>1. ASSUME NEW c \in Unvalidated
        PROVE  bufBase' <= Higher(c.trigStart - MaxLookbehind[c.rule], 0)
    <3>1. c \in input.cands BY DEF Unvalidated, TypeOK
    <3> DEFINE start == c.trigStart - MaxLookbehind[c.rule]
    <3>2. start \in Int BY <3>1, <1>0, CandidateFacts
    <3>3. start > frontier /\ bufBase <= Higher(start, 0) /\ emitted <= Higher(frontier, 0)
      BY <1>0 DEF AheadOfFrontier
    <3> HIDE DEF start
    <3>4. emitted <= Higher(start, 0) BY <3>2, <3>3, <1>0, HigherMonotone
    <3>5. bufBase' <= Higher(start, 0) BY <3>3, <3>4, <1>1
    <3> QED BY <3>5 DEF start
  <2> QED BY <1>0, <1>5, <2>1 DEF AheadOfFrontier
<1>7. Accounted' BY <1>0, <1>5, AccountedFrame
<1>8. NoLeak' BY DEF NoLeak
<1> HIDE DEF IInv, MakeRoom
<1>9. bufEnd - bufBase' <= capacity
  <2>1. /\ bufEnd \in Int /\ bufBase \in Int /\ bufBase' \in Int /\ capacity \in Int
        /\ bufBase <= bufBase' /\ bufEnd - bufBase <= capacity
    BY <1>0, <1>1
  <2> QED BY <2>1, HoldsLess, Zenon
<1>10. BufferFixed' BY <1>0, <1>1, <1>9 DEF BufferFixed
<1>11. Pinned'
  <2>1. pc' = "room" => bufEnd - bufBase' = capacity /\ emitted <= bufBase'
    <3> DEFINE held == bufEnd - bufBase'
    <3>1. held \in Int /\ capacity \in Int BY <1>0, <1>1
    <3>2. pc' = "room" => emitted <= bufBase' /\ held >= capacity BY <1>1
    <3>3. held <= capacity BY <1>9
    <3> HIDE DEF held
    <3>4. pc' = "room" => held = capacity BY <3>1, <3>2, <3>3
    <3> QED BY <3>2, <3>4 DEF held
  <2>2. /\ bufEnd' = bufEnd /\ capacity' = capacity /\ emitted' = emitted
        /\ pc' # "full"
    BY <1>0
  <2> QED BY <2>1, <2>2 DEF Pinned
<1> QED BY <1>2, <1>3, <1>4, <1>6, <1>7, <1>8, <1>10, <1>11 DEF IInv

(* The buffer never grows: a full one is pinned, so there is something to  *)
(* discard, and what is discarded no queued or later window reaches.       *)
LEMMA DiscardIInv == IInv /\ Discard => IInv'
<1> SUFFICES ASSUME IInv, Discard PROVE IInv' OBVIOUS
<1> USE DEF IInv, Discard, Goto, scanVars, outVars, readVars
<1>0. /\ input \in Inputs /\ input.len \in Nat /\ bufBase \in Nat /\ bufEnd \in Nat /\ capacity \in Nat
      /\ emitted \in Nat /\ frontier \in Int /\ bufBase <= bufEnd /\ emitted <= bufEnd
      /\ capacity = ChunkSize /\ pc = "full" /\ pc' = "read" /\ Window \in Nat
  BY EngineAssumption DEF TypeOK, Bounded, BufferFixed, WellFormed
<1>1. Discardable(bufEnd - Window) BY <1>0 DEF Pinned
<1>2. bufBase' = bufEnd - Window /\ capacity' = capacity /\ bufEnd - Window > bufBase
  BY <1>1 DEF Discardable
<1>3. TypeOK' BY <1>0, <1>2 DEF TypeOK
<1>4. Bounded' BY <1>0 DEF Bounded
<1>5. Queues' BY <1>0 DEF Queues, Buffered
<1>6. Unvalidated' = Unvalidated BY DEF Unvalidated
<1>7. AheadOfFrontier'
  <2>1. ASSUME NEW c \in Unvalidated
        PROVE  bufEnd - Window <= Higher(c.trigStart - MaxLookbehind[c.rule], 0)
    <3>1. c \in input.cands BY DEF Unvalidated, TypeOK
    <3>2. /\ c.trigStart - MaxLookbehind[c.rule] >= c.trigEnd + MaxLookahead[c.rule] - Window
          /\ c.trigStart \in Nat /\ c.trigEnd \in Nat
          /\ MaxLookbehind[c.rule] \in Nat /\ MaxLookahead[c.rule] \in Nat
      BY <3>1, <1>0, CandidateFacts
    <3>3. c.trigEnd + MaxLookahead[c.rule] > bufEnd
      BY <3>2, <1>0 DEF Unvalidated, Queues, Buffered
    <3> DEFINE start == c.trigStart - MaxLookbehind[c.rule]
    <3>4. start \in Int /\ bufEnd - Window <= start BY <3>2, <3>3, <1>0
    <3> HIDE DEF start
    <3>5. bufEnd - Window <= Higher(start, 0) BY <3>4, <1>0, HigherZero
    <3> QED BY <3>5 DEF start
  <2> QED BY <1>0, <1>2, <1>6, <2>1 DEF AheadOfFrontier
<1>8. Accounted' BY <1>0, <1>6, AccountedFrame
<1>9. BufferFixed' BY <1>0, <1>2 DEF BufferFixed
<1>10. Pinned' BY <1>0 DEF Pinned
<1>11. NoLeak' BY DEF NoLeak
<1> QED BY <1>3, <1>4, <1>5, <1>7, <1>8, <1>9, <1>10, <1>11

----------------------------------------------------------------------------
(* Reading.                                                                *)

(* Bytes read move their candidates from ahead of the buffer to the scan.  *)
LEMMA ReadSomeIInv == IInv /\ ReadSome => IInv'
<1> SUFFICES ASSUME IInv, ReadSome PROVE IInv' OBVIOUS
<1>0. pc = "read" /\ pc' = "scan" /\ result' = result BY DEF ReadSome, Goto
<1>1. PICK n \in 1 .. Lower(capacity - (bufEnd - bufBase), input.len - bufEnd) :
        /\ bufEnd' = bufEnd + n
        /\ scanQ' = {c \in input.cands : bufEnd < c.trigEnd /\ c.trigEnd <= bufEnd + n}
        /\ rerr' \in {"nil", "err"} \cup (IF bufEnd + n = input.len THEN {"eof"} ELSE {})
  BY DEF ReadSome
<1> DEFINE upto == bufEnd + n
<1>2. /\ input' = input /\ bufBase' = bufBase /\ capacity' = capacity /\ pending' = pending
      /\ entries' = entries /\ released' = released /\ emitted' = emitted /\ found' = found
      /\ pendingEnd' = pendingEnd /\ out' = out /\ frontier' = frontier /\ zeroReads' = 0
      /\ bufEnd' = upto
      /\ scanQ' = {c \in input.cands : bufEnd < c.trigEnd /\ c.trigEnd <= upto}
      /\ rerr' \in {"nil", "eof", "err"} /\ (rerr' = "eof" => upto = input.len)
  BY <1>1 DEF ReadSome, outVars
<1>3. /\ upto \in Nat /\ bufEnd <= upto /\ upto <= input.len /\ upto - bufBase <= capacity
  <2> DEFINE free == capacity - (bufEnd - bufBase)
             left == input.len - bufEnd
  <2>1. free \in Int /\ left \in Int BY Typed
  <2> HIDE DEF free, left
  <2>2. Lower(free, left) \in Int /\ Lower(free, left) <= free /\ Lower(free, left) <= left
    BY <2>1, LowerHigher
  <2>3. n \in 1 .. Lower(free, left) BY DEF free, left
  <2>4. n \in Nat /\ n >= 1 /\ n <= free /\ n <= left BY <2>1, <2>2, <2>3
  <2> QED BY <2>4, Typed DEF free, left
<1> HIDE DEF upto
<1>4. scanQ = {} BY <1>0 DEF IInv, Queues
<1>5. Unvalidated' = Unvalidated
  <2>1. \A c \in input.cands : c.trigEnd \in Nat BY Typed, CandidateFacts
  <2> QED BY <1>2, <1>3, <1>4, <2>1, Typed DEF Unvalidated
<1>6. TypeOK'
  <2>1. scanQ' \subseteq input'.cands /\ bufBase <= upto BY <1>2, <1>3, Typed
  <2> QED BY <1>0, <1>2, <1>3, <2>1 DEF IInv, TypeOK
<1>7. Bounded'
  <2>1. emitted <= upto BY <1>3, Typed
  <2> QED BY <1>2, <2>1 DEF IInv, Bounded
<1>8. Queues' BY <1>0, <1>2 DEF Queues
<1>9. AheadOfFrontier'
  <2>1. /\ -Window <= frontier /\ frontier <= bufEnd - Window /\ emitted <= Higher(frontier, 0)
        /\ \A c \in Unvalidated :
             /\ c.trigStart - MaxLookbehind[c.rule] > frontier
             /\ bufBase <= Higher(c.trigStart - MaxLookbehind[c.rule], 0)
    BY <1>0 DEF IInv, AheadOfFrontier
  <2>2. frontier <= upto - Window BY <1>3, <2>1, Typed
  <2>3. frontier' <= bufEnd' - Window BY <1>2, <2>2
  <2> QED BY <1>2, <1>5, <2>1, <2>3 DEF AheadOfFrontier
<1>10. Accounted' BY <1>0, <1>2, <1>5, AccountedFrame DEF IInv
<1>11. Pinned' BY <1>0 DEF Pinned
<1>12. BufferFixed'
  <2>1. bufEnd' - bufBase' <= capacity BY <1>2, <1>3
  <2>2. capacity = ChunkSize BY Typed
  <2> QED BY <1>0, <1>2, <2>1, <2>2 DEF BufferFixed
<1>13. NoLeak' BY <1>2 DEF IInv, NoLeak
<1> QED BY <1>6, <1>7, <1>8, <1>9, <1>10, <1>11, <1>12, <1>13 DEF IInv

(* A Read that brings no byte changes no more than where the loop goes on. *)
LEMMA ReadBareIInv == IInv /\ (ReadNothing \/ ReadEnds \/ ReadBadCount) => IInv'
<1> SUFFICES ASSUME IInv, ReadNothing \/ ReadEnds \/ ReadBadCount PROVE IInv' OBVIOUS
<1>1. /\ pc = "read"
      /\ input' = input /\ bufBase' = bufBase /\ bufEnd' = bufEnd /\ capacity' = capacity
      /\ scanQ' = scanQ /\ pending' = pending
      /\ entries' = entries /\ released' = released /\ emitted' = emitted /\ found' = found
      /\ pendingEnd' = pendingEnd /\ out' = out /\ frontier' = frontier
  BY DEF ReadNothing, ReadEnds, ReadBadCount, outVars, scanVars
<1>2. /\ zeroReads' \in Nat
      /\ rerr' \in {"nil", "eof", "err"}
      /\ result' = result \/ result' \in {"read", "noProgress"}
      /\ \/ pc' = "done"
         \/ pc' = "top" /\ rerr' = "nil"
         \/ pc' = "drain" /\ bufEnd = input.len
         \/ pc' = "flush" /\ rerr' # "eof"
  <2>1. rerr \in {"nil", "eof", "err"} /\ zeroReads \in Nat BY DEF IInv, TypeOK
  <2>2. CASE ReadNothing
    <3>1. zeroReads' \in Nat BY <2>1, <2>2 DEF ReadNothing
    <3> QED BY <2>2, <3>1 DEF ReadNothing, Goto, Return
  <2>3. CASE ReadEnds BY <2>1, <2>3 DEF ReadEnds, Goto
  <2>4. CASE ReadBadCount BY <2>1, <2>4 DEF ReadBadCount, Return, readVars
  <2> QED BY <2>2, <2>3, <2>4
<1>3. TypeOK' BY <1>1, <1>2 DEF IInv, TypeOK
<1>4. Bounded' BY <1>1 DEF IInv, Bounded
<1>5. Queues' BY <1>1, <1>2 DEF IInv, Queues, Buffered
<1>6. Unvalidated' = Unvalidated BY <1>1 DEF Unvalidated
<1>7. AheadOfFrontier' BY <1>1, <1>6 DEF IInv, AheadOfFrontier
<1>8. Accounted' BY <1>1, <1>6, AccountedFrame DEF IInv
<1>9. Pinned' BY <1>2 DEF Pinned
<1>10. BufferFixed' BY <1>1, <1>2 DEF IInv, BufferFixed
<1>11. NoLeak' BY <1>1 DEF IInv, NoLeak
<1> QED BY <1>3, <1>4, <1>5, <1>7, <1>8, <1>9, <1>10, <1>11 DEF IInv

----------------------------------------------------------------------------
(* Validating.                                                             *)

(* A validator that runs is shown its whole window, and a queued trigger   *)
(* is never behind the buffer.                                             *)
LEMMA WindowIsWhole ==
    ASSUME IInv, pc \in {"scan", "pend", "drain"}, NEW c \in scanQ \cup pending
    PROVE  /\ c.trigStart >= bufBase
           /\ Buffered(c) \/ pc = "drain" => WholeWindow(c)
<1> DEFINE start == c.trigStart - MaxLookbehind[c.rule]
           stop  == c.trigEnd + MaxLookahead[c.rule]
<1>1. c \in input.cands /\ c \in Unvalidated BY Typed DEF Unvalidated
<1>2. /\ c.trigStart \in Nat /\ start \in Int /\ stop \in Int /\ start <= c.trigStart
      /\ bufBase \in Nat /\ bufEnd \in Nat /\ bufEnd <= input.len /\ input.len \in Nat
  BY <1>1, Typed, CandidateFacts
<1>3. bufBase <= Higher(start, 0) BY <1>1 DEF IInv, AheadOfFrontier
<1>4. pc = "drain" => bufEnd = input.len BY DEF IInv, Queues
<1>5. Buffered(c) => stop <= bufEnd BY DEF Buffered
<1>6. WholeWindow(c) <=> /\ Higher(start, bufBase) = Higher(start, 0)
                         /\ Lower(stop, bufEnd) = Lower(stop, input.len)
  BY DEF WholeWindow, WindowStart, WindowEnd
<1> HIDE DEF start, stop
<1>7. c.trigStart >= bufBase BY <1>2, <1>3 DEF Higher
<1>8. Higher(start, bufBase) = Higher(start, 0) BY <1>2, <1>3 DEF Higher
<1>9. stop <= bufEnd \/ bufEnd = input.len => Lower(stop, bufEnd) = Lower(stop, input.len)
  BY <1>2 DEF Lower
<1> QED BY <1>4, <1>5, <1>6, <1>7, <1>8, <1>9

(* A confirmed span is the reference's, and lies inside the input.         *)
LEMMA ConfirmedIsReference ==
    ASSUME IInv, NEW c \in input.cands, WholeWindow(c)
    PROVE  /\ ClampedStart(c) = RefStart(c, input) /\ ClampedEnd(c) = RefEnd(c, input)
           /\ RefStart(c, input) \in Nat /\ RefEnd(c, input) \in Int
           /\ RefEnd(c, input) <= input.len
           /\ Confirmed(c) => /\ ConfirmedSpan(c) \in Entry
                              /\ ConfirmedSpan(c).start = RefStart(c, input)
                              /\ ConfirmedSpan(c).end = RefEnd(c, input)
<1> DEFINE start == c.trigStart - MaxLookbehind[c.rule]
           stop  == c.trigEnd + MaxLookahead[c.rule]
<1>1. /\ start \in Int /\ stop \in Int /\ input.len \in Nat /\ c.from \in Int /\ c.to \in Int
      /\ c.rule \in Rules /\ Confidence[c.rule] \in 0..255
  BY Typed, CandidateFacts
<1>2. /\ RefStart(c, input) = Higher(c.from, Higher(start, 0))
      /\ RefEnd(c, input) = Lower(c.to, Lower(stop, input.len))
  BY DEF RefStart, RefEnd
<1>3. ClampedStart(c) = RefStart(c, input) /\ ClampedEnd(c) = RefEnd(c, input)
  BY DEF ClampedStart, ClampedEnd, WholeWindow, RefStart, RefEnd
<1> HIDE DEF start, stop
<1>4. Higher(start, 0) \in Nat BY <1>1, HigherZero
<1>5. Lower(stop, input.len) \in Int /\ Lower(stop, input.len) <= input.len
  BY <1>1, input.len \in Int, LowerHigher
<1>6. RefStart(c, input) \in Nat BY <1>1, <1>2, <1>4 DEF Higher
<1>7. RefEnd(c, input) \in Int /\ RefEnd(c, input) <= input.len
  BY <1>1, <1>2, <1>5 DEF Lower
<1>8. ASSUME Confirmed(c)
      PROVE  /\ ConfirmedSpan(c) \in Entry
             /\ ConfirmedSpan(c).start = RefStart(c, input)
             /\ ConfirmedSpan(c).end = RefEnd(c, input)
  <2>1. RefStart(c, input) < RefEnd(c, input) BY <1>3, <1>8 DEF Confirmed
  <2>2. RefEnd(c, input) \in Nat BY <1>6, <1>7, <2>1
  <2>3. ConfirmedSpan(c) = [start |-> RefStart(c, input), end |-> RefEnd(c, input),
                            rule |-> c.rule, confidence |-> Confidence[c.rule],
                            attribStart |-> RefStart(c, input)]
    BY <1>3 DEF ConfirmedSpan, RawSpan
  <2> QED BY <1>1, <1>6, <2>2, <2>3 DEF Entry
<1> QED BY <1>3, <1>6, <1>7, <1>8

(* Collecting keeps the entries entries, inside the input, and loses no    *)
(* offset.                                                                 *)
LEMMA CollectedKeeps ==
    ASSUME IInv, NEW c \in input.cands, WholeWindow(c)
    PROVE  /\ Collected(c) \subseteq Entry /\ \A e \in Collected(c) : e.end <= input.len
           /\ \A i \in Int, old \in entries :
                old.start <= i /\ i < old.end => \E e \in Collected(c) : e.start <= i /\ i < e.end
           /\ \A i \in Int :
                Confirmed(c) /\ RefStart(c, input) <= i /\ i < RefEnd(c, input)
                => \E e \in Collected(c) : e.start <= i /\ i < e.end
<1>1. CASE ~Confirmed(c)
  BY <1>1, Typed DEF Collected, IInv, Bounded
<1>2. CASE Confirmed(c)
  <2> DEFINE s == ConfirmedSpan(c)
  <2>1. /\ s \in Entry /\ s.start = RefStart(c, input) /\ s.end = RefEnd(c, input)
        /\ s.end <= input.len
    BY <1>2, ConfirmedIsReference
  <2>2. Collected(c) = AddSpan(entries, s) BY <1>2 DEF Collected
  <2> HIDE DEF s
  <2>3. /\ entries \in SUBSET Attributed /\ s \in Attributed /\ input.len \in Nat
        /\ Within(entries \cup {s}, input.len)
        /\ 255 \in Nat /\ \A e \in entries \cup {s} : e.confidence <= 255
    BY <2>1, Typed, EntryAttributed DEF IInv, Bounded, Within
  <2>4. ASSUME NEW e \in AddSpan(entries, s) PROVE e \in Entry /\ e.end <= input.len
    <3>1. /\ e \in Attributed /\ e.end <= input.len
          /\ \E f \in entries \cup {s} : e.rule = f.rule /\ e.confidence = f.confidence
      BY <2>3, AddSpanKeeps
    <3>2. e.rule \in Rules /\ e.confidence \in 0..255 BY <3>1, <2>1, Typed DEF Entry
    <3> QED BY <3>1, <3>2 DEF Entry, Attributed
  <2>5. ASSUME NEW i \in Int, NEW old \in entries \cup {s}, old.start <= i, i < old.end
        PROVE  \E e \in AddSpan(entries, s) : e.start <= i /\ i < e.end
    BY <2>3, <2>5, AddSpanCovers
  <2> QED BY <2>1, <2>2, <2>4, <2>5
<1> QED BY <1>1, <1>2

(* A validator that runs takes its candidate off a queue and puts what it  *)
(* confirms, or nothing, into the collector; or it panics.                 *)
LEMMA ValidatedIInv ==
    ASSUME IInv, pc \in {"scan", "pend", "drain"}, NEW c \in scanQ \cup pending,
           Buffered(c) \/ pc = "drain", Validate(c),
           scanQ' \subseteq scanQ, scanQ \ {c} \subseteq scanQ',
           pending' \subseteq pending, pending \ {c} \subseteq pending',
           input' = input, bufBase' = bufBase, bufEnd' = bufEnd, capacity' = capacity,
           released' = released, emitted' = emitted, pendingEnd' = pendingEnd, found' = found,
           out' = out, frontier' = frontier, zeroReads' = zeroReads, rerr' = rerr
    PROVE  IInv'
<1>1. WholeWindow(c) /\ c \in input.cands BY WindowIsWhole, Typed
<1>2. \/ entries' = entries /\ pc' = "done" /\ result' = "validator"
      \/ entries' = Collected(c) /\ pc' = pc /\ result' = result /\ c.answer # "panic"
  BY DEF Validate, Return
<1>3. entries' \subseteq Entry /\ \A e \in entries' : e.end <= input.len
  BY <1>1, <1>2, CollectedKeeps, Typed DEF IInv, Bounded
<1>4. TypeOK' BY <1>2, <1>3 DEF IInv, TypeOK
<1>5. Bounded' BY <1>3 DEF IInv, Bounded
<1>6. Queues' BY <1>2 DEF IInv, Queues, Buffered
<1>7. Unvalidated' \subseteq Unvalidated /\ Unvalidated \ {c} \subseteq Unvalidated'
  BY DEF Unvalidated
<1>8. AheadOfFrontier' BY <1>2, <1>7 DEF IInv, AheadOfFrontier
<1>9. Accounted'
  <2>1. SUFFICES ASSUME pc' # "done", NEW d \in input.cands \ Unvalidated', d.answer = "span",
                        NEW i \in RefStart(d, input) .. (RefEnd(d, input) - 1)
                 PROVE  Settled(i)'
    BY DEF Accounted, RefStart, RefEnd
  <2>2. entries' = Collected(c) /\ pc # "done" BY <1>2, <2>1
  <2>3. ASSUME NEW e \in entries' \cup released', e.start <= i, i < e.end PROVE Settled(i)'
    BY <2>3 DEF Settled
  <2>4. CASE d \notin Unvalidated
    <3>1. Settled(i) BY <2>1, <2>2, <2>4 DEF IInv, Accounted
    <3>2. i \in Int
      <4>1. d \in input.cands /\ input \in Inputs BY Typed
      <4> QED OBVIOUS
    <3>3. CASE i < emitted \/ i < pendingEnd BY <3>3 DEF Settled
    <3>4. CASE \E e \in released : e.start <= i /\ i < e.end BY <3>4, <2>3
    <3>5. CASE \E e \in entries : e.start <= i /\ i < e.end
      <4>1. PICK old \in entries : old.start <= i /\ i < old.end BY <3>5
      <4>2. \E e \in Collected(c) : e.start <= i /\ i < e.end
        BY <3>2, <4>1, <1>1, CollectedKeeps
      <4> QED BY <4>2, <2>2, <2>3
    <3> QED BY <3>1, <3>3, <3>4, <3>5 DEF Settled
  <2>5. CASE d \in Unvalidated
    <3>1. d = c BY <2>1, <2>5, <1>7
    <3>2. /\ RefStart(c, input) \in Nat /\ RefEnd(c, input) \in Int
          /\ ClampedStart(c) = RefStart(c, input) /\ ClampedEnd(c) = RefEnd(c, input)
      BY <1>1, ConfirmedIsReference
    <3>3. i \in Int /\ RefStart(c, input) <= i /\ i < RefEnd(c, input) BY <3>1, <3>2
    <3>4. RefStart(c, input) < RefEnd(c, input) BY <3>2, <3>3
    <3>5. Confirmed(c) BY <3>1, <3>2, <3>4, <2>1, <1>1 DEF Confirmed
    <3> QED BY <3>3, <3>5, <1>1, <2>2, <2>3, CollectedKeeps
  <2> QED BY <2>4, <2>5
<1>10. Pinned' BY <1>2 DEF Pinned
<1>11. BufferFixed' BY <1>2 DEF IInv, BufferFixed
<1>12. NoLeak' BY DEF IInv, NoLeak
<1> QED BY <1>4, <1>5, <1>6, <1>8, <1>9, <1>10, <1>11, <1>12 DEF IInv

(* A step that validates nothing: the loop goes on, or a candidate short   *)
(* of lookahead moves to the other queue.                                  *)
LEMMA WaitingIInv ==
    ASSUME IInv, pc \in {"scan", "pend", "drain"},
           scanQ' \cup pending' = scanQ \cup pending,
           result' = result, pc' \in {"scan", "pend", "drain", "flush"}, Queues',
           input' = input, bufBase' = bufBase, bufEnd' = bufEnd, capacity' = capacity,
           entries' = entries, released' = released, emitted' = emitted,
           pendingEnd' = pendingEnd, found' = found,
           out' = out, frontier' = frontier, zeroReads' = zeroReads, rerr' = rerr
    PROVE  IInv'
<1>1. Unvalidated' = Unvalidated BY DEF Unvalidated
<1>2. TypeOK'
  <2>1. scanQ' \subseteq input'.cands /\ pending' \subseteq input'.cands BY Typed
  <2> QED BY <2>1 DEF IInv, TypeOK
<1>3. Bounded' BY DEF IInv, Bounded
<1>4. AheadOfFrontier' BY <1>1 DEF IInv, AheadOfFrontier
<1>5. Accounted' BY <1>1, AccountedFrame DEF IInv
<1>6. Pinned' BY DEF Pinned
<1>7. BufferFixed' BY DEF IInv, BufferFixed
<1>8. NoLeak' BY DEF IInv, NoLeak
<1> QED BY <1>2, <1>3, <1>4, <1>5, <1>6, <1>7, <1>8 DEF IInv

LEMMA ScanIInv == IInv /\ Scan => IInv'
<1> SUFFICES ASSUME IInv, Scan PROVE IInv' OBVIOUS
<1>1. /\ pc = "scan"
      /\ input' = input /\ bufBase' = bufBase /\ bufEnd' = bufEnd /\ capacity' = capacity
      /\ released' = released /\ emitted' = emitted /\ found' = found
      /\ pendingEnd' = pendingEnd /\ out' = out /\ frontier' = frontier
      /\ zeroReads' = zeroReads /\ rerr' = rerr
  BY DEF Scan, outVars, readVars
<1>2. CASE scanQ = {}
  <2>1. /\ pc' = "pend" /\ result' = result
        /\ scanQ' = scanQ /\ pending' = pending /\ entries' = entries
    BY <1>2 DEF Scan, Goto, scanVars
  <2>2. Queues' BY <1>1, <1>2, <2>1 DEF IInv, Queues
  <2> QED BY <1>1, <2>1, <2>2, WaitingIInv
<1>3. CASE scanQ # {}
  <2>1. PICK c \in scanQ : OnTrigger(c) BY <1>3 DEF Scan
  <2>2. c.trigStart >= bufBase BY <1>1, WindowIsWhole
  <2>3. c.trigStart \in Nat /\ bufBase \in Nat BY Typed, CandidateFacts
  <2>4. ~(c.trigStart < bufBase) /\ scanQ' = scanQ \ {c} BY <2>1, <2>2, <2>3 DEF OnTrigger
  <2>5. CASE Buffered(c)
    <3>1. Validate(c) /\ pending' = pending BY <2>1, <2>4, <2>5 DEF OnTrigger
    <3> QED BY <1>1, <2>4, <2>5, <3>1, ValidatedIInv
  <2>6. CASE ~Buffered(c)
    <3>1. /\ pending' = pending \cup {c} /\ entries' = entries
          /\ pc' = pc /\ result' = result
      BY <2>1, <2>4, <2>6 DEF OnTrigger
    <3>2. Queues' BY <1>1, <3>1 DEF IInv, Queues
    <3>3. scanQ' \cup pending' = scanQ \cup pending BY <2>4, <3>1
    <3> QED BY <1>1, <3>1, <3>2, <3>3, WaitingIInv
  <2> QED BY <2>5, <2>6
<1> QED BY <1>2, <1>3

LEMMA PendDrainIInv == IInv /\ (Pend \/ Drain) => IInv'
<1> SUFFICES ASSUME IInv, NEW eof \in BOOLEAN, NEW next,
                    \/ pc = "pend" /\ ~eof /\ next = IF rerr = "eof" THEN "drain" ELSE "flush"
                    \/ pc = "drain" /\ eof /\ next = "flush",
                    ValidatePending(eof, next)
             PROVE  IInv'
  BY DEF Pend, Drain
<1> DEFINE ready == {c \in pending : eof \/ Buffered(c)}
<1>1. /\ input' = input /\ bufBase' = bufBase /\ bufEnd' = bufEnd /\ capacity' = capacity
      /\ released' = released /\ emitted' = emitted /\ found' = found
      /\ pendingEnd' = pendingEnd /\ out' = out /\ frontier' = frontier
      /\ zeroReads' = zeroReads /\ rerr' = rerr
  BY DEF ValidatePending, outVars, readVars
<1>2. CASE ready = {}
  <2>1. /\ pc' = next /\ result' = result
        /\ scanQ' = scanQ /\ pending' = pending /\ entries' = entries
    BY <1>2 DEF ValidatePending, Goto, scanVars
  <2>2. pc' \in {"drain", "flush"} BY <2>1
  <2>3. Queues'
    <3>1. scanQ = {} /\ \A c \in pending : ~Buffered(c) BY <1>2 DEF IInv, Queues
    <3>2. pc' = "drain" \/ rerr = "eof" => bufEnd = input.len BY <2>1 DEF IInv, Queues
    <3>3. pc' = "flush" /\ rerr = "eof" => pending = {} BY <1>2, <2>1
    <3> QED BY <1>1, <2>1, <2>2, <3>1, <3>2, <3>3 DEF Queues, Buffered
  <2> QED BY <1>1, <2>1, <2>2, <2>3, WaitingIInv
<1>3. CASE ready # {}
  <2>1. PICK c \in ready : Validate(c) /\ pending' = pending \ {c} /\ scanQ' = scanQ
    BY <1>3 DEF ValidatePending
  <2>2. c \in pending /\ (Buffered(c) \/ pc = "drain") BY <2>1
  <2> HIDE DEF ready
  <2> QED BY <1>1, <2>1, <2>2, ValidatedIInv
<1> QED BY <1>2, <1>3

----------------------------------------------------------------------------
(* Flushing.                                                               *)

(* Release stays short of every window that is still to be validated, and  *)
(* before the end of the input a queued candidate never lowers its limit.  *)
LEMMA ReleaseLimitFacts ==
    ASSUME IInv, pc \in {"room", "flush"},
           NEW eof \in BOOLEAN, eof <=> pc = "flush" /\ rerr = "eof"
    PROVE  /\ ReleaseLimit(eof) \in Int /\ ReleaseLimit(eof) <= bufEnd
           /\ frontier <= ReleaseLimit(eof)
           /\ ~eof => ReleaseLimit(eof) = bufEnd - Window
           /\ eof => Unvalidated = {}
           /\ \A c \in Unvalidated : c.trigStart - MaxLookbehind[c.rule] > ReleaseLimit(eof)
<1>1. /\ bufEnd \in Int /\ Window \in Nat /\ frontier \in Int /\ frontier <= bufEnd - Window
  BY Typed DEF IInv, AheadOfFrontier
<1>2. scanQ = {} BY DEF IInv, Queues
<1>3. CASE eof
  <2>1. pending = {} /\ bufEnd = input.len BY <1>3 DEF IInv, Queues
  <2>2. \A c \in input.cands : c.trigEnd \in Nat /\ c.trigEnd <= input.len BY Typed, CandidateFacts
  <2>3. Unvalidated = {} BY <1>2, <2>1, <2>2, Typed DEF Unvalidated
  <2>4. ReleaseLimit(eof) = bufEnd BY <1>3 DEF ReleaseLimit
  <2>5. bufEnd <= bufEnd /\ frontier <= bufEnd BY <1>1
  <2> QED BY <1>1, <1>3, <2>3, <2>4, <2>5
<1>4. CASE ~eof
  <2>1. ASSUME NEW c \in Unvalidated PROVE c.trigStart - MaxLookbehind[c.rule] > bufEnd - Window
    <3>1. c \in input.cands BY Typed DEF Unvalidated
    <3>2. /\ c.trigStart \in Nat /\ c.trigEnd \in Nat
          /\ MaxLookbehind[c.rule] \in Nat /\ MaxLookahead[c.rule] \in Nat
          /\ c.trigStart - MaxLookbehind[c.rule] >= c.trigEnd + MaxLookahead[c.rule] - Window
      BY <3>1, Typed, CandidateFacts
    <3>3. c \in pending \/ c.trigEnd > bufEnd BY <1>2 DEF Unvalidated
    <3>4. c \in pending => ~(c.trigEnd + MaxLookahead[c.rule] <= bufEnd)
      BY <1>4 DEF IInv, Queues, Buffered
    <3>5. c.trigEnd + MaxLookahead[c.rule] > bufEnd BY <1>1, <3>2, <3>3, <3>4
    <3> QED BY <1>1, <3>2, <3>5
  <2>2. ASSUME NEW c \in pending PROVE ~(c.trigStart - MaxLookbehind[c.rule] <= bufEnd - Window)
    <3> DEFINE start == c.trigStart - MaxLookbehind[c.rule]
    <3>1. start \in Int BY Typed, CandidateFacts
    <3>2. start > bufEnd - Window BY <2>1 DEF Unvalidated
    <3> HIDE DEF start
    <3>3. ~(start <= bufEnd - Window) BY <1>1, <3>1, <3>2
    <3> QED BY <3>3 DEF start
  <2>3. ReleaseLimit(eof) = bufEnd - Window BY <1>4, <2>2 DEF ReleaseLimit
  <2> QED BY <1>1, <1>4, <2>1, <2>3
<1> QED BY <1>3, <1>4

(* Emission overtakes neither release nor a held span, and it stops short  *)
(* of release only at a held span or after a newline in the buffer.        *)
LEMMA EmitLimitFacts ==
    ASSUME IInv, NEW eof \in BOOLEAN, ReleaseLimit(eof) \in Int, NEW held \in SUBSET Entry
    PROVE  /\ EmitLimit(eof, held) \in Int /\ EmitLimit(eof, held) <= ReleaseLimit(eof)
           /\ \A e \in held : EmitLimit(eof, held) <= e.start
           /\ \/ RecordAligned /\ ~eof /\ EmitLimit(eof, held) > bufBase
              \/ EmitLimit(eof, held) = ReleaseLimit(eof)
              \/ \E first \in held : /\ first.start = EmitLimit(eof, held)
                                     /\ \A e \in held : first.start <= e.start
<1> DEFINE limit  == ReleaseLimit(eof)
           starts == {e.start : e \in held}
           safe   == IF held = {} THEN limit ELSE Lower(limit, Min(starts))
<1>1. EmitLimit(eof, held) = IF RecordAligned /\ ~eof THEN AlignToRecord(safe) ELSE safe
  BY DEF EmitLimit
<1>2. limit \in Int OBVIOUS
<1> HIDE DEF limit
<1>3. /\ safe \in Int /\ safe <= limit /\ \A e \in held : safe <= e.start
      /\ \/ safe = limit
         \/ \E first \in held : first.start = safe /\ \A e \in held : first.start <= e.start
  <2>1. CASE held = {} BY <1>2, <2>1
  <2>2. CASE held # {}
    <3>1. \A e \in held : e.start \in Nat BY DEF Entry
    <3>2. starts \in SUBSET Int /\ starts # {} /\ \A x \in starts : 0 <= x BY <2>2, <3>1
    <3> HIDE DEF starts
    <3>3. Min(starts) \in starts /\ \A x \in starts : Min(starts) <= x
      BY <3>2, 0 \in Int, MinBounded
    <3>4. PICK first \in held : first.start = Min(starts) BY <3>3 DEF starts
    <3>5. \A e \in held : Min(starts) <= e.start BY <3>3 DEF starts
    <3>6. Min(starts) \in Nat BY <3>1, <3>4
    <3>7. safe = Lower(limit, Min(starts)) BY <2>2
    <3> HIDE DEF safe
    <3>8. safe \in Int /\ safe <= limit /\ safe <= Min(starts) /\ (safe = limit \/ safe = Min(starts))
      BY <1>2, <3>6, <3>7, LowerHigher
    <3>9. \A e \in held : safe <= e.start BY <3>1, <3>5, <3>6, <3>8
    <3> QED BY <3>4, <3>5, <3>8, <3>9
  <2> QED BY <2>1, <2>2
<1> HIDE DEF safe
<1>4. /\ AlignToRecord(safe) \in Int /\ AlignToRecord(safe) <= safe
      /\ AlignToRecord(safe) = safe \/ AlignToRecord(safe) > bufBase
  <2> DEFINE from  == Higher(emitted, bufBase)
             lines == {i \in input.newlines : from <= i /\ i < safe}
  <2>1. AlignToRecord(safe) = IF lines = {} THEN safe ELSE Max(lines) + 1
    BY DEF AlignToRecord
  <2>2. from \in Int /\ bufBase <= from /\ bufBase \in Nat BY Typed, LowerHigher
  <2> HIDE DEF from
  <2>3. CASE lines = {} BY <1>3, <2>1, <2>3
  <2>4. CASE lines # {}
    <3>1. input.newlines \subseteq Nat BY Typed, EngineAssumption DEF WellFormed
    <3>2. \A i \in lines : i \in Nat /\ from <= i /\ i < safe /\ i <= safe BY <1>3, <3>1
    <3>3. lines \in SUBSET Int BY <3>2
    <3> HIDE DEF lines
    <3>4. Max(lines) \in lines BY <1>3, <2>4, <3>2, <3>3, MaxBounded
    <3>5. Max(lines) \in Nat /\ from <= Max(lines) /\ Max(lines) < safe BY <3>2, <3>4
    <3>6. AlignToRecord(safe) = Max(lines) + 1 BY <2>1, <2>4
    <3> QED BY <1>3, <2>2, <3>5, <3>6
  <2> QED BY <2>3, <2>4
<1> HIDE DEF starts
<1>5. CASE RecordAligned /\ ~eof
  <2> DEFINE to == AlignToRecord(safe)
  <2>1. EmitLimit(eof, held) = to BY <1>1, <1>5
  <2>2. to \in Int /\ to <= safe /\ (to = safe \/ to > bufBase) BY <1>4
  <2> HIDE DEF to
  <2>3. to <= limit BY <1>2, <1>3, <2>2
  <2>4. ASSUME NEW e \in held PROVE to <= e.start
    <3>1. e.start \in Nat BY DEF Entry
    <3> QED BY <1>3, <2>2, <3>1
  <2> QED BY <1>3, <1>5, <2>1, <2>2, <2>3, <2>4 DEF limit
<1>6. CASE ~(RecordAligned /\ ~eof)
  <2>1. EmitLimit(eof, held) = safe BY <1>1, <1>6
  <2> QED BY <1>3, <2>1 DEF limit
<1> QED BY <1>5, <1>6

(* What Emit writes: plain bytes only where nothing is to be redacted.     *)
LEMMA RenderedFacts ==
    ASSUME IInv, NEW to \in Int, NEW spans \in SUBSET Entry, NEW o \in Rendered(to, spans)
    PROVE  /\ o \in [at : Nat, byte : {"plain", "nul", "marker", "*", "shape"}]
           /\ o.byte = "plain" =>
                /\ o.at \in emitted .. (to - 1) /\ ~(o.at < pendingEnd)
                /\ \A s \in spans : ~(s.start <= o.at /\ o.at < s.end)
<1> DEFINE redacted == {i \in emitted .. (to - 1) :
                           i < pendingEnd \/ \E s \in spans : s.start <= i /\ i < s.end}
<1>1. emitted \in Nat /\ \A i \in emitted .. (to - 1) : i \in Nat BY Typed
<1>2. \A s \in spans : s.start \in Nat BY DEF Entry
<1>3. redacted \subseteq emitted .. (to - 1) OBVIOUS
<1>4. \/ \E i \in (emitted .. (to - 1)) \ redacted :
            o = [at |-> i, byte |-> IF i < bufBase THEN "nul" ELSE "plain"]
      \/ \E s \in spans : o = [at |-> s.start, byte |-> "marker"]
      \/ \E i \in redacted : o = [at |-> i, byte |-> MaskByte(i)]
  BY DEF Rendered
<1>5. ASSUME NEW i \in (emitted .. (to - 1)) \ redacted
      PROVE  /\ i \in emitted .. (to - 1) /\ ~(i < pendingEnd)
             /\ \A s \in spans : ~(s.start <= i /\ i < s.end)
  OBVIOUS
<1> HIDE DEF redacted
<1>6. CASE \E i \in (emitted .. (to - 1)) \ redacted :
              o = [at |-> i, byte |-> IF i < bufBase THEN "nul" ELSE "plain"]
  BY <1>1, <1>5, <1>6
<1>7. CASE \E s \in spans : o = [at |-> s.start, byte |-> "marker"] BY <1>2, <1>7
<1>8. CASE \E i \in redacted : o = [at |-> i, byte |-> MaskByte(i)]
  BY <1>1, <1>3, <1>8 DEF MaskByte
<1> QED BY <1>4, <1>6, <1>7, <1>8

(* What one flush leaves behind, as long as every window still to be       *)
(* validated lies beyond the release limit.                                *)
LEMMA FlushStep ==
    ASSUME IInv, pc \in {"room", "flush"},
           NEW eof \in BOOLEAN, eof <=> pc = "flush" /\ rerr = "eof",
           NEW force \in BOOLEAN, NEW failed \in BOOLEAN,
           NEW cut \in emitted .. Higher(emitted, bufEnd), Flush(eof, force, failed, cut),
           input' = input, bufEnd' = bufEnd, capacity' = capacity,
           scanQ' = scanQ, pending' = pending
    PROVE  /\ bufBase' \in Nat /\ bufBase <= bufBase' /\ bufBase' <= bufEnd
           /\ emitted' \in Nat /\ emitted' <= bufEnd
           /\ frontier' = ReleaseLimit(eof) /\ emitted' <= Higher(frontier', 0)
           /\ \A c \in Unvalidated : bufBase' <= Higher(c.trigStart - MaxLookbehind[c.rule], 0)
           /\ entries' \subseteq entries /\ released' \subseteq entries \cup released
           /\ found' \subseteq Entry
           /\ pendingEnd' \in Nat /\ pendingEnd' <= input.len
           /\ out' \subseteq [at : Nat, byte : {"plain", "nul", "marker", "*", "shape"}]
           /\ NoLeak'
           /\ ~failed => \A i \in Int : Settled(i) => Settled(i)'
           /\ ~failed /\ force /\ emitted <= bufBase /\ bufBase' <= bufBase =>
                /\ bufBase' = bufBase /\ emitted' <= bufBase
                /\ \/ ReleaseLimit(eof) <= bufBase
                   \/ \E first \in entries' :
                        /\ first.start <= emitted' /\ ~(first.end <= ReleaseLimit(eof))
                        /\ \A e \in entries' : first.start <= e.start
<1> DEFINE limit == ReleaseLimit(eof)
           final == {e \in entries : e.end <= limit}
           held  == entries \ final
           spans == released \cup final
           to    == EmitLimit(eof, held)
           ended == {pendingEnd} \cup {s.end : s \in {t \in spans : t.start < cut}}
<1>1. /\ frontier' = limit /\ entries' = held /\ found' = found \cup final
      /\ IF to <= emitted
         THEN /\ ~failed /\ cut = emitted /\ released' = spans
              /\ emitted' = emitted /\ pendingEnd' = pendingEnd /\ out' = out
              /\ bufBase' = bufBase
         ELSE /\ cut \in emitted .. to /\ (failed \/ cut = to)
              /\ emitted' = cut
              /\ released' = {s \in spans : s.start >= cut}
              /\ pendingEnd' = Max(ended)
              /\ out' = out \cup Rendered(cut, spans)
              /\ bufBase' = IF failed THEN bufBase ELSE CompactedBase(to, force)
  BY DEF Flush
<1>2. /\ limit \in Int /\ limit <= bufEnd /\ frontier <= limit
      /\ \A c \in Unvalidated : c.trigStart - MaxLookbehind[c.rule] > limit
  BY ReleaseLimitFacts
<1>3. /\ held \subseteq entries /\ final \subseteq entries /\ entries = held \cup final
      /\ spans \subseteq entries \cup released /\ released \subseteq spans /\ final \subseteq spans
      /\ \A e \in held : ~(e.end <= limit)
  OBVIOUS
<1>4. /\ to \in Int /\ to <= limit /\ \A e \in held : to <= e.start
      /\ \/ to > bufBase
         \/ to = limit
         \/ \E first \in held : first.start = to /\ \A e \in held : first.start <= e.start
  BY <1>2, <1>3, Typed, EmitLimitFacts
<1>5. entries \subseteq Entry /\ spans \subseteq Entry /\ held \subseteq Entry BY <1>3, Typed
<1> HIDE DEF limit, final, held, spans, to
<1>6. /\ cut \in Nat /\ emitted <= cut /\ (cut <= to \/ cut = emitted)
  <2>1. cut \in emitted .. Higher(emitted, bufEnd) /\ emitted \in Nat BY Typed
  <2>2. Higher(emitted, bufEnd) \in Int BY Typed, LowerHigher
  <2>3. cut \in Nat /\ emitted <= cut BY <2>1, <2>2
  <2>4. CASE to <= emitted BY <1>1, <2>3, <2>4
  <2>5. CASE ~(to <= emitted)
    <3>1. cut \in emitted .. to BY <1>1, <2>5
    <3>2. cut <= to BY <3>1, <1>4, <2>1
    <3> QED BY <2>3, <3>2
  <2> QED BY <2>3, <2>4, <2>5
<1>7. emitted' = cut /\ cut <= bufEnd /\ cut <= Higher(limit, 0)
  <2>1. emitted' = cut BY <1>1
  <2>2. /\ emitted <= bufEnd /\ emitted <= Higher(frontier, 0)
        /\ emitted \in Nat /\ bufEnd \in Nat /\ frontier \in Int
    BY Typed DEF IInv, AheadOfFrontier
  <2>3. emitted <= Higher(limit, 0) BY <1>2, <2>2, HigherMonotone
  <2>4. CASE cut <= to
    <3>1. cut <= limit BY <1>2, <1>4, <1>6, <2>4
    <3>2. limit <= Higher(limit, 0) /\ Higher(limit, 0) \in Nat BY <1>2, HigherZero
    <3> QED BY <1>2, <1>6, <2>1, <2>2, <3>1, <3>2
  <2>5. CASE cut = emitted BY <2>1, <2>2, <2>3, <2>5
  <2> QED BY <1>6, <2>4, <2>5
<1>8. /\ bufBase' = bufBase \/ (bufBase' = to /\ to > bufBase)
      /\ ~failed /\ force /\ to > emitted /\ to > bufBase => bufBase' = to
  <2>1. CompactedBase(to, force) = bufBase \/ (CompactedBase(to, force) = to /\ to > bufBase)
    BY <1>4, Typed DEF CompactedBase
  <2>2. force /\ to > bufBase => CompactedBase(to, force) = to
    BY <1>4, Typed DEF CompactedBase
  <2>3. to > emitted => ~(to <= emitted) BY <1>4, Typed
  <2> QED BY <1>1, <2>1, <2>2, <2>3
<1>9. /\ bufBase' \in Nat /\ bufBase <= bufBase' /\ bufBase' <= bufEnd
  <2>1. bufBase \in Nat /\ bufBase <= bufEnd /\ bufEnd \in Nat BY Typed
  <2>2. to > bufBase => to \in Nat /\ bufBase <= to /\ to <= bufEnd BY <1>2, <1>4, <2>1
  <2> QED BY <1>8, <2>1, <2>2
<1>10. ASSUME NEW c \in Unvalidated
       PROVE  bufBase' <= Higher(c.trigStart - MaxLookbehind[c.rule], 0)
  <2> DEFINE start == c.trigStart - MaxLookbehind[c.rule]
  <2>1. start \in Int BY Typed, CandidateFacts DEF Unvalidated
  <2>2. start > limit /\ bufBase <= Higher(start, 0) BY <1>2 DEF IInv, AheadOfFrontier
  <2> HIDE DEF start
  <2>3. to <= Higher(start, 0)
    <3>1. start <= Higher(start, 0) /\ Higher(start, 0) \in Nat BY <2>1, HigherZero
    <3> QED BY <1>2, <1>4, <2>1, <2>2, <3>1
  <2>4. bufBase' <= Higher(start, 0) BY <1>8, <2>2, <2>3
  <2> QED BY <2>4 DEF start
<1>11. found' \subseteq Entry BY <1>1, <1>3, <1>5, Typed
<1>12. pendingEnd' \in Nat /\ pendingEnd' <= input.len /\ \A x \in ended : to > emitted => x <= pendingEnd'
  <2>1. \A s \in spans : s.end \in Nat /\ s.end <= input.len
    BY <1>3, <1>5 DEF Entry, IInv, Bounded
  <2>2. pendingEnd \in Nat /\ pendingEnd <= input.len /\ input.len \in Int
    BY Typed DEF IInv, Bounded
  <2>3. ended \in SUBSET Int /\ ended # {} /\ \A x \in ended : x \in Nat /\ x <= input.len
    BY <2>1, <2>2
  <2> HIDE DEF ended
  <2>4. Max(ended) \in ended /\ \A x \in ended : x <= Max(ended) BY <2>2, <2>3, MaxBounded
  <2>5. CASE to <= emitted
    <3>1. ~(to > emitted) BY <1>4, <2>5, Typed
    <3> QED BY <1>1, <2>2, <2>5, <3>1
  <2>6. CASE ~(to <= emitted) BY <1>1, <2>3, <2>4, <2>6
  <2> QED BY <2>5, <2>6
<1>13. \A o \in out' : o \in out \/ (o \in Rendered(cut, spans) /\ cut <= to)
  <2>1. CASE to <= emitted BY <1>1, <2>1
  <2>2. CASE ~(to <= emitted)
    <3>1. out' = out \cup Rendered(cut, spans) /\ cut \in emitted .. to BY <1>1, <2>2
    <3>2. cut <= to BY <3>1, <1>4, Typed
    <3> QED BY <3>1, <3>2
  <2> QED BY <2>1, <2>2
<1>14. out' \subseteq [at : Nat, byte : {"plain", "nul", "marker", "*", "shape"}]
  <2>1. \A o \in out : o \in [at : Nat, byte : {"plain", "nul", "marker", "*", "shape"}]
    BY DEF IInv, TypeOK
  <2>2. \A o \in Rendered(cut, spans) :
          o \in [at : Nat, byte : {"plain", "nul", "marker", "*", "shape"}]
    BY <1>5, <1>6, RenderedFacts
  <2> QED BY <1>13, <2>1, <2>2
<1>15. NoLeak'
  <2>1. SUFFICES ASSUME NEW o \in out', o.byte = "plain" PROVE o.at \notin Offsets(ReferenceSpans(input))
    BY DEF NoLeak, Offsets, ReferenceSpans, RefStart, RefEnd
  <2>2. CASE o \in out BY <2>1, <2>2 DEF IInv, NoLeak
  <2>3. CASE o \in Rendered(cut, spans) /\ cut <= to
    <3> DEFINE i == o.at
    <3>1. /\ i \in emitted .. (cut - 1) /\ ~(i < pendingEnd)
          /\ \A s \in spans : ~(s.start <= i /\ i < s.end)
      BY <1>5, <1>6, <2>1, <2>3, RenderedFacts
    <3>2. i \in Nat /\ emitted <= i /\ i < cut
      BY <1>6, <3>1, Typed
    <3> HIDE DEF i
    <3>3. i < to /\ i < limit BY <1>2, <1>4, <1>6, <2>3, <3>2
    <3>4. ~Settled(i)
      <4>1. ASSUME NEW e \in held PROVE ~(e.start <= i)
        <5>1. e.start \in Nat /\ to <= e.start BY <1>4, <1>5 DEF Entry
        <5> QED BY <1>4, <3>2, <3>3, <5>1
      <4>2. ~(i < emitted) BY <3>2, Typed
      <4>3. ASSUME NEW e \in entries \cup released PROVE ~(e.start <= i /\ i < e.end)
        BY <1>3, <3>1, <4>1
      <4> QED BY <3>1, <4>2, <4>3 DEF Settled
    <3>5. ASSUME NEW c \in input.cands, c.answer = "span",
                 i \in RefStart(c, input) .. (RefEnd(c, input) - 1)
          PROVE  FALSE
      <4>1. c \in Unvalidated BY <3>4, <3>5 DEF IInv, Accounted
      <4> DEFINE start == c.trigStart - MaxLookbehind[c.rule]
                 stop  == c.trigEnd + MaxLookahead[c.rule]
      <4>2. /\ start \in Int /\ stop \in Int /\ c.from \in Int /\ c.to \in Int
            /\ input.len \in Int
        BY Typed, CandidateFacts
      <4>3. start > limit BY <1>2, <4>1
      <4>4. /\ RefStart(c, input) = Higher(c.from, Higher(start, 0))
            /\ RefEnd(c, input) = Lower(c.to, Lower(stop, input.len))
        BY DEF RefStart, RefEnd
      <4> HIDE DEF start, stop
      <4>5. Higher(start, 0) \in Nat /\ start <= Higher(start, 0) BY <4>2, HigherZero
      <4>6. RefStart(c, input) \in Int /\ start <= RefStart(c, input)
        BY <4>2, <4>4, <4>5 DEF Higher
      <4>7. RefEnd(c, input) \in Int BY <4>2, <4>4 DEF Lower
      <4>8. RefStart(c, input) <= i BY <3>5, <4>6, <4>7
      <4> QED BY <1>2, <3>2, <3>3, <4>2, <4>3, <4>6, <4>8
    <3>6. i \notin Offsets(ReferenceSpans(input))
      <4>1. SUFFICES ASSUME NEW s \in ReferenceSpans(input), i \in s.start .. (s.end - 1)
                     PROVE  FALSE
        BY DEF Offsets
      <4>2. PICK c \in input.cands :
              /\ c.answer = "span"
              /\ s = RawSpan(RefStart(c, input), RefEnd(c, input), c.rule, Confidence[c.rule])
        BY DEF ReferenceSpans
      <4>3. s.start = RefStart(c, input) /\ s.end = RefEnd(c, input) BY <4>2 DEF RawSpan
      <4> QED BY <3>5, <4>1, <4>2, <4>3
    <3> QED BY <3>6 DEF i
  <2> QED BY <1>13, <2>1, <2>2, <2>3
<1>16. ASSUME ~failed, NEW i \in Int, Settled(i) PROVE Settled(i)'
  <2>1. emitted <= emitted' BY <1>6, <1>7
  <2>2. \A e \in entries' \cup released' : e.start <= i /\ i < e.end => Settled(i)' BY DEF Settled
  <2>3. i < emitted' \/ i < pendingEnd' => Settled(i)' BY DEF Settled
  <2>4. CASE i < emitted
    <3>1. i < emitted' BY <1>6, <1>7, <2>4, Typed
    <3> QED BY <2>3, <3>1
  <2>5. CASE i < pendingEnd
    <3>1. i < pendingEnd'
      <4>1. CASE to <= emitted BY <1>1, <2>5, <4>1
      <4>2. CASE to > emitted
        <5>1. pendingEnd <= pendingEnd' BY <1>12, <4>2
        <5> QED BY <5>1, <1>12, <2>5, Typed
      <4> QED BY <1>4, <4>1, <4>2, Typed
    <3> QED BY <2>3, <3>1
  <2>6. CASE \E e \in entries \cup released : e.start <= i /\ i < e.end
    <3>1. PICK e \in entries \cup released : e.start <= i /\ i < e.end BY <2>6
    <3>2. CASE e \in held BY <1>1, <2>2, <3>1, <3>2
    <3>3. CASE e \in spans
      <4>1. e.start \in Nat /\ e.end \in Nat BY <1>5, <3>3 DEF Entry
      <4>2. CASE to <= emitted BY <1>1, <2>2, <3>1, <3>3, <4>2
      <4>3. CASE to > emitted /\ e.start >= cut
        <5>1. ~(to <= emitted) BY <1>4, <4>3, Typed
        <5>2. e \in released' BY <1>1, <3>3, <4>3, <5>1
        <5> QED BY <2>2, <3>1, <5>2
      <4>4. CASE to > emitted /\ e.start < cut
        <5>1. e.end \in ended BY <3>3, <4>4
        <5>2. e.end <= pendingEnd' BY <1>12, <4>4, <5>1
        <5>3. i < pendingEnd' BY <1>12, <3>1, <4>1, <5>2
        <5> QED BY <2>3, <5>3
      <4> QED BY <1>4, <1>6, <4>1, <4>2, <4>3, <4>4, Typed
    <3> QED BY <1>3, <3>1, <3>2, <3>3
  <2> QED BY <1>16, <2>4, <2>5, <2>6 DEF Settled
<1>17. ASSUME ~failed, force, emitted <= bufBase, bufBase' <= bufBase
       PROVE  /\ bufBase' = bufBase /\ emitted' <= bufBase
              /\ \/ limit <= bufBase
                 \/ \E first \in entries' :
                      /\ first.start <= emitted' /\ ~(first.end <= limit)
                      /\ \A e \in entries' : first.start <= e.start
  <2>1. bufBase \in Nat /\ emitted \in Nat BY Typed
  <2>2. bufBase' = bufBase BY <1>9, <1>17, <2>1
  <2>3. ~(to > bufBase)
    <3>1. to > bufBase => to > emitted BY <1>4, <1>17, <2>1
    <3>2. to > bufBase => bufBase' = to BY <1>8, <1>17, <3>1
    <3> QED BY <1>4, <2>1, <2>2, <3>2
  <2>4. to <= bufBase BY <1>4, <2>1, <2>3
  <2>5. emitted' <= bufBase /\ to <= emitted'
    <3>1. CASE to <= emitted BY <1>1, <1>17, <3>1
    <3>2. CASE ~(to <= emitted) BY <1>1, <1>4, <1>17, <2>4, <3>2
    <3> QED BY <3>1, <3>2
  <2>6. CASE to = limit BY <2>2, <2>4, <2>5, <2>6
  <2>7. CASE \E first \in held : first.start = to /\ \A e \in held : first.start <= e.start
    BY <1>1, <1>3, <2>2, <2>5, <2>7
  <2> QED BY <1>4, <2>3, <2>6, <2>7
<1>18. entries' \subseteq entries /\ released' \subseteq entries \cup released
  <2>1. entries' = held BY <1>1
  <2>2. released' \subseteq spans BY <1>1
  <2> QED BY <1>3, <2>1, <2>2
<1>19. emitted' \in Nat /\ emitted' <= bufEnd /\ emitted' <= Higher(frontier', 0)
  BY <1>1, <1>6, <1>7
<1>20. frontier' = ReleaseLimit(eof) BY <1>1 DEF limit
<1> QED BY <1>9, <1>10, <1>11, <1>12, <1>14, <1>15, <1>16, <1>17, <1>18, <1>19, <1>20 DEF limit

(* The parts of the invariant that a flush maintains wherever it happens.  *)
LEMMA FlushIInv ==
    ASSUME IInv, pc \in {"room", "flush"},
           NEW eof \in BOOLEAN, eof <=> pc = "flush" /\ rerr = "eof",
           NEW force \in BOOLEAN, NEW failed \in BOOLEAN,
           NEW cut \in emitted .. Higher(emitted, bufEnd), Flush(eof, force, failed, cut),
           input' = input, bufEnd' = bufEnd, capacity' = capacity,
           scanQ' = scanQ, pending' = pending, zeroReads' = zeroReads, rerr' = rerr,
           pc' \in {"top", "read", "full", "done"},
           result' = result \/ result' \in {"ok", "read", "write"},
           pc' # "done" => ~failed /\ ~eof,
           pc' = "read" => bufEnd - bufBase' < capacity,
           pc' = "full" => Pinned'
    PROVE  IInv'
<1>1. TypeOK'
  <2>1. /\ bufBase' \in Nat /\ bufBase' <= bufEnd /\ emitted' \in Nat
        /\ frontier' \in Int /\ pendingEnd' \in Nat
        /\ entries' \subseteq Entry /\ released' \subseteq Entry /\ found' \subseteq Entry
        /\ out' \subseteq [at : Nat, byte : {"plain", "nul", "marker", "*", "shape"}]
    BY FlushStep, ReleaseLimitFacts, Typed
  <2> QED BY <2>1 DEF IInv, TypeOK
<1>2. Bounded'
  <2>1. /\ emitted' <= bufEnd /\ pendingEnd' <= input.len
        /\ entries' \subseteq entries /\ released' \subseteq entries \cup released
    BY FlushStep
  <2> QED BY <2>1 DEF IInv, Bounded
<1>3. Queues' BY DEF IInv, Queues, Buffered
<1>4. Unvalidated' = Unvalidated BY DEF Unvalidated
<1>5. AheadOfFrontier'
  <2>1. SUFFICES ASSUME ~failed, ~eof PROVE AheadOfFrontier'
    BY DEF AheadOfFrontier
  <2> DEFINE limit == ReleaseLimit(eof)
  <2>2. /\ frontier' = limit /\ emitted' <= Higher(frontier', 0)
        /\ \A c \in Unvalidated : bufBase' <= Higher(c.trigStart - MaxLookbehind[c.rule], 0)
    BY FlushStep
  <2>3. limit = bufEnd - Window BY <2>1, ReleaseLimitFacts
  <2>4. /\ limit \in Int /\ frontier <= limit
        /\ \A c \in Unvalidated : c.trigStart - MaxLookbehind[c.rule] > limit
    BY ReleaseLimitFacts
  <2> HIDE DEF limit
  <2>5. -Window <= limit /\ limit <= bufEnd - Window BY <2>3, Typed
  <2> QED BY <1>4, <2>2, <2>4, <2>5 DEF AheadOfFrontier
<1>6. Accounted'
  <2>1. SUFFICES ASSUME ~failed, NEW c \in input.cands \ Unvalidated, c.answer = "span",
                        NEW i \in RefStart(c, input) .. (RefEnd(c, input) - 1)
                 PROVE  Settled(i)'
    BY <1>4 DEF Accounted, RefStart, RefEnd
  <2>2. Settled(i) BY <2>1 DEF IInv, Accounted
  <2>3. i \in Int OBVIOUS
  <2> QED BY <2>1, <2>2, <2>3, FlushStep
<1>7. Pinned' BY DEF Pinned
<1>8. BufferFixed'
  <2>1. /\ bufEnd \in Int /\ bufBase \in Int /\ bufBase' \in Int /\ capacity \in Int
        /\ bufBase <= bufBase' /\ bufEnd - bufBase <= capacity
    BY FlushStep, Typed
  <2>2. bufEnd - bufBase' <= capacity BY <2>1, HoldsLess, Zenon
  <2>3. capacity = ChunkSize BY Typed
  <2> QED BY <2>2, <2>3 DEF BufferFixed
<1>9. NoLeak' BY FlushStep
<1> QED BY <1>1, <1>2, <1>3, <1>5, <1>6, <1>7, <1>8, <1>9 DEF IInv

LEMMA RoomFlushIInv == IInv /\ RoomFlush => IInv'
<1> SUFFICES ASSUME IInv, pc = "room", NEW failed \in BOOLEAN,
                    NEW cut \in emitted .. Higher(emitted, bufEnd),
                    Flush(FALSE, TRUE, failed, cut),
                    IF failed THEN Return("write")
                    ELSE Goto(IF bufEnd - bufBase' < capacity THEN "read" ELSE "full"),
                    input' = input, bufEnd' = bufEnd, capacity' = capacity,
                    scanQ' = scanQ, pending' = pending, zeroReads' = zeroReads, rerr' = rerr
             PROVE  IInv'
  BY DEF RoomFlush, scanVars, readVars
<1>1. /\ pc' \in {"read", "full", "done"} /\ (pc' # "done" => ~failed)
      /\ result' = result \/ result' \in {"ok", "read", "write"}
      /\ pc' = "read" => bufEnd - bufBase' < capacity
      /\ pc' = "full" => ~(bufEnd - bufBase' < capacity) /\ ~failed
  BY DEF Return, Goto
<1>2. ASSUME pc' = "full" PROVE Pinned'
  <2>1. emitted <= bufBase /\ bufEnd - bufBase = capacity BY DEF IInv, Pinned
  <2>2. /\ bufBase \in Nat /\ bufEnd \in Nat /\ capacity \in Nat /\ Window \in Nat
        /\ capacity = ChunkSize /\ ChunkSize >= 2 * Window /\ ChunkSize > 0
    BY Typed, EngineAssumption
  <2>3. bufBase' \in Nat /\ bufBase <= bufBase' BY FlushStep
  <2>4. bufBase' <= bufBase
    <3> DEFINE base == bufBase'
    <3>1. base \in Nat /\ bufBase <= base /\ ~(bufEnd - base < capacity) BY <1>1, <1>2, <2>3
    <3> HIDE DEF base
    <3>2. base <= bufBase BY <2>1, <2>2, <3>1
    <3> QED BY <3>2 DEF base
  <2> DEFINE limit == ReleaseLimit(FALSE)
  <2>5. /\ bufBase' = bufBase /\ emitted' <= bufBase
        /\ \/ limit <= bufBase
           \/ \E first \in entries' :
                /\ first.start <= emitted' /\ ~(first.end <= limit)
                /\ \A e \in entries' : first.start <= e.start
    BY <1>1, <1>2, <2>1, <2>4, FlushStep
  <2>6. limit = bufEnd - Window /\ limit \in Int BY ReleaseLimitFacts
  <2> HIDE DEF limit
  <2>7. bufEnd - Window > bufBase BY <2>1, <2>2
  <2>8. ~(limit <= bufBase) BY <2>2, <2>6, <2>7
  <2>9. PICK first \in entries' :
          /\ first.start <= emitted' /\ ~(first.end <= limit)
          /\ \A e \in entries' : first.start <= e.start
    BY <2>5, <2>8
  <2>10. first.end >= bufEnd - Window
    <3>1. entries' \subseteq entries BY FlushStep
    <3>2. first \in Entry BY <2>9, <3>1, Typed
    <3>3. first.end \in Nat BY <3>2 DEF Entry
    <3>4. first.end >= limit BY <2>6, <2>9, <3>3
    <3> QED BY <2>6, <3>4
  <2>11. Discardable(bufEnd - Window)'
    <3>1. bufEnd' - Window > bufBase' /\ first.end >= bufEnd' - Window BY <2>5, <2>7, <2>10
    <3> QED BY <2>9, <3>1 DEF Discardable
  <2>12. bufEnd' - bufBase' = capacity' BY <2>1, <2>5
  <2>13. emitted' <= bufBase' BY <2>5
  <2> QED BY <2>11, <2>12, <2>13 DEF Pinned
<1> QED BY <1>1, <1>2, FlushIInv

LEMMA FinishIInv == IInv /\ Finish => IInv'
<1> SUFFICES ASSUME IInv, pc = "flush", NEW failed \in BOOLEAN,
                    NEW cut \in emitted .. Higher(emitted, bufEnd),
                    Flush(rerr = "eof", FALSE, failed, cut),
                    \/ rerr = "err" /\ Return("read")
                    \/ rerr # "err" /\ failed /\ Return("write")
                    \/ rerr = "eof" /\ ~failed /\ Return("ok")
                    \/ rerr = "nil" /\ ~failed /\ Goto("top"),
                    input' = input, bufEnd' = bufEnd, capacity' = capacity,
                    scanQ' = scanQ, pending' = pending, zeroReads' = zeroReads, rerr' = rerr
             PROVE  IInv'
  BY DEF Finish, scanVars, readVars
<1>1. /\ pc' \in {"top", "done"} /\ (pc' # "done" => ~failed /\ rerr # "eof")
      /\ result' = result \/ result' \in {"ok", "read", "write"}
  BY DEF Return, Goto
<1> DEFINE eof == rerr = "eof"
<1>2. eof \in BOOLEAN /\ (eof <=> rerr = "eof") /\ Flush(eof, FALSE, failed, cut) OBVIOUS
<1> HIDE DEF eof
<1> QED BY <1>1, <1>2, FlushIInv

----------------------------------------------------------------------------
(* The invariant, and what it establishes.                                 *)

LEMMA NextIInv == IInv /\ [Next]_vars => IInv'
<1> SUFFICES ASSUME IInv, [Next]_vars PROVE IInv' OBVIOUS
<1>1. CASE Cancel BY <1>1, CancelIInv
<1>2. CASE MakeRoom BY <1>2, MakeRoomIInv
<1>3. CASE RoomFlush BY <1>3, RoomFlushIInv
<1>4. CASE Discard BY <1>4, DiscardIInv
<1>5. CASE ReadSome BY <1>5, ReadSomeIInv
<1>6. CASE ReadNothing \/ ReadEnds \/ ReadBadCount BY <1>6, ReadBareIInv
<1>7. CASE Scan BY <1>7, ScanIInv
<1>8. CASE Pend \/ Drain BY <1>8, PendDrainIInv
<1>9. CASE Finish BY <1>9, FinishIInv
<1>10. CASE UNCHANGED vars
  <2> USE <1>10 DEF vars
  <2>1. TypeOK' /\ Bounded' BY DEF IInv, TypeOK, Bounded
  <2>2. Queues' BY DEF IInv, Queues, Buffered
  <2>3. AheadOfFrontier' BY DEF IInv, AheadOfFrontier, Unvalidated
  <2>4. Accounted' BY DEF IInv, Accounted, Unvalidated, Settled, RefStart, RefEnd
  <2>5. Pinned' BY DEF IInv, Pinned, Discardable
  <2>6. BufferFixed' BY DEF IInv, BufferFixed
  <2>7. NoLeak' BY DEF IInv, NoLeak
  <2> QED BY <2>1, <2>2, <2>3, <2>4, <2>5, <2>6, <2>7 DEF IInv
<1> QED BY <1>1, <1>2, <1>3, <1>4, <1>5, <1>6, <1>7, <1>8, <1>9, <1>10 DEF Next, Terminated

(* The inductive invariant: in every state of every call the queues, the   *)
(* release frontier, the buffer and the collector stand as IInv says.      *)
THEOREM Invariant == Spec => []IInv
BY InitIInv, NextIInv, PTL DEF Spec

(* The loop's variables never leave their ranges.                          *)
THEOREM TypeCorrect == Spec => []TypeOK
<1>1. IInv => TypeOK BY DEF IInv
<1> QED BY <1>1, Invariant, PTL

(* No byte of a secret that the whole input would confirm is ever written  *)
(* plain (engine.go, flush and emitTo): not when a Read fails, not when    *)
(* the call is cancelled, not when a validator panics before reaching it.  *)
THEOREM NeverLeaks == Spec => []NoLeak
<1>1. IInv => NoLeak BY DEF IInv
<1> QED BY <1>1, Invariant, PTL

(* The buffer never grows past ChunkSize, whatever the length of a span    *)
(* (engine.go, makeRoom): the branch that doubles it is unreachable.       *)
THEOREM BufferNeverGrows == Spec => []BufferFixed
<1>1. IInv => BufferFixed BY DEF IInv
<1> QED BY <1>1, Invariant, PTL

(* Every validator that runs is shown its whole window (engine.go,         *)
(* onTrigger and validatePending), whatever the portions of the reads.     *)
THEOREM EveryWindowWhole == Spec => []WindowsWhole
<1>1. IInv => WindowsWhole BY WindowIsWhole DEF WindowsWhole
<1> QED BY <1>1, Invariant, PTL

(* No window still to be validated reaches back to a release limit         *)
(* (engine.go, flush; the contract of Release in span.go).                 *)
THEOREM ReleaseIsSafe == Spec => []ReleaseContract
<1>1. IInv => ReleaseContract BY DEF IInv, AheadOfFrontier, ReleaseContract
<1> QED BY <1>1, Invariant, PTL

(* "Structurally this never binds" (engine.go, flush): lowering the limit  *)
(* for a queued candidate is never needed.                                 *)
THEOREM QueueNeverLowersTheLimit == Spec => []QueueNeverBinds
<1>1. ASSUME IInv PROVE QueueNeverBinds
  <2>1. SUFFICES ASSUME pc \in {"top", "room", "full", "read", "flush"}, NEW c \in pending
                 PROVE  c.trigStart - MaxLookbehind[c.rule] > bufEnd - Window
    BY DEF QueueNeverBinds
  <2>2. ~(c.trigEnd + MaxLookahead[c.rule] <= bufEnd) BY <1>1, <2>1 DEF IInv, Queues, Buffered
  <2>3. /\ c.trigStart \in Nat /\ c.trigEnd \in Nat /\ bufEnd \in Nat /\ Window \in Nat
        /\ MaxLookbehind[c.rule] \in Nat /\ MaxLookahead[c.rule] \in Nat
        /\ c.trigStart - MaxLookbehind[c.rule] >= c.trigEnd + MaxLookahead[c.rule] - Window
    BY <1>1, Typed, CandidateFacts
  <2> QED BY <2>2, <2>3
<1> QED BY <1>1, Invariant, PTL

----------------------------------------------------------------------------
(* The second layer.                                                       *)

(* Entries and findings are regular spans of the input.                    *)
LEMMA SpansRegular ==
    ASSUME SpanInv
    PROVE  Regular(entries \cup found, input.len, 255)
<1>1. IInv /\ Ordered /\ Handed BY DEF SpanInv
<1>2. \A e \in entries \cup found : e \in Attributed /\ e.confidence <= 255
  BY <1>1, Typed, EntryAttributed
<1>3. \A e \in entries \cup released : e.end <= input.len BY <1>1 DEF IInv, Bounded
<1>4. ASSUME NEW f \in found PROVE f.end <= input.len
  <2>1. f.start \in Nat /\ f.end \in Nat /\ emitted \in Nat /\ pendingEnd \in Nat /\ input.len \in Nat
    BY <1>1, <1>2, AttributedFields, Typed
  <2>2. CASE emitted <= f.start BY <1>1, <1>3, <2>2 DEF Ordered
  <2>3. CASE f.start < emitted
    <3>1. f.end <= pendingEnd /\ pendingEnd <= input.len
      BY <1>1, <2>3 DEF Handed, IInv, Bounded
    <3> QED BY <2>1, <3>1
  <2> QED BY <2>1, <2>2, <2>3
<1> QED BY <1>1, <1>2, <1>3, <1>4 DEF Regular, Within, Ordered

(* A span confirmed from a window still to come starts beyond the last     *)
(* release, so beyond what was reported and emitted.                       *)
LEMMA ConfirmedIsAhead ==
    ASSUME SpanInv, pc # "done", NEW c \in Unvalidated, WholeWindow(c), Confirmed(c)
    PROVE  LET s == ConfirmedSpan(c)
           IN  /\ s \in Entry /\ s.start < s.end /\ s.end <= input.len
               /\ frontier < s.start /\ emitted <= s.start
               /\ \A f \in found : ~Touches(f, s)
               /\ Regular((entries \cup found) \cup {s}, input.len, 255)
<1> DEFINE s == ConfirmedSpan(c)
           start == c.trigStart - MaxLookbehind[c.rule]
<1>0. IInv /\ Ordered BY DEF SpanInv
<1>1. c \in input.cands BY <1>0, Typed DEF Unvalidated
<1>2. /\ s \in Entry /\ s.start = RefStart(c, input) /\ s.end = RefEnd(c, input)
      /\ s.end <= input.len /\ RefStart(c, input) \in Nat
      /\ ClampedStart(c) = RefStart(c, input) /\ ClampedEnd(c) = RefEnd(c, input)
  BY <1>0, <1>1, ConfirmedIsReference
<1>3. s.start < s.end BY <1>2 DEF Confirmed
<1>4. /\ start \in Int /\ c.from \in Int /\ frontier \in Int /\ emitted \in Nat
      /\ start > frontier /\ emitted <= Higher(frontier, 0)
  BY <1>0, <1>1, Typed, CandidateFacts DEF IInv, AheadOfFrontier
<1>5. RefStart(c, input) = Higher(c.from, Higher(start, 0)) BY DEF RefStart
<1> HIDE DEF s, start
<1>6. frontier < s.start /\ emitted <= s.start BY <1>2, <1>4, <1>5 DEF Higher
<1>7. ASSUME NEW f \in found PROVE ~Touches(f, s)
  <2>1. f.end <= frontier /\ f \in Entry BY <1>0, Typed DEF Ordered
  <2>2. f.end \in Nat /\ s.start \in Nat BY <1>2, <2>1 DEF Entry
  <2> QED BY <1>4, <1>6, <2>1, <2>2 DEF Touches
<1>8. Regular((entries \cup found) \cup {s}, input.len, 255)
  BY <1>2, <1>3, SpansRegular, EntryAttributed DEF Regular, Within
<1> QED BY <1>2, <1>3, <1>6, <1>7, <1>8 DEF s

(* What is true of the collector after a validator has run.                *)
LEMMA CollectedOrdered ==
    ASSUME SpanInv, pc # "done", NEW c \in Unvalidated, WholeWindow(c)
    PROVE  /\ Apart(Collected(c) \cup found)
           /\ \A e \in Collected(c) : e.start < e.end /\ frontier < e.end /\ emitted <= e.start
           /\ \A old \in entries : \E e \in Collected(c) : e.start <= old.start /\ old.end <= e.end
<1>0. IInv /\ Ordered BY DEF SpanInv
<1>1. CASE ~Confirmed(c)
  <2>1. \A e \in entries : e.start \in Nat /\ e.end \in Nat BY <1>0, Typed DEF Entry
  <2> QED BY <1>0, <1>1, <2>1 DEF Collected, Ordered
<1>2. CASE Confirmed(c)
  <2> DEFINE s == ConfirmedSpan(c)
             all == entries \cup found
  <2>1. /\ s \in Entry /\ s.start < s.end /\ s.end <= input.len
        /\ frontier < s.start /\ emitted <= s.start
        /\ \A f \in found : ~Touches(f, s)
        /\ Regular(all \cup {s}, input.len, 255)
    BY <1>2, ConfirmedIsAhead
  <2>2. Collected(c) = AddSpan(entries, s) BY <1>2 DEF Collected
  <2>3. Apart(all) /\ Apart(entries) BY <1>0 DEF Ordered, Apart
  <2>4. input.len \in Nat /\ 255 \in Nat /\ frontier \in Int /\ emitted \in Nat BY <1>0, Typed
  <2> HIDE DEF s, all
  <2>5. Regular(AddSpan(all, s), input.len, 255) /\ Apart(AddSpan(all, s))
    BY <2>1, <2>3, <2>4, AddSpanRegular
  <2>6. AddSpan(all, s) = Collected(c) \cup found BY <2>1, <2>2, AddSpanFrame DEF all
  <2>7. Regular(entries \cup {s}, input.len, 255) BY <2>1 DEF all, Regular, Within
  <2>8. /\ \A x \in Collected(c) :
             (\E a \in entries \cup {s} : x.start = a.start) /\ (x \in entries \/ s.end <= x.end)
        /\ \A old \in entries \cup {s} :
             \E x \in Collected(c) : x.start <= old.start /\ old.end <= x.end
    <3>1. \A x \in AddSpan(entries, s) : \E a \in entries \cup {s} : x.start = a.start
      BY <2>3, <2>4, <2>7, AddSpanRegular
    <3>2. \A x \in AddSpan(entries, s) : x \in entries \/ s.end <= x.end
      BY <2>3, <2>4, <2>7, AddSpanRegular
    <3>3. \A old \in entries \cup {s} :
            \E x \in AddSpan(entries, s) : x.start <= old.start /\ old.end <= x.end
      BY <2>4, <2>7, AddSpanAbsorbs
    <3> QED BY <2>2, <3>1, <3>2, <3>3
  <2>9. ASSUME NEW x \in Collected(c)
        PROVE  x.start < x.end /\ frontier < x.end /\ emitted <= x.start
    <3>1. x.start < x.end /\ x \in Attributed BY <2>5, <2>6 DEF Regular
    <3>2. emitted <= x.start BY <2>1, <2>8, <1>0 DEF Ordered
    <3>3. x.end \in Nat /\ s.start \in Nat /\ s.end \in Nat
      BY <2>1, <3>1, AttributedFields DEF Entry
    <3>4. frontier < x.end BY <2>1, <2>4, <2>8, <3>3, <1>0 DEF Ordered
    <3> QED BY <3>1, <3>2, <3>4
  <2> QED BY <2>5, <2>6, <2>8, <2>9
<1> QED BY <1>1, <1>2

(* A flush takes a part of what is held away, reports it, and emits up to  *)
(* a limit that no held span starts before.                                *)
LEMMA FlushOrdered ==
    ASSUME SpanInv, pc \in {"room", "flush"},
           NEW eof \in BOOLEAN, eof <=> pc = "flush" /\ rerr = "eof",
           NEW force \in BOOLEAN, NEW failed \in BOOLEAN,
           NEW cut \in emitted .. Higher(emitted, bufEnd), Flush(eof, force, failed, cut)
    PROVE  /\ Ordered' /\ Handed'
           /\ \A f \in found' \ found, g \in found : g.end < f.start
           /\ ~failed /\ emitted' < bufBase' =>
                \E e \in entries' : e.start <= emitted' /\ bufBase' <= e.end
           /\ ~failed => \/ RecordAligned /\ ~eof
                         \/ emitted' >= ReleaseLimit(eof)
                         \/ \E e \in entries' : e.start <= emitted'
<1> DEFINE limit == ReleaseLimit(eof)
           final == {e \in entries : e.end <= limit}
           held  == entries \ final
           spans == released \cup final
           to    == EmitLimit(eof, held)
           ended == {pendingEnd} \cup {s.end : s \in {t \in spans : t.start < cut}}
<1>0. IInv /\ Ordered /\ Handed /\ GapCovered BY DEF SpanInv
<1>1. /\ frontier' = limit /\ entries' = held /\ found' = found \cup final
      /\ IF to <= emitted
         THEN /\ ~failed /\ cut = emitted /\ released' = spans
              /\ emitted' = emitted /\ pendingEnd' = pendingEnd
              /\ bufBase' = bufBase
         ELSE /\ cut \in emitted .. to /\ (failed \/ cut = to)
              /\ emitted' = cut
              /\ released' = {s \in spans : s.start >= cut}
              /\ pendingEnd' = Max(ended)
              /\ bufBase' = IF failed THEN bufBase ELSE CompactedBase(to, force)
  BY DEF Flush
<1>2. limit \in Int /\ frontier <= limit BY <1>0, ReleaseLimitFacts
<1>3. /\ held \subseteq entries /\ final \subseteq entries /\ entries = held \cup final
      /\ \A e \in held : ~(e.end <= limit)
      /\ \A e \in final : e.end <= limit
  OBVIOUS
<1>4. /\ to \in Int /\ to <= limit /\ \A e \in held : to <= e.start
      /\ \/ RecordAligned /\ ~eof /\ to > bufBase
         \/ to = limit
         \/ \E first \in held : first.start = to
  BY <1>0, <1>2, <1>3, Typed, EmitLimitFacts
<1>5. /\ \A e \in entries \cup found : e.start \in Nat /\ e.end \in Nat /\ e.start < e.end
      /\ emitted \in Nat /\ frontier \in Int /\ pendingEnd \in Nat /\ bufBase \in Nat
      /\ input.len \in Nat /\ pendingEnd <= input.len
  BY <1>0, Typed DEF Entry, Ordered, IInv, Bounded
<1>6. \A s \in spans : s \in found' /\ s \in entries \cup found
  BY <1>0, <1>1, <1>3 DEF Ordered
<1> HIDE DEF limit, final, held, spans, to
<1>7. /\ emitted' = cut /\ cut \in Nat /\ emitted <= cut /\ (cut <= to \/ cut = emitted)
  <2>1. cut \in emitted .. Higher(emitted, bufEnd) /\ Higher(emitted, bufEnd) \in Int
    BY <1>0, Typed, LowerHigher
  <2>2. cut \in Nat /\ emitted <= cut BY <1>5, <2>1
  <2>3. CASE to <= emitted BY <1>1, <2>2, <2>3
  <2>4. CASE ~(to <= emitted)
    <3>1. cut \in emitted .. to BY <1>1, <2>4
    <3>2. cut <= to BY <1>4, <1>5, <3>1
    <3> QED BY <1>1, <2>2, <2>4, <3>2
  <2> QED BY <2>3, <2>4
<1>8. \A e \in held : cut <= e.start
  <2> TAKE e \in held
  <2>1. emitted <= e.start /\ to <= e.start /\ e.start \in Nat
    BY <1>0, <1>3, <1>4, <1>5 DEF Ordered
  <2> QED BY <1>4, <1>5, <1>7, <2>1
<1>9. \A e \in final : emitted <= e.start BY <1>0, <1>3 DEF Ordered
<1>10. entries' \cup found' = entries \cup found BY <1>1, <1>3
<1>11. released' = {f \in found' : emitted' <= f.start}
  <2>1. CASE to <= emitted
    <3>1. released' = spans /\ emitted' = emitted BY <1>1, <2>1
    <3> QED BY <1>0, <1>1, <1>9, <3>1 DEF Ordered, spans
  <2>2. CASE ~(to <= emitted)
    <3>1. released' = {s \in spans : s.start >= cut} BY <1>1, <2>2
    <3>2. \A s \in spans : s.start >= cut <=> cut <= s.start BY <1>5, <1>6, <1>7
    <3>3. ASSUME NEW f \in found, cut <= f.start PROVE f \in released
      <4>1. f.start \in Nat /\ emitted <= f.start BY <1>5, <1>7, <3>3
      <4> QED BY <1>0, <4>1 DEF Ordered
    <3>4. released' \subseteq {f \in found' : cut <= f.start} BY <1>6, <3>1, <3>2
    <3>5. \A f \in found' : cut <= f.start => f \in spans BY <1>1, <3>3 DEF spans
    <3> QED BY <1>7, <3>1, <3>2, <3>4, <3>5
  <2> QED BY <2>1, <2>2
<1>12. Ordered'
  <2>1. \A e \in entries' \cup found' : e.start < e.end BY <1>5, <1>10
  <2>2. Apart(entries' \cup found') BY <1>0, <1>10 DEF Ordered
  <2>3. ASSUME NEW f \in found' PROVE f.end <= frontier'
    <3>1. CASE f \in found
      <4>1. f.end <= frontier /\ f.end \in Nat BY <1>0, <1>5, <3>1 DEF Ordered
      <4> QED BY <1>1, <1>2, <1>5, <4>1
    <3>2. CASE f \in final BY <1>1, <1>3, <3>2
    <3> QED BY <1>1, <3>1, <3>2
  <2>4. ASSUME NEW e \in entries' PROVE frontier' < e.end /\ emitted' <= e.start
    <3>1. e \in held /\ e.end \in Nat /\ ~(e.end <= limit) BY <1>1, <1>3, <1>5
    <3> QED BY <1>1, <1>2, <1>7, <1>8, <3>1
  <2> QED BY <2>1, <2>2, <2>3, <2>4, <1>11 DEF Ordered, Apart
<1>13. Handed'
  <2>1. CASE to <= emitted
    <3>1. emitted' = emitted /\ pendingEnd' = pendingEnd BY <1>1, <2>1
    <3>2. \A f \in final : ~(f.start < emitted) BY <1>3, <1>5, <1>9
    <3> QED BY <1>0, <1>1, <3>1, <3>2 DEF Handed
  <2>2. CASE ~(to <= emitted)
    <3>1. pendingEnd' = Max(ended) BY <1>1, <2>2
    <3>2. \A x \in ended : x \in Nat /\ x <= input.len
      <4>1. \A s \in spans : s.end \in Nat /\ s.end <= input.len
        BY <1>5, <1>6, SpansRegular DEF Regular, Within
      <4> QED BY <1>5, <4>1
    <3>3. ended \in SUBSET Int /\ ended # {} BY <3>2
    <3>4. pendingEnd \in ended OBVIOUS
    <3>5. \A s \in spans : s.start < cut => s.end \in ended OBVIOUS
    <3>6. \A x \in ended : x = pendingEnd \/ \E s \in spans : s.start < cut /\ x = s.end OBVIOUS
    <3> HIDE DEF ended
    <3>7. Max(ended) \in ended /\ \A x \in ended : x <= Max(ended)
      BY <3>2, <3>3, <1>5, input.len \in Int, MaxBounded
    <3>8. ASSUME NEW f \in found', f.start < emitted' PROVE f.end <= pendingEnd'
      <4>1. f.start \in Nat /\ f.end \in Nat BY <1>5, <1>10
      <4>2. CASE f \in spans BY <1>7, <3>1, <3>5, <3>7, <3>8, <4>2
      <4>3. CASE f \notin spans
        <5>1. f \in found /\ f \notin released BY <1>1, <4>3 DEF spans
        <5>2. f.start < emitted BY <1>0, <1>5, <4>1, <5>1 DEF Ordered
        <5>3. f.end <= pendingEnd /\ pendingEnd <= Max(ended) BY <1>0, <3>4, <3>7, <5>1, <5>2 DEF Handed
        <5> QED BY <1>5, <3>1, <3>2, <3>7, <4>1, <5>3
      <4> QED BY <4>2, <4>3
    <3>9. pendingEnd' = 0 \/ \E f \in found' : f.start < emitted' /\ f.end = pendingEnd'
      <4>1. CASE pendingEnd' = pendingEnd
        <5>1. CASE pendingEnd = 0 BY <4>1, <5>1
        <5>2. CASE pendingEnd # 0
          <6>1. PICK f \in found : f.start < emitted /\ f.end = pendingEnd BY <1>0, <5>2 DEF Handed
          <6>2. f.start < cut BY <1>5, <1>7, <6>1
          <6> QED BY <1>1, <1>7, <4>1, <6>1, <6>2
        <5> QED BY <5>1, <5>2
      <4>2. CASE \E s \in spans : s.start < cut /\ pendingEnd' = s.end BY <1>6, <1>7, <4>2
      <4> QED BY <3>1, <3>6, <3>7, <4>1, <4>2
    <3> QED BY <3>8, <3>9 DEF Handed
  <2> QED BY <2>1, <2>2
<1>14. ASSUME NEW f \in found' \ found, NEW g \in found PROVE g.end < f.start
  <2>1. f \in final /\ f \in entries BY <1>1, <1>3
  <2>2. /\ f.start \in Nat /\ f.end \in Nat /\ g.start \in Nat /\ g.end \in Nat
        /\ f.start < f.end /\ g.start < g.end
    BY <1>5, <2>1
  <2>3. ~Touches(g, f) BY <1>0, <2>1 DEF Ordered, Apart
  <2>4. g.end <= frontier /\ frontier < f.end BY <1>0, <2>1 DEF Ordered
  <2> QED BY <1>5, <2>2, <2>3, <2>4 DEF Touches
<1>15. ASSUME ~failed, emitted' < bufBase'
       PROVE  \E e \in entries' : e.start <= emitted' /\ bufBase' <= e.end
  <2>1. /\ bufBase' = bufBase \/ (bufBase' = to /\ ~(to <= emitted))
        /\ to <= emitted => emitted' = emitted
        /\ ~(to <= emitted) => emitted' = to
    BY <1>1, <1>15, <1>4, <1>5 DEF CompactedBase
  <2>2. bufBase' = bufBase /\ emitted < bufBase BY <1>15, <1>4, <1>5, <2>1
  <2>3. PICK e \in entries : e.start <= emitted /\ bufBase <= e.end
    BY <1>0, <2>2 DEF GapCovered
  <2>4. e.start \in Nat /\ e.end \in Nat /\ e.start < e.end BY <1>5
  <2>5. CASE e \in held
    <3>1. to <= emitted BY <1>4, <1>5, <2>3, <2>4, <2>5
    <3> QED BY <1>1, <2>1, <2>2, <2>3, <2>5, <3>1
  <2>6. CASE e \in final
    <3>1. e.end <= limit BY <1>3, <2>6
    <3>2. bufBase <= to
      <4>1. CASE to > bufBase BY <4>1, <1>4, <1>5
      <4>2. CASE to = limit BY <4>2, <3>1, <2>3, <2>4, <1>5, <1>2
      <4>3. CASE \E first \in held : first.start = to
        <5>1. PICK first \in held : first.start = to BY <4>3
        <5>2. /\ first.start \in Nat /\ first.end \in Nat /\ first.start < first.end
              /\ ~(first.end <= limit) /\ first # e
          BY <1>3, <1>5, <3>1
        <5>3. ~Touches(first, e) BY <1>0, <1>3, <2>6, <5>2 DEF Ordered, Apart
        <5>4. e.end < first.start BY <1>2, <2>4, <3>1, <5>2, <5>3 DEF Touches
        <5> QED BY <1>4, <1>5, <2>3, <2>4, <5>1, <5>2, <5>4
      <4> QED BY <1>4, <4>1, <4>2, <4>3
    <3>3. ~(to <= emitted) BY <1>4, <1>5, <2>2, <3>2
    <3>4. emitted' = to BY <2>1, <3>3
    <3> QED BY <1>15, <1>4, <1>5, <2>2, <3>2, <3>4
  <2> QED BY <1>3, <2>5, <2>6
<1>16. ASSUME ~failed, ~(RecordAligned /\ ~eof)
       PROVE  emitted' >= limit \/ \E e \in entries' : e.start <= emitted'
  <2>1. to <= emitted' BY <1>1, <1>16, <1>4, <1>5, <1>7
  <2>2. CASE to = limit BY <1>2, <1>7, <2>1, <2>2
  <2>3. CASE \E first \in held : first.start = to BY <1>1, <2>1, <2>3
  <2> QED BY <1>16, <1>4, <2>2, <2>3
<1> QED BY <1>12, <1>13, <1>14, <1>15, <1>16 DEF limit

----------------------------------------------------------------------------
(* The steps.                                                              *)

LEMMA InitSpanInv == Init => SpanInv
<1> SUFFICES ASSUME Init PROVE SpanInv OBVIOUS
<1>1. IInv BY InitIInv
<1>2. entries = {} /\ found = {} /\ released = {} /\ pendingEnd = 0 /\ emitted = 0 /\ bufBase = 0
      /\ bufEnd = 0 /\ Window \in Nat
  BY EngineAssumption DEF Init
<1>3. Ordered BY <1>2 DEF Ordered, Apart
<1>4. Handed BY <1>2 DEF Handed
<1>5. GapCovered BY <1>2 DEF GapCovered
<1>6. Prompt BY <1>2 DEF Prompt
<1> QED BY <1>1, <1>3, <1>4, <1>5, <1>6 DEF SpanInv

(* A step that leaves the spans where they are, and drops from the buffer  *)
(* no more than what was emitted.                                          *)
LEMMA FrameSpanInv ==
    ASSUME SpanInv, IInv', pc # "done",
           entries' = entries, released' = released, found' = found, emitted' = emitted,
           pendingEnd' = pendingEnd, frontier' = frontier,
           bufBase' = bufBase \/ bufBase' = emitted,
           pc' \in {"top", "room", "full", "read"} =>
                pc \in {"top", "room", "full", "read"} /\ bufEnd' = bufEnd
    PROVE  SpanInv'
<1>1. Ordered' /\ Handed' BY DEF SpanInv, Ordered, Handed, Apart
<1>2. GapCovered'
  <2>1. emitted \in Nat BY Typed DEF SpanInv
  <2>2. ~(emitted < emitted) BY <2>1
  <2> QED BY <2>2 DEF SpanInv, GapCovered
<1>3. Prompt' BY DEF SpanInv, Prompt
<1> QED BY <1>1, <1>2, <1>3 DEF SpanInv

(* What Discard drops lies inside the span at the emission frontier.       *)
LEMMA DiscardSpanInv == SpanInv /\ IInv' /\ Discard => SpanInv'
<1> SUFFICES ASSUME SpanInv, IInv', Discard PROVE SpanInv' OBVIOUS
<1>1. /\ pc = "full" /\ pc' = "read" /\ bufEnd' = bufEnd
      /\ entries' = entries /\ released' = released /\ found' = found
      /\ emitted' = emitted /\ pendingEnd' = pendingEnd /\ frontier' = frontier
  BY DEF Discard, Goto, outVars
<1>2. Discardable(bufEnd - Window) BY <1>1 DEF SpanInv, IInv, Pinned
<1>3. bufBase' = bufEnd - Window BY <1>2 DEF Discard
<1>4. PICK first \in entries : first.start <= emitted /\ first.end >= bufEnd - Window
  BY <1>2 DEF Discardable
<1>5. first.end \in Nat /\ bufEnd \in Nat /\ Window \in Nat BY Typed DEF SpanInv, Entry
<1>6. bufBase' <= first.end BY <1>3, <1>4, <1>5
<1>7. GapCovered' BY <1>1, <1>4, <1>6 DEF GapCovered
<1>8. Ordered' /\ Handed' BY <1>1 DEF SpanInv, Ordered, Handed, Apart
<1>9. Prompt' BY <1>1 DEF SpanInv, Prompt
<1> QED BY <1>7, <1>8, <1>9 DEF SpanInv

(* A validator that runs, or panics.                                       *)
LEMMA ValidatedSpanInv ==
    ASSUME SpanInv, IInv', pc \in {"scan", "pend", "drain"}, NEW c \in scanQ \cup pending,
           Buffered(c) \/ pc = "drain", Validate(c),
           bufBase' = bufBase, released' = released, emitted' = emitted,
           pendingEnd' = pendingEnd, found' = found, frontier' = frontier
    PROVE  SpanInv'
<1>0. IInv /\ Ordered /\ Handed /\ GapCovered BY DEF SpanInv
<1>1. \/ entries' = entries /\ pc' = "done"
      \/ entries' = Collected(c) /\ pc' = pc
  BY DEF Validate, Return
<1>2. CASE entries' = entries /\ pc' = "done" BY <1>2, FrameSpanInv
<1>3. CASE entries' = Collected(c) /\ pc' = pc
  <2>1. WholeWindow(c) /\ c \in Unvalidated BY <1>0, WindowIsWhole DEF Unvalidated
  <2>2. /\ Apart(Collected(c) \cup found)
        /\ \A e \in Collected(c) : e.start < e.end /\ frontier < e.end /\ emitted <= e.start
        /\ \A old \in entries : \E e \in Collected(c) : e.start <= old.start /\ old.end <= e.end
    BY <2>1, CollectedOrdered
  <2>3. Ordered' BY <1>0, <1>3, <2>2 DEF Ordered, Apart
  <2>4. Handed' BY <1>0, <1>3 DEF Handed
  <2>5. GapCovered'
    <3>1. SUFFICES ASSUME emitted < bufBase
                   PROVE  \E e \in Collected(c) : e.start <= emitted /\ bufBase <= e.end
      BY <1>3 DEF GapCovered
    <3>2. PICK old \in entries : old.start <= emitted /\ bufBase <= old.end
      BY <1>0, <3>1 DEF GapCovered
    <3>3. PICK e \in Collected(c) : e.start <= old.start /\ old.end <= e.end BY <2>2
    <3>4. /\ old.start \in Nat /\ old.end \in Nat /\ e.start \in Nat /\ e.end \in Nat
          /\ emitted \in Nat /\ bufBase \in Nat
      <4>1. old \in Entry /\ e \in Entry BY <1>0, <1>3, Typed DEF IInv, TypeOK
      <4> QED BY <1>0, <4>1, Typed DEF Entry
    <3> QED BY <3>2, <3>3, <3>4
  <2>6. Prompt' BY <1>3 DEF Prompt
  <2> QED BY <2>3, <2>4, <2>5, <2>6 DEF SpanInv
<1> QED BY <1>1, <1>2, <1>3

(* A flush, wherever it happens.                                           *)
LEMMA FlushSpanInv ==
    ASSUME SpanInv, IInv', pc \in {"room", "flush"},
           NEW eof \in BOOLEAN, eof <=> pc = "flush" /\ rerr = "eof",
           NEW force \in BOOLEAN, NEW failed \in BOOLEAN,
           NEW cut \in emitted .. Higher(emitted, bufEnd), Flush(eof, force, failed, cut),
           bufEnd' = bufEnd, pc' # "done" => ~failed /\ ~eof
    PROVE  SpanInv'
<1>1. /\ Ordered' /\ Handed'
      /\ ~failed /\ emitted' < bufBase' =>
           \E e \in entries' : e.start <= emitted' /\ bufBase' <= e.end
      /\ ~failed => \/ RecordAligned /\ ~eof
                    \/ emitted' >= ReleaseLimit(eof)
                    \/ \E e \in entries' : e.start <= emitted'
  BY FlushOrdered
<1>2. GapCovered' BY <1>1 DEF GapCovered
<1>3. ~eof => ReleaseLimit(eof) = bufEnd - Window BY ReleaseLimitFacts DEF SpanInv
<1>4. Prompt' BY <1>1, <1>3 DEF Prompt
<1> QED BY <1>1, <1>2, <1>4 DEF SpanInv

(* Every step that flushes does so as Flush says.                          *)
LEMMA FlushingStep ==
    ASSUME RoomFlush \/ Finish
    PROVE  \E eof, force, failed \in BOOLEAN, cut \in emitted .. Higher(emitted, bufEnd) :
             /\ pc \in {"room", "flush"} /\ (eof <=> pc = "flush" /\ rerr = "eof")
             /\ Flush(eof, force, failed, cut)
             /\ input' = input /\ bufEnd' = bufEnd /\ capacity' = capacity
             /\ scanQ' = scanQ /\ pending' = pending
             /\ pc' # "done" => ~failed /\ ~eof /\ result' = result
             /\ result' = "ok" => (eof /\ ~failed) \/ result' = result
<1>1. CASE RoomFlush
  <2>1. PICK failed \in BOOLEAN, cut \in emitted .. Higher(emitted, bufEnd) :
          /\ Flush(FALSE, TRUE, failed, cut)
          /\ IF failed THEN Return("write")
             ELSE Goto(IF bufEnd - bufBase' < capacity THEN "read" ELSE "full")
    BY <1>1 DEF RoomFlush
  <2>2. /\ pc = "room" /\ input' = input /\ bufEnd' = bufEnd /\ capacity' = capacity
        /\ scanQ' = scanQ /\ pending' = pending
    BY <1>1 DEF RoomFlush, scanVars
  <2>3. /\ pc' # "done" => ~failed /\ result' = result
        /\ result' = "ok" => result' = result
    BY <2>1 DEF Return, Goto
  <2> QED BY <2>1, <2>2, <2>3
<1>2. CASE Finish
  <2> DEFINE eof == rerr = "eof"
  <2>1. PICK failed \in BOOLEAN, cut \in emitted .. Higher(emitted, bufEnd) :
          /\ Flush(eof, FALSE, failed, cut)
          /\ \/ rerr = "err" /\ Return("read")
             \/ rerr # "err" /\ failed /\ Return("write")
             \/ rerr = "eof" /\ ~failed /\ Return("ok")
             \/ rerr = "nil" /\ ~failed /\ Goto("top")
    BY <1>2 DEF Finish
  <2>2. /\ pc = "flush" /\ input' = input /\ bufEnd' = bufEnd /\ capacity' = capacity
        /\ scanQ' = scanQ /\ pending' = pending
    BY <1>2 DEF Finish, scanVars
  <2>3. /\ pc' # "done" => ~failed /\ ~eof /\ result' = result
        /\ result' = "ok" => (eof /\ ~failed) \/ result' = result
    BY <2>1 DEF Return, Goto
  <2>4. eof \in BOOLEAN /\ (eof <=> rerr = "eof") OBVIOUS
  <2> HIDE DEF eof
  <2> QED BY <2>1, <2>2, <2>3, <2>4
<1> QED BY <1>1, <1>2

(* Every step that runs a validator, or queues what it will be shown.      *)
LEMMA ValidatingStep ==
    ASSUME IInv, Scan \/ Pend \/ Drain
    PROVE  /\ pc \in {"scan", "pend", "drain"}
           /\ input' = input /\ bufBase' = bufBase /\ bufEnd' = bufEnd
           /\ released' = released /\ emitted' = emitted /\ found' = found
           /\ pendingEnd' = pendingEnd /\ out' = out /\ frontier' = frontier
           /\ \/ /\ entries' = entries /\ result' = result
                 /\ pc' \in {"scan", "pend", "drain", "flush"}
                 /\ scanQ' \cup pending' = scanQ \cup pending
                 /\ scanQ' \cap pending' \subseteq scanQ \cap pending
              \/ \E c \in scanQ \cup pending :
                   /\ Buffered(c) \/ pc = "drain"
                   /\ Validate(c)
                   /\ \/ c \in scanQ /\ scanQ' = scanQ \ {c} /\ pending' = pending
                      \/ c \in pending /\ scanQ' = scanQ /\ pending' = pending \ {c}
<1>1. CASE Scan
  <2>1. /\ pc = "scan" /\ input' = input /\ bufBase' = bufBase /\ bufEnd' = bufEnd
        /\ released' = released /\ emitted' = emitted /\ found' = found
        /\ pendingEnd' = pendingEnd /\ out' = out /\ frontier' = frontier
    BY <1>1 DEF Scan, outVars
  <2>2. CASE scanQ = {}
    <3>1. /\ pc' = "pend" /\ result' = result
          /\ scanQ' = scanQ /\ pending' = pending /\ entries' = entries
      BY <1>1, <2>2 DEF Scan, Goto, scanVars
    <3> QED BY <2>1, <3>1
  <2>3. CASE scanQ # {}
    <3>1. PICK c \in scanQ : OnTrigger(c) BY <1>1, <2>3 DEF Scan
    <3>2. c.trigStart >= bufBase BY <2>1, WindowIsWhole
    <3>3. c.trigStart \in Nat /\ bufBase \in Nat BY Typed, CandidateFacts
    <3>4. ~(c.trigStart < bufBase) /\ scanQ' = scanQ \ {c} BY <3>1, <3>2, <3>3 DEF OnTrigger
    <3>5. CASE Buffered(c)
      <4>1. Validate(c) /\ pending' = pending BY <3>1, <3>4, <3>5 DEF OnTrigger
      <4> QED BY <2>1, <3>4, <3>5, <4>1
    <3>6. CASE ~Buffered(c)
      <4>1. /\ pending' = pending \cup {c} /\ entries' = entries
            /\ pc' = pc /\ result' = result
        BY <3>1, <3>4, <3>6 DEF OnTrigger
      <4>2. /\ scanQ' \cup pending' = scanQ \cup pending
            /\ scanQ' \cap pending' \subseteq scanQ \cap pending
        BY <3>4, <4>1
      <4> QED BY <2>1, <4>1, <4>2
    <3> QED BY <3>5, <3>6
  <2> QED BY <2>2, <2>3
<1>2. CASE Pend \/ Drain
  <2>1. PICK eof \in BOOLEAN, next \in {"drain", "flush"} :
          /\ pc \in {"pend", "drain"} /\ (eof <=> pc = "drain")
          /\ ValidatePending(eof, next)
    BY <1>2 DEF Pend, Drain
  <2>2. /\ input' = input /\ bufBase' = bufBase /\ bufEnd' = bufEnd
        /\ released' = released /\ emitted' = emitted /\ found' = found
        /\ pendingEnd' = pendingEnd /\ out' = out /\ frontier' = frontier
    BY <2>1 DEF ValidatePending, outVars
  <2> DEFINE ready == {c \in pending : eof \/ Buffered(c)}
  <2>3. CASE ready = {}
    <3>1. /\ pc' = next /\ result' = result
          /\ scanQ' = scanQ /\ pending' = pending /\ entries' = entries
      BY <2>1, <2>3 DEF ValidatePending, Goto, scanVars
    <3> QED BY <2>1, <2>2, <3>1
  <2>4. CASE ready # {}
    <3>1. PICK c \in ready : Validate(c) /\ pending' = pending \ {c} /\ scanQ' = scanQ
      BY <2>1, <2>4 DEF ValidatePending
    <3>2. c \in pending /\ (Buffered(c) \/ pc = "drain") BY <2>1, <3>1
    <3> HIDE DEF ready
    <3> QED BY <2>1, <2>2, <3>1, <3>2
  <2> QED BY <2>3, <2>4
<1> QED BY <1>1, <1>2

LEMMA NextSpanInv == SpanInv /\ [Next]_vars => SpanInv'
<1> SUFFICES ASSUME SpanInv, [Next]_vars PROVE SpanInv' OBVIOUS
<1>0. IInv /\ IInv' BY NextIInv DEF SpanInv
<1>1. CASE Cancel
  <2>1. /\ pc = "top" /\ pc' = "done" /\ entries' = entries /\ released' = released
        /\ found' = found /\ emitted' = emitted /\ pendingEnd' = pendingEnd
        /\ frontier' = frontier /\ bufBase' = bufBase
    BY <1>1 DEF Cancel, Return, outVars
  <2> QED BY <1>0, <2>1, FrameSpanInv
<1>2. CASE MakeRoom
  <2>1. /\ pc = "top" /\ pc' \in {"read", "room"} /\ entries' = entries /\ released' = released
        /\ found' = found /\ emitted' = emitted /\ pendingEnd' = pendingEnd
        /\ frontier' = frontier /\ bufEnd' = bufEnd
        /\ bufBase' = bufBase \/ bufBase' = emitted
    BY <1>2 DEF MakeRoom, Goto, outVars, CompactedBase
  <2> QED BY <1>0, <2>1, FrameSpanInv
<1>3. CASE Discard BY <1>0, <1>3, DiscardSpanInv
<1>4. CASE ReadSome \/ ReadNothing \/ ReadEnds \/ ReadBadCount
  <2>1. /\ pc = "read" /\ entries' = entries /\ released' = released
        /\ found' = found /\ emitted' = emitted /\ pendingEnd' = pendingEnd
        /\ frontier' = frontier /\ bufBase' = bufBase
    BY <1>4 DEF ReadSome, ReadNothing, ReadEnds, ReadBadCount, outVars
  <2>2. pc' \in {"top", "room", "full", "read"} => bufEnd' = bufEnd
    BY <1>4 DEF ReadSome, ReadNothing, ReadEnds, ReadBadCount, Goto, Return
  <2> QED BY <1>0, <2>1, <2>2, FrameSpanInv
<1>5. CASE Scan \/ Pend \/ Drain
  <2>1. /\ pc \in {"scan", "pend", "drain"} /\ bufBase' = bufBase
        /\ released' = released /\ emitted' = emitted /\ found' = found
        /\ pendingEnd' = pendingEnd /\ frontier' = frontier
        /\ \/ entries' = entries /\ pc' \in {"scan", "pend", "drain", "flush"}
           \/ \E c \in scanQ \cup pending : (Buffered(c) \/ pc = "drain") /\ Validate(c)
    BY <1>0, <1>5, ValidatingStep
  <2>2. CASE entries' = entries /\ pc' \in {"scan", "pend", "drain", "flush"}
    BY <1>0, <2>1, <2>2, FrameSpanInv
  <2>3. CASE \E c \in scanQ \cup pending : (Buffered(c) \/ pc = "drain") /\ Validate(c)
    BY <1>0, <2>1, <2>3, ValidatedSpanInv
  <2> QED BY <2>1, <2>2, <2>3
<1>6. CASE RoomFlush \/ Finish
  <2>1. PICK eof \in BOOLEAN, force \in BOOLEAN, failed \in BOOLEAN,
             cut \in emitted .. Higher(emitted, bufEnd) :
          /\ pc \in {"room", "flush"} /\ (eof <=> pc = "flush" /\ rerr = "eof")
          /\ Flush(eof, force, failed, cut) /\ bufEnd' = bufEnd
          /\ pc' # "done" => ~failed /\ ~eof
    BY <1>6, FlushingStep
  <2> QED BY <1>0, <2>1, FlushSpanInv
<1>7. CASE UNCHANGED vars
  <2> USE <1>7 DEF vars
  <2>1. Ordered' /\ Handed' BY DEF SpanInv, Ordered, Handed, Apart
  <2>2. GapCovered' BY DEF SpanInv, GapCovered
  <2>3. Prompt' BY DEF SpanInv, Prompt
  <2> QED BY <1>0, <2>1, <2>2, <2>3 DEF SpanInv
<1> QED BY <1>1, <1>2, <1>3, <1>4, <1>5, <1>6, <1>7 DEF Next, Terminated

----------------------------------------------------------------------------
(* What the second layer establishes.                                      *)

(* In every state of every call the held and the reported spans stand      *)
(* apart, and where release and emission left them.                        *)
THEOREM SpanInvariant == Spec => []SpanInv
BY InitSpanInv, NextSpanInv, PTL DEF Spec

(* Bytes dropped from the buffer before they were output lie inside the    *)
(* span at the emission frontier (engine.go, makeRoom): their replacement  *)
(* does not need them.                                                     *)
THEOREM GapsAreCovered == Spec => []GapCovered
<1>1. SpanInv => GapCovered BY DEF SpanInv
<1> QED BY <1>1, SpanInvariant, PTL

(* Emit never panics on what the engine hands it (writer.go, Emit; the     *)
(* loop of engine.go, emitTo): spans lie ahead of the write position and   *)
(* of the redaction in progress, apart from each other.                    *)
THEOREM EmitIsToldWell == Spec => []WriterContract
<1>1. ASSUME SpanInv PROVE WriterContract
  <2>0. IInv /\ Ordered /\ Handed BY <1>1 DEF SpanInv
  <2>1. \A s \in entries \cup released : s \in entries \cup found /\ emitted <= s.start
    BY <2>0 DEF Ordered
  <2>2. /\ emitted \in Nat /\ pendingEnd \in Nat
        /\ \A s \in entries \cup found : s.start \in Nat /\ s.end \in Nat /\ s.start < s.end
    BY <2>0, Typed DEF Ordered, Entry
  <2>3. ASSUME NEW s \in entries \cup released, pendingEnd > 0 PROVE s.start > pendingEnd
    <3>1. PICK f \in found : f.start < emitted /\ f.end = pendingEnd
      BY <2>0, <2>2, <2>3 DEF Handed
    <3>2. s # f BY <2>1, <2>2, <3>1
    <3>3. ~Touches(f, s) BY <2>0, <2>1, <3>2 DEF Ordered, Apart
    <3> QED BY <2>1, <2>2, <3>1, <3>3 DEF Touches
  <2>4. \A s, t \in entries \cup released : s # t => ~Touches(s, t)
    BY <2>0, <2>1 DEF Ordered, Apart
  <2>5. \A s \in entries \cup released : s.start >= emitted BY <2>1, <2>2
  <2> QED BY <2>3, <2>4, <2>5 DEF WriterContract
<1> QED BY <1>1, SpanInvariant, PTL

(* At the top of the loop the output is a window behind the input, or      *)
(* stands at a span that may still grow (engine.go, flush).                *)
THEOREM OutputIsPrompt == Spec => []EmitsPromptly
<1>1. SpanInv => EmitsPromptly BY DEF SpanInv, Prompt, EmitsPromptly
<1> QED BY <1>1, SpanInvariant, PTL

(* OnFinding sees the findings in input order, each of them apart from     *)
(* those before it (engine.go, flush).                                     *)
THEOREM FindingsAreInOrder == Spec => FindingsInOrder
<1>1. ASSUME SpanInv, [Next]_vars
      PROVE  [\A f \in found' \ found, g \in found : g.end < f.start]_vars
  <2>1. CASE RoomFlush \/ Finish
    <3>1. PICK eof \in BOOLEAN, force \in BOOLEAN, failed \in BOOLEAN,
               cut \in emitted .. Higher(emitted, bufEnd) :
            /\ pc \in {"room", "flush"} /\ (eof <=> pc = "flush" /\ rerr = "eof")
            /\ Flush(eof, force, failed, cut)
      BY <2>1, FlushingStep
    <3> QED BY <1>1, <3>1, FlushOrdered
  <2>2. CASE Scan \/ Pend \/ Drain
    <3>1. found' = found BY <1>1, <2>2, ValidatingStep DEF SpanInv
    <3> QED BY <3>1
  <2>3. CASE \/ Cancel \/ MakeRoom \/ Discard
             \/ ReadSome \/ ReadNothing \/ ReadEnds \/ ReadBadCount
    <3>1. found' = found
      BY <2>3 DEF Cancel, MakeRoom, Discard, ReadSome, ReadNothing, ReadEnds, ReadBadCount, outVars
    <3> QED BY <3>1
  <2>4. CASE UNCHANGED vars BY <2>4
  <2> QED BY <1>1, <2>1, <2>2, <2>3, <2>4 DEF Next, Terminated
<1> QED BY <1>1, SpanInvariant, PTL DEF Spec, FindingsInOrder

----------------------------------------------------------------------------
(* The third layer: what has been found and written is the reference.      *)

(* Where a candidate's reference span lies.                                *)
LEMMA ReferenceFacts ==
    ASSUME NEW in \in Inputs, NEW c \in in.cands
    PROVE  /\ RefStart(c, in) \in Nat /\ c.trigStart - MaxLookbehind[c.rule] <= RefStart(c, in)
           /\ RefEnd(c, in) \in Int /\ RefEnd(c, in) <= in.len
<1> DEFINE start == c.trigStart - MaxLookbehind[c.rule]
           stop  == c.trigEnd + MaxLookahead[c.rule]
<1>1. /\ start \in Int /\ stop \in Int /\ in.len \in Nat /\ c.from \in Int /\ c.to \in Int
  BY CandidateFacts
<1>2. /\ RefStart(c, in) = Higher(c.from, Higher(start, 0))
      /\ RefEnd(c, in) = Lower(c.to, Lower(stop, in.len))
  BY DEF RefStart, RefEnd
<1> HIDE DEF start, stop
<1>3. Higher(start, 0) \in Nat /\ start <= Higher(start, 0) BY <1>1, HigherZero
<1>4. RefStart(c, in) \in Nat /\ start <= RefStart(c, in) BY <1>1, <1>2, <1>3 DEF Higher
<1>5. Lower(stop, in.len) \in Int /\ Lower(stop, in.len) <= in.len
  BY <1>1, in.len \in Int, LowerHigher
<1>6. RefEnd(c, in) \in Int /\ RefEnd(c, in) <= in.len BY <1>1, <1>2, <1>5 DEF Lower
<1> QED BY <1>4, <1>6 DEF start

(* Reference spans are regular spans of the input.                         *)
LEMMA ReferenceRegular ==
    ASSUME IInv
    PROVE  /\ Regular(ReferenceSpans(input), input.len, 255)
           /\ ConfirmedSpans \subseteq ReferenceSpans(input)
           /\ Regular(ConfirmedSpans, input.len, 255)
<1>1. input \in Inputs /\ input.len \in Nat BY Typed
<1>2. ASSUME NEW s \in ReferenceSpans(input)
      PROVE  /\ s \in Attributed /\ s.start < s.end /\ s.end <= input.len /\ s.confidence <= 255
    <2>1. PICK c \in input.cands :
            /\ RefStart(c, input) < RefEnd(c, input)
            /\ s = RawSpan(RefStart(c, input), RefEnd(c, input), c.rule, Confidence[c.rule])
      BY DEF ReferenceSpans
    <2>2. /\ RefStart(c, input) \in Nat /\ RefEnd(c, input) \in Int /\ RefEnd(c, input) <= input.len
      BY <1>1, ReferenceFacts
    <2>3. RefEnd(c, input) \in Nat BY <2>1, <2>2
    <2>4. c.rule \in Nat /\ Confidence[c.rule] \in 0..255 BY <1>1, CandidateFacts, EngineAssumption
    <2>5. Confidence[c.rule] \in Nat /\ Confidence[c.rule] <= 255 BY <2>4
    <2>6. s = [start |-> RefStart(c, input), end |-> RefEnd(c, input),
               rule |-> c.rule, confidence |-> Confidence[c.rule],
               attribStart |-> RefStart(c, input)]
      BY <2>1 DEF RawSpan
    <2> QED BY <2>1, <2>2, <2>3, <2>4, <2>5, <2>6 DEF Attributed
<1>3. ConfirmedSpans \subseteq ReferenceSpans(input) BY DEF ConfirmedSpans, ReferenceSpans
<1> QED BY <1>2, <1>3 DEF Regular, Within

(* Reference spans still to be confirmed start beyond the last release.    *)
LEMMA UnconfirmedAhead ==
    ASSUME IInv, StillAhead
    PROVE  \A s \in ReferenceSpans(input) : s \in ConfirmedSpans \/ frontier < s.start
<1>1. TAKE s \in ReferenceSpans(input)
<1>2. PICK c \in input.cands :
        /\ c.answer = "span" /\ RefStart(c, input) < RefEnd(c, input)
        /\ s = RawSpan(RefStart(c, input), RefEnd(c, input), c.rule, Confidence[c.rule])
  BY DEF ReferenceSpans
<1>3. CASE c \notin Unvalidated BY <1>2, <1>3 DEF ConfirmedSpans
<1>4. CASE c \in Unvalidated
  <2> DEFINE start == c.trigStart - MaxLookbehind[c.rule]
  <2>1. start > frontier BY <1>4 DEF StillAhead
  <2>2. start \in Int /\ frontier \in Int BY Typed, CandidateFacts
  <2>3. RefStart(c, input) \in Nat /\ start <= RefStart(c, input) BY Typed, ReferenceFacts
  <2>4. s.start = RefStart(c, input) BY <1>2 DEF RawSpan
  <2> HIDE DEF start
  <2> QED BY <2>1, <2>2, <2>3, <2>4
<1> QED BY <1>3, <1>4

(* A component of the confirmed spans that was released is one of the      *)
(* reference's: nothing that is still to be confirmed reaches it.          *)
LEMMA ReleasedIsReference ==
    ASSUME IInv, StillAhead, NEW f \in Attributed, IsComponent(f, ConfirmedSpans), f.end <= frontier
    PROVE  IsComponent(f, ReferenceSpans(input)) /\ f \in ReferenceFindings(input)
<1> DEFINE later == ReferenceSpans(input) \ ConfirmedSpans
<1>1. /\ Regular(ReferenceSpans(input), input.len, 255)
      /\ ConfirmedSpans \subseteq ReferenceSpans(input)
  BY ReferenceRegular
<1>2. f.end \in Nat /\ frontier \in Int /\ input.len \in Nat /\ 255 \in Nat BY AttributedFields, Typed
<1>3. ASSUME NEW u \in later
      PROVE  u.start \in Nat /\ u.end \in Nat /\ u.start < u.end /\ f.end < u.start
  <2>1. u.start \in Nat /\ u.end \in Nat /\ u.start < u.end
    BY <1>1, AttributedFields DEF Regular
  <2>2. frontier < u.start BY UnconfirmedAhead
  <2> QED BY <1>2, <2>1, <2>2
<1>4. IsComponent(f, ConfirmedSpans \cup later) BY <1>2, <1>3, ComponentStays
<1>5. ConfirmedSpans \cup later = ReferenceSpans(input) BY <1>1
<1>6. IsComponent(f, ReferenceSpans(input)) BY <1>4, <1>5
<1> QED BY <1>1, <1>2, <1>6, ComponentListed DEF ReferenceFindings

(* The findings so far are the reference's, as far as the output reaches.  *)
LEMMA FoundIsExact == SpanInv /\ StillAhead /\ Merged => FoundExactly
<1> SUFFICES ASSUME SpanInv, StillAhead, Merged PROVE FoundExactly OBVIOUS
<1>0. IInv /\ Ordered BY DEF SpanInv
<1>1. /\ Regular(ReferenceSpans(input), input.len, 255)
      /\ Regular(entries \cup found, input.len, 255)
      /\ input.len \in Nat /\ 255 \in Nat /\ emitted \in Nat /\ frontier \in Int
  BY <1>0, ReferenceRegular, SpansRegular, Typed
<1>2. ASSUME NEW f \in found
      PROVE  f \in Attributed /\ IsComponent(f, ReferenceSpans(input)) /\ f \in ReferenceFindings(input)
  <2>1. f \in Attributed BY <1>1 DEF Regular
  <2>2. IsComponent(f, ConfirmedSpans) /\ f.end <= frontier BY <1>0 DEF Merged, Ordered
  <2> QED BY <1>0, <2>1, <2>2, ReleasedIsReference
<1>3. ASSUME NEW g \in ReferenceFindings(input), g.start < emitted PROVE g \in found
  <2>1. PICK h \in ReferenceSpans(input) :
          /\ g.start = h.start /\ g = Merge(Members(ReferenceSpans(input), h.start))
          /\ \A t \in ReferenceSpans(input) : t.start >= h.start \/ t.end < h.start
    BY <1>1, ComponentHead DEF ReferenceFindings
  <2>2. h.start \in Nat /\ h.end \in Nat BY <1>1, AttributedFields DEF Regular
  <2>3. h \in ConfirmedSpans
    <3>1. ~(frontier < h.start)
      BY <1>1, <1>3, <2>1, <2>2 DEF StillAhead, Higher
    <3> QED BY <1>0, <3>1, UnconfirmedAhead
  <2>4. PICK e \in entries \cup found : h \in Inside(ConfirmedSpans, e) BY <2>3 DEF Merged
  <2>5. e \in Attributed /\ e.start \in Nat /\ e.end \in Nat BY <1>1, AttributedFields DEF Regular
  <2>6. e.start <= h.start BY <2>4 DEF Inside
  <2>7. e \in found
    <3>1. CASE e \in entries
      <4>1. emitted <= e.start BY <1>0, <3>1 DEF Ordered
      <4> QED BY <1>1, <1>3, <2>1, <2>2, <2>5, <2>6, <4>1
    <3> QED BY <3>1
  <2>8. IsComponent(e, ReferenceSpans(input)) BY <1>2, <2>7
  <2>9. h \in Inside(ReferenceSpans(input), e) BY <2>4 DEF Inside
  <2>10. e = Merge(Members(ReferenceSpans(input), h.start))
    BY <1>1, <2>1, <2>5, <2>8, <2>9, HeadStartsComponent
  <2> QED BY <2>1, <2>7, <2>10
<1> QED BY <1>2, <1>3 DEF FoundExactly

----------------------------------------------------------------------------
(* What a flush writes.                                                    *)

(* What is handed to the Writer covers the reference's redactions, and     *)
(* nothing else, up to where it writes; and nothing it writes plain has    *)
(* left the buffer.                                                        *)
LEMMA HandedIsReference ==
    ASSUME RefInv, SpanInv', input' = input,
           NEW final \in SUBSET entries, entries' = entries \ final, found' = found \cup final,
           pc # "done",
           NEW cut \in Nat, emitted' = cut, emitted <= cut, cut <= bufEnd,
           \A c \in Unvalidated : c.trigStart - MaxLookbehind[c.rule] > cut,
           NEW i \in emitted .. (cut - 1)
    PROVE  LET spans == released \cup final
           IN  /\ i < pendingEnd \/ (\E s \in spans : s.start <= i /\ i < s.end)
                    <=> i \in Offsets(ReferenceSpans(input))
               /\ i < bufBase => \E s \in spans : s.start <= i /\ i < s.end
<1> DEFINE spans == released \cup final
<1>0. SpanInv /\ IInv /\ Ordered /\ Handed /\ GapCovered /\ Merged /\ Ordered'
  BY DEF RefInv, SpanInv
<1>1. /\ Regular(entries \cup found, input.len, 255)
      /\ ConfirmedSpans \subseteq ReferenceSpans(input)
      /\ Regular(ReferenceSpans(input), input.len, 255)
  BY <1>0, SpansRegular, ReferenceRegular
<1>2. i \in Nat /\ emitted \in Nat /\ pendingEnd \in Nat /\ bufBase \in Nat /\ emitted <= i /\ i < cut
  BY <1>0, Typed
<1>3. /\ \A e \in entries \cup found : e.start \in Nat /\ e.end \in Nat
      /\ \A s \in ReferenceSpans(input) : s.start \in Nat /\ s.end \in Nat
  BY <1>1, AttributedFields DEF Regular
<1>4. \A e \in entries \ final : ~(e.start <= i)
  <2> TAKE e \in entries \ final
  <2>1. cut <= e.start BY <1>0 DEF Ordered
  <2> QED BY <1>2, <1>3, <2>1
<1>5. spans \subseteq entries \cup found BY <1>0 DEF Ordered
<1>6. ASSUME NEW e \in entries \cup found, e.start <= i, i < e.end
      PROVE  i \in Offsets(ReferenceSpans(input))
  <2>1. i \in e.start .. (e.end - 1) BY <1>2, <1>3, <1>6
  <2>2. PICK s \in ConfirmedSpans : s.start <= i /\ i < s.end
    BY <1>0, <2>1 DEF Merged, IsComponent
  <2>3. i \in s.start .. (s.end - 1) BY <1>1, <1>2, <1>3, <2>2
  <2> QED BY <1>1, <2>3 DEF Offsets
<1>7. ASSUME i < pendingEnd \/ (\E s \in spans : s.start <= i /\ i < s.end)
      PROVE  i \in Offsets(ReferenceSpans(input))
  <2>1. CASE i < pendingEnd
    <3>1. PICK f \in found : f.start < emitted /\ f.end = pendingEnd
      BY <1>0, <1>2, <2>1 DEF Handed
    <3> QED BY <1>2, <1>3, <1>6, <2>1, <3>1
  <2> QED BY <1>5, <1>6, <1>7, <2>1
<1>8. ASSUME i \in Offsets(ReferenceSpans(input))
      PROVE  i < pendingEnd \/ (\E s \in spans : s.start <= i /\ i < s.end)
  <2>1. PICK s \in ReferenceSpans(input) : i \in s.start .. (s.end - 1) BY <1>8 DEF Offsets
  <2>2. PICK c \in input.cands :
          /\ c.answer = "span"
          /\ s = RawSpan(RefStart(c, input), RefEnd(c, input), c.rule, Confidence[c.rule])
    BY DEF ReferenceSpans
  <2>3. s.start = RefStart(c, input) /\ s.end = RefEnd(c, input) BY <2>2 DEF RawSpan
  <2>4. c \notin Unvalidated
    <3> DEFINE start == c.trigStart - MaxLookbehind[c.rule]
    <3>1. SUFFICES ASSUME start > cut PROVE FALSE OBVIOUS
    <3>2. start \in Int BY <1>0, Typed, CandidateFacts
    <3>3. RefStart(c, input) \in Nat /\ start <= RefStart(c, input)
      BY <1>0, Typed, ReferenceFacts
    <3>4. RefStart(c, input) <= i BY <1>2, <1>3, <2>1, <2>3
    <3> HIDE DEF start
    <3> QED BY <1>2, <3>1, <3>2, <3>3, <3>4
  <2>5. Settled(i) BY <1>0, <2>1, <2>2, <2>3, <2>4 DEF IInv, Accounted
  <2>6. ~(i < emitted) BY <1>2
  <2> QED BY <1>4, <2>5, <2>6 DEF Settled
<1>9. ASSUME i < bufBase PROVE \E s \in spans : s.start <= i /\ i < s.end
  <2>1. emitted < bufBase BY <1>2, <1>9
  <2>2. PICK e \in entries : e.start <= emitted /\ bufBase <= e.end
    BY <1>0, <2>1 DEF GapCovered
  <2>3. e.start <= i /\ i < e.end BY <1>2, <1>3, <1>9, <2>2
  <2>4. e \in final BY <1>4, <2>3
  <2> QED BY <2>3, <2>4
<1> QED BY <1>7, <1>8, <1>9

(* The Writer's output is the reference's, from emitted to where it stops. *)
LEMMA RenderedIsReference ==
    ASSUME MaskStrategy # "format", emitted \in Nat, input.len \in Nat,
           NEW cut \in Nat, emitted <= cut, cut <= input.len,
           NEW spans,
           \A i \in emitted .. (cut - 1) :
             /\ i < pendingEnd \/ (\E s \in spans : s.start <= i /\ i < s.end)
                  <=> i \in Offsets(ReferenceSpans(input))
             /\ i < bufBase => \E s \in spans : s.start <= i /\ i < s.end,
           \A f \in spans \cup ReferenceFindings(input) : f.start \in Nat,
           \A f : f \in spans /\ f.start < cut
                    <=> f \in ReferenceFindings(input) /\ emitted <= f.start /\ f.start < cut,
           Offsets(ReferenceSpans(input)) \subseteq Nat
    PROVE  Rendered(cut, spans) = {o \in ReferenceOut(input) : emitted <= o.at /\ o.at < cut}
<1> DEFINE off == Offsets(ReferenceSpans(input))
           here == emitted .. (cut - 1)
           redacted == {i \in here : i < pendingEnd \/ \E s \in spans : s.start <= i /\ i < s.end}
           plain == {[at |-> i, byte |-> IF i < bufBase THEN "nul" ELSE "plain"] : i \in here \ redacted}
           marks == {[at |-> s.start, byte |-> "marker"] : s \in {t \in spans : t.start < cut}}
           masks == {[at |-> i, byte |-> MaskByte(i)] : i \in redacted}
           mask(i) == IF MaskStrategy = "format" /\ i \in input.shaped THEN "shape" ELSE "*"
           refPlain == {[at |-> i, byte |-> "plain"] : i \in (0 .. (input.len - 1)) \ off}
           refMarks == {[at |-> f.start, byte |-> "marker"] : f \in ReferenceFindings(input)}
           refMasks == {[at |-> i, byte |-> mask(i)] : i \in off}
           Slice(S) == {o \in S : emitted <= o.at /\ o.at < cut}
<1>1. /\ Rendered(cut, spans) = plain \cup IF MaskStrategy = "fixed" THEN marks ELSE masks
      /\ ReferenceOut(input) = refPlain \cup IF MaskStrategy = "fixed" THEN refMarks ELSE refMasks
  BY DEF Rendered, ReferenceOut
<1>2. here \subseteq Nat /\ \A i \in Nat : i \in here <=> emitted <= i /\ i < cut OBVIOUS
<1>3. \A i \in here : i \in redacted <=> i \in off OBVIOUS
<1>4. \A i \in here : i \notin redacted => ~(i < bufBase) OBVIOUS
<1> HIDE DEF redacted, off
<1>5. plain = Slice(refPlain)
  <2>1. plain = {[at |-> i, byte |-> "plain"] : i \in here \ redacted} BY <1>4
  <2>2. here \ redacted = {i \in (0 .. (input.len - 1)) \ off : emitted <= i /\ i < cut}
    BY <1>2, <1>3
  <2> HIDE DEF here, plain
  <2>3. Slice(refPlain) = {[at |-> i, byte |-> "plain"] :
                             i \in {j \in (0 .. (input.len - 1)) \ off : emitted <= j /\ j < cut}}
    OBVIOUS
  <2> QED BY <2>1, <2>2, <2>3
<1>6. marks = Slice(refMarks)
  <2>1. {t \in spans : t.start < cut}
          = {f \in ReferenceFindings(input) : emitted <= f.start /\ f.start < cut}
    OBVIOUS
  <2>2. Slice(refMarks) = {[at |-> f.start, byte |-> "marker"] :
                             f \in {g \in ReferenceFindings(input) : emitted <= g.start /\ g.start < cut}}
    OBVIOUS
  <2> QED BY <2>1, <2>2
<1>7. masks = Slice(refMasks)
  <2>1. redacted = {i \in off : emitted <= i /\ i < cut}
    <3>1. redacted \subseteq here BY DEF redacted
    <3>2. off \subseteq Nat BY DEF off
    <3> QED BY <1>2, <1>3, <3>1, <3>2
  <2>2. masks = {[at |-> i, byte |-> "*"] : i \in redacted} BY DEF MaskByte
  <2>3. refMasks = {[at |-> i, byte |-> "*"] : i \in off} OBVIOUS
  <2>4. Slice(refMasks) = {[at |-> i, byte |-> "*"] : i \in {j \in off : emitted <= j /\ j < cut}}
    BY <2>3
  <2> QED BY <2>1, <2>2, <2>4
<1> HIDE DEF plain, marks, masks, refPlain, refMarks, refMasks
<1> QED BY <1>1, <1>5, <1>6, <1>7

(* A flush moves spans from the held to the reported, and the frontier and *)
(* the output no further than what is still to be validated allows.        *)
LEMMA FlushMoves ==
    ASSUME SpanInv, pc \in {"room", "flush"},
           NEW eof \in BOOLEAN, eof <=> pc = "flush" /\ rerr = "eof",
           NEW force \in BOOLEAN, NEW failed \in BOOLEAN,
           NEW cut \in emitted .. Higher(emitted, bufEnd), Flush(eof, force, failed, cut),
           input' = input, bufEnd' = bufEnd, capacity' = capacity,
           scanQ' = scanQ, pending' = pending
    PROVE  /\ entries' \cup found' = entries \cup found /\ found \subseteq found'
           /\ emitted' \in Nat /\ emitted <= emitted' /\ emitted' <= input.len
           /\ Unvalidated' = Unvalidated /\ StillAhead'
           /\ eof /\ ~failed => emitted' = input.len
<1> DEFINE limit == ReleaseLimit(eof)
           final == {e \in entries : e.end <= limit}
           held  == entries \ final
           to    == EmitLimit(eof, held)
<1>0. IInv BY DEF SpanInv
<1>1. /\ frontier' = limit /\ entries' = held /\ found' = found \cup final
      /\ IF to <= emitted THEN cut = emitted /\ emitted' = emitted
         ELSE /\ cut \in emitted .. to /\ (failed \/ cut = to) /\ emitted' = cut
  BY DEF Flush
<1>2. /\ limit \in Int /\ limit <= bufEnd
      /\ \A c \in Unvalidated : c.trigStart - MaxLookbehind[c.rule] > limit
  BY <1>0, ReleaseLimitFacts
<1>3. emitted \in Nat /\ bufEnd \in Nat /\ input.len \in Nat /\ bufEnd <= input.len /\ emitted <= bufEnd
  BY <1>0, Typed
<1>4. entries' \cup found' = entries \cup found /\ found \subseteq found' BY <1>1
<1>5. emitted' \in Nat /\ emitted' <= bufEnd /\ emitted' <= Higher(frontier', 0)
  BY <1>0, FlushStep
<1>6. emitted <= emitted'
  <2>1. cut \in emitted .. Higher(emitted, bufEnd) /\ Higher(emitted, bufEnd) \in Int
    BY <1>3, LowerHigher
  <2> QED BY <1>1, <1>3, <2>1
<1>7. Unvalidated' = Unvalidated BY DEF Unvalidated
<1>8. StillAhead' BY <1>1, <1>2, <1>5, <1>7 DEF StillAhead
<1>9. ASSUME eof, ~failed PROVE emitted' = input.len
  <2>1. bufEnd = input.len /\ limit = input.len
    BY <1>0, <1>9 DEF IInv, Queues, ReleaseLimit
  <2>2. \A e \in entries : e.end <= limit BY <1>0, <2>1 DEF IInv, Bounded
  <2>3. held = {} BY <2>2
  <2>4. to = limit BY <1>9, <2>3 DEF EmitLimit
  <2> HIDE DEF limit, held, final, to
  <2> QED BY <1>1, <1>3, <1>5, <1>9, <2>1, <2>4
<1> QED BY <1>3, <1>4, <1>5, <1>6, <1>7, <1>8, <1>9

(* The output after a flush, failed or not, is the reference's.            *)
LEMMA FlushPrinted ==
    ASSUME RefInv, SpanInv', FoundExactly, FoundExactly', pc \in {"room", "flush"},
           NEW eof \in BOOLEAN, eof <=> pc = "flush" /\ rerr = "eof",
           NEW force \in BOOLEAN, NEW failed \in BOOLEAN,
           NEW cut \in emitted .. Higher(emitted, bufEnd), Flush(eof, force, failed, cut),
           input' = input, bufEnd' = bufEnd, capacity' = capacity,
           scanQ' = scanQ, pending' = pending
    PROVE  Printed'
<1>1. SUFFICES ASSUME MaskStrategy # "format"
               PROVE  out' = {o \in ReferenceOut(input) : o.at < emitted'}
  BY DEF Printed
<1> DEFINE limit == ReleaseLimit(eof)
           final == {e \in entries : e.end <= limit}
           held  == entries \ final
           spans == released \cup final
           to    == EmitLimit(eof, held)
<1>0. SpanInv /\ IInv /\ Ordered /\ Ordered' BY DEF RefInv, SpanInv
<1>2. out = {o \in ReferenceOut(input) : o.at < emitted} BY <1>1 DEF RefInv, Printed
<1>3. /\ entries' = held /\ found' = found \cup final
      /\ IF to <= emitted THEN out' = out /\ emitted' = emitted
         ELSE cut \in emitted .. to /\ emitted' = cut /\ out' = out \cup Rendered(cut, spans)
  BY DEF Flush
<1>4. /\ limit \in Int /\ limit <= bufEnd
      /\ \A c \in Unvalidated : c.trigStart - MaxLookbehind[c.rule] > limit
  BY <1>0, ReleaseLimitFacts
<1>5. to \in Int /\ to <= limit BY <1>0, <1>4, Typed, EmitLimitFacts
<1>6. CASE to <= emitted BY <1>2, <1>3, <1>6
<1>7. CASE ~(to <= emitted)
  <2>1. cut \in emitted .. to /\ emitted' = cut /\ out' = out \cup Rendered(cut, spans)
    BY <1>3, <1>7
  <2>2. final \in SUBSET entries /\ entries' = entries \ final /\ found' = found \cup final
    BY <1>3
  <2> HIDE DEF to, limit, final
  <2>3. /\ cut \in Nat /\ emitted \in Nat /\ emitted <= cut /\ cut <= limit /\ cut <= bufEnd
        /\ input.len \in Nat /\ bufEnd \in Nat /\ bufEnd <= input.len /\ cut <= input.len
    <3>1. emitted \in Nat /\ bufEnd \in Nat /\ bufEnd <= input.len /\ input.len \in Nat
      BY <1>0, Typed
    <3>2. cut \in Nat /\ emitted <= cut /\ cut <= to BY <1>5, <2>1, <3>1
    <3> QED BY <1>4, <1>5, <3>1, <3>2
  <2>4. \A c \in Unvalidated : c.trigStart - MaxLookbehind[c.rule] > cut
    <3> TAKE c \in Unvalidated
    <3> DEFINE start == c.trigStart - MaxLookbehind[c.rule]
    <3>1. start \in Int BY <1>0, Typed, CandidateFacts DEF Unvalidated
    <3>2. start > limit BY <1>4
    <3> HIDE DEF start
    <3>3. start > cut BY <1>4, <2>3, <3>1, <3>2
    <3> QED BY <3>3 DEF start
  <2>5. \A i \in emitted .. (cut - 1) :
          /\ i < pendingEnd \/ (\E s \in spans : s.start <= i /\ i < s.end)
               <=> i \in Offsets(ReferenceSpans(input))
          /\ i < bufBase => \E s \in spans : s.start <= i /\ i < s.end
    BY <2>1, <2>2, <2>3, <2>4, HandedIsReference
  <2>6. Regular(ReferenceSpans(input), input.len, 255) /\ Regular(entries \cup found, input.len, 255)
    BY <1>0, ReferenceRegular, SpansRegular
  <2>7. \A f \in entries \cup found : f.start \in Nat BY <2>6, AttributedFields DEF Regular
  <2>8. \A f \in ReferenceFindings(input) : f.start \in Nat
    <3> TAKE g \in ReferenceFindings(input)
    <3>1. \E h \in ReferenceSpans(input) : g.start = h.start
      BY <2>3, <2>6, 255 \in Nat, ComponentHead DEF ReferenceFindings
    <3> QED BY <2>6, <3>1, AttributedFields DEF Regular
  <2>9. spans \subseteq entries \cup found /\ spans \subseteq found' BY <1>0, <2>2 DEF Ordered
  <2>10. \A f : f \in spans /\ f.start < cut
                  <=> f \in ReferenceFindings(input) /\ emitted <= f.start /\ f.start < cut
    <3>1. ASSUME NEW f \in spans
          PROVE  f \in ReferenceFindings(input) /\ emitted <= f.start
      <4>1. emitted <= f.start BY <1>0, <2>2 DEF Ordered
      <4>2. f \in ReferenceFindings(input) BY <2>9 DEF FoundExactly
      <4> QED BY <4>1, <4>2
    <3>2. ASSUME NEW f \in ReferenceFindings(input), emitted <= f.start, f.start < cut
          PROVE  f \in spans
      <4>1. f \in found' BY <2>1, <3>2 DEF FoundExactly
      <4>2. f \in found => f \in released BY <1>0, <3>2 DEF Ordered
      <4> QED BY <2>2, <4>1, <4>2
    <3> QED BY <3>1, <3>2
  <2>11. Offsets(ReferenceSpans(input)) \subseteq Nat
    <3>1. \A s \in ReferenceSpans(input) : s.start \in Nat /\ s.end \in Nat
      BY <2>6, AttributedFields DEF Regular
    <3>2. \A s \in ReferenceSpans(input) : s.start .. (s.end - 1) \subseteq Nat BY <3>1
    <3> QED BY <3>2 DEF Offsets
  <2>12. Rendered(cut, spans) = {o \in ReferenceOut(input) : emitted <= o.at /\ o.at < cut}
    <3> HIDE DEF spans
    <3>1. \A f \in spans \cup ReferenceFindings(input) : f.start \in Nat BY <2>7, <2>8, <2>9
    <3> QED BY <1>1, <2>3, <2>5, <2>10, <2>11, <3>1, RenderedIsReference
  <2>13. \A o \in ReferenceOut(input) : o.at \in Nat
    <3>1. \A i \in 0 .. (input.len - 1) : i \in Nat OBVIOUS
    <3> QED BY <3>1, <2>8, <2>11 DEF ReferenceOut
  <2>14. out' = {o \in ReferenceOut(input) : o.at < emitted}
                  \cup {o \in ReferenceOut(input) : emitted <= o.at /\ o.at < cut}
    BY <1>2, <2>1, <2>12
  <2>15. \A o \in ReferenceOut(input) :
           o.at < emitted \/ (emitted <= o.at /\ o.at < cut) <=> o.at < cut
    BY <2>3, <2>13
  <2>16. out' = {o \in ReferenceOut(input) : o.at < cut} BY <2>14, <2>15
  <2> QED BY <2>1, <2>16
<1> QED BY <1>6, <1>7

----------------------------------------------------------------------------
(* What a validator confirms.                                              *)

(* Eager merging keeps the collector and the findings the components of    *)
(* all that was confirmed.                                                 *)
LEMMA ValidatedMerged ==
    ASSUME RefInv, pc \in {"scan", "pend", "drain"}, NEW c \in scanQ \cup pending,
           Buffered(c) \/ pc = "drain", Validate(c),
           \/ c \in scanQ /\ scanQ' = scanQ \ {c} /\ pending' = pending
           \/ c \in pending /\ scanQ' = scanQ /\ pending' = pending \ {c},
           input' = input, bufEnd' = bufEnd, found' = found
    PROVE  /\ Merged' /\ QueuedOnce' /\ Unvalidated' \subseteq Unvalidated
<1>0. SpanInv /\ IInv /\ Ordered /\ QueuedOnce /\ Merged BY DEF RefInv, SpanInv
<1>1. c \in Unvalidated /\ c \in input.cands /\ WholeWindow(c)
  BY <1>0, WindowIsWhole, Typed DEF Unvalidated
<1>2. QueuedOnce' BY <1>0 DEF QueuedOnce
<1>3. Unvalidated' = Unvalidated \ {c}
  <2>1. c.trigEnd \in Nat /\ bufEnd \in Nat /\ c.trigEnd <= bufEnd
    BY <1>0, <1>1, Typed, CandidateFacts DEF QueuedOnce
  <2>2. ~(c.trigEnd > bufEnd) BY <2>1
  <2>3. scanQ' \cup pending' = (scanQ \cup pending) \ {c} BY <1>0 DEF QueuedOnce
  <2> DEFINE unread == {d \in input.cands : d.trigEnd > bufEnd}
  <2>4. c \notin unread BY <2>2
  <2>5. Unvalidated' = (scanQ' \cup pending') \cup unread BY DEF Unvalidated
  <2>6. Unvalidated = (scanQ \cup pending) \cup unread BY DEF Unvalidated
  <2> HIDE DEF unread
  <2> QED BY <2>3, <2>4, <2>5, <2>6
<1> DEFINE s == RawSpan(RefStart(c, input), RefEnd(c, input), c.rule, Confidence[c.rule])
           Counts(d) == d.answer = "span" /\ RefStart(d, input) < RefEnd(d, input)
<1>4. ConfirmedSpans' = IF Counts(c) THEN ConfirmedSpans \cup {s} ELSE ConfirmedSpans
  <2>1. ConfirmedSpans' = {RawSpan(RefStart(d, input), RefEnd(d, input), d.rule, Confidence[d.rule]) :
                             d \in {x \in input.cands \ (Unvalidated \ {c}) : Counts(x)}}
    BY <1>3 DEF ConfirmedSpans, RefStart, RefEnd
  <2>2. ConfirmedSpans = {RawSpan(RefStart(d, input), RefEnd(d, input), d.rule, Confidence[d.rule]) :
                             d \in {x \in input.cands \ Unvalidated : Counts(x)}}
    BY DEF ConfirmedSpans
  <2>3. {x \in input.cands \ (Unvalidated \ {c}) : Counts(x)}
          = {x \in input.cands \ Unvalidated : Counts(x)} \cup {x \in {c} : Counts(x)}
    BY <1>1
  <2> HIDE DEF Counts
  <2> QED BY <2>1, <2>2, <2>3
<1>5. /\ ClampedStart(c) = RefStart(c, input) /\ ClampedEnd(c) = RefEnd(c, input)
  BY <1>0, <1>1, ConfirmedIsReference
<1>6. Confirmed(c) <=> Counts(c) BY <1>1, <1>5 DEF Confirmed
<1>7. CASE Confirmed(c)
  <2>1. entries' = AddSpan(entries, s)
    BY <1>5, <1>7 DEF Validate, Collected, Confirmed, ConfirmedSpan
  <2>2. s = ConfirmedSpan(c) BY <1>5 DEF ConfirmedSpan
  <2> DEFINE all == entries \cup found
             old == ConfirmedSpans
  <2>3. /\ \A f \in found : ~Touches(f, s)
        /\ Regular(all \cup {s}, input.len, 255)
    BY <1>0, <1>1, <1>7, <2>2, ConfirmedIsAhead
  <2>4. ConfirmedSpans' = old \cup {s} BY <1>4, <1>6, <1>7
  <2> HIDE DEF s
  <2>5. AddSpan(all, s) = entries' \cup found' BY <2>1, <2>3, AddSpanFrame
  <2>6. /\ Regular(old, input.len, 255) /\ Apart(all) /\ input.len \in Nat /\ 255 \in Nat
        /\ \A e \in all : IsComponent(e, old)
        /\ \A x \in old : \E e \in all : x \in Inside(old, e)
    BY <1>0, ReferenceRegular, Typed DEF Ordered, Merged
  <2> HIDE DEF all, old
  <2>7. \A e \in AddSpan(all, s) : IsComponent(e, old \cup {s})
    BY <2>3, <2>6, AddSpanComponents
  <2>8. \A x \in old \cup {s} : \E e \in AddSpan(all, s) : x \in Inside(old \cup {s}, e)
    BY <2>3, <2>6, AddSpanComponents
  <2>9. Merged'
    <3>1. \A e \in entries' \cup found' : IsComponent(e, ConfirmedSpans')
      BY <2>4, <2>5, <2>7
    <3>2. \A x \in ConfirmedSpans' : \E e \in entries' \cup found' : x \in Inside(ConfirmedSpans', e)
      BY <2>4, <2>5, <2>8
    <3> QED BY <3>1, <3>2 DEF Merged
  <2> QED BY <1>2, <1>3, <2>9
<1>8. CASE ~Confirmed(c)
  <2>1. entries' = entries BY <1>8 DEF Validate, Collected
  <2>2. ConfirmedSpans' = ConfirmedSpans BY <1>4, <1>6, <1>8
  <2>3. Merged' BY <1>0, <2>1, <2>2 DEF Merged
  <2> QED BY <1>2, <1>3, <2>3
<1> QED BY <1>7, <1>8

----------------------------------------------------------------------------
(* The steps.                                                              *)

LEMMA InitRefInv == Init => RefInv
<1> SUFFICES ASSUME Init PROVE RefInv OBVIOUS
<1>1. SpanInv /\ IInv BY InitSpanInv DEF SpanInv
<1>2. /\ input \in Inputs /\ pc = "top" /\ bufEnd = 0 /\ scanQ = {} /\ pending = {}
      /\ entries = {} /\ found = {} /\ emitted = 0 /\ out = {} /\ frontier = -Window
      /\ result = "none"
  BY DEF Init
<1>3. QueuedOnce BY <1>2 DEF QueuedOnce
<1>4. Unvalidated = input.cands
  <2>1. \A c \in input.cands : c.trigEnd > 0 BY <1>2, CandidateFacts
  <2> QED BY <1>2, <2>1 DEF Unvalidated
<1>5. StillAhead BY <1>1, <1>2 DEF IInv, AheadOfFrontier, StillAhead
<1>6. ConfirmedSpans = {} BY <1>4 DEF ConfirmedSpans
<1>7. Merged BY <1>2, <1>6 DEF Merged
<1>8. Printed
  <2>1. Regular(ReferenceSpans(input), input.len, 255) /\ input.len \in Nat /\ 255 \in Nat
    BY <1>1, ReferenceRegular, Typed
  <2>2. \A s \in ReferenceSpans(input) : s.start \in Nat /\ s.end \in Nat
    BY <2>1, AttributedFields DEF Regular
  <2>3. \A g \in ReferenceFindings(input) : g.start \in Nat
    <3> TAKE g \in ReferenceFindings(input)
    <3>1. \E h \in ReferenceSpans(input) : g.start = h.start
      BY <2>1, ComponentHead DEF ReferenceFindings
    <3> QED BY <2>2, <3>1
  <2>4. Offsets(ReferenceSpans(input)) \subseteq Nat
    <3>1. \A s \in ReferenceSpans(input) : s.start .. (s.end - 1) \subseteq Nat BY <2>2
    <3> QED BY <3>1 DEF Offsets
  <2>5. \A o \in ReferenceOut(input) : ~(o.at < 0)
    <3>1. \A i \in 0 .. (input.len - 1) : i \in Nat OBVIOUS
    <3>2. \A o \in ReferenceOut(input) : o.at \in Nat BY <2>3, <2>4, <3>1 DEF ReferenceOut
    <3> QED BY <3>2
  <2> QED BY <1>2, <2>5 DEF Printed
<1>9. Outcome BY <1>2 DEF Outcome
<1> QED BY <1>1, <1>3, <1>5, <1>7, <1>8, <1>9 DEF RefInv

(* A step that confirms nothing and writes nothing.                        *)
LEMMA FrameRefInv ==
    ASSUME RefInv, SpanInv', QueuedOnce', Unvalidated' = Unvalidated, pc # "done",
           input' = input, entries' = entries, found' = found, emitted' = emitted,
           out' = out, frontier' = frontier,
           result' = result \/ (pc' = "done" /\ result' # "ok")
    PROVE  RefInv'
<1>1. ConfirmedSpans' = ConfirmedSpans BY DEF ConfirmedSpans, RefStart, RefEnd
<1>2. Merged'
  <2>1. Merged BY DEF RefInv
  <2> QED BY <1>1, <2>1 DEF Merged
<1>3. StillAhead' BY DEF RefInv, StillAhead
<1>4. Printed' BY DEF RefInv, Printed
<1>5. Outcome' BY DEF RefInv, Outcome
<1> QED BY <1>2, <1>3, <1>4, <1>5 DEF RefInv

LEMMA ReadSomeRefInv == RefInv /\ SpanInv' /\ ReadSome => RefInv'
<1> SUFFICES ASSUME RefInv, SpanInv', ReadSome PROVE RefInv' OBVIOUS
<1>0. IInv /\ SpanInv /\ QueuedOnce BY DEF RefInv, SpanInv
<1>1. /\ pc = "read" /\ input' = input /\ entries' = entries /\ found' = found
      /\ emitted' = emitted /\ out' = out /\ frontier' = frontier /\ result' = result
      /\ pending' = pending
  BY DEF ReadSome, outVars, Goto
<1>2. PICK n \in 1 .. Lower(capacity - (bufEnd - bufBase), input.len - bufEnd) :
        /\ bufEnd' = bufEnd + n
        /\ scanQ' = {c \in input.cands : bufEnd < c.trigEnd /\ c.trigEnd <= bufEnd + n}
  BY DEF ReadSome
<1> DEFINE upto == bufEnd + n
<1>3. upto \in Nat /\ bufEnd \in Nat /\ bufEnd <= upto BY <1>0, Typed
<1>4. bufEnd' = upto /\ scanQ' = {c \in input.cands : bufEnd < c.trigEnd /\ c.trigEnd <= upto}
  BY <1>2
<1> HIDE DEF upto
<1>5. scanQ = {} BY <1>0, <1>1 DEF IInv, Queues
<1>6. \A c \in input.cands : c.trigEnd \in Nat BY <1>0, Typed, CandidateFacts
<1>7. Unvalidated' = Unvalidated BY <1>1, <1>3, <1>4, <1>5, <1>6 DEF Unvalidated
<1>8. QueuedOnce'
  <2>1. \A c \in pending : c.trigEnd \in Nat /\ c.trigEnd <= bufEnd
    BY <1>0, <1>6, Typed DEF QueuedOnce
  <2>2. scanQ' \cap pending = {} BY <1>3, <1>4, <2>1
  <2>3. \A c \in scanQ' \cup pending : c.trigEnd <= upto BY <1>3, <1>4, <2>1
  <2> QED BY <1>1, <1>4, <2>2, <2>3 DEF QueuedOnce
<1> QED BY <1>1, <1>7, <1>8, FrameRefInv

LEMMA NextRefInv == RefInv /\ [Next]_vars => RefInv'
<1> SUFFICES ASSUME RefInv, [Next]_vars PROVE RefInv' OBVIOUS
<1>0. SpanInv /\ IInv /\ SpanInv' /\ QueuedOnce BY NextSpanInv DEF RefInv, SpanInv
<1>1. CASE Cancel \/ MakeRoom \/ Discard \/ ReadNothing \/ ReadEnds \/ ReadBadCount
  <2>1. /\ pc # "done" /\ input' = input /\ entries' = entries /\ found' = found
        /\ emitted' = emitted /\ out' = out /\ frontier' = frontier
        /\ scanQ' = scanQ /\ pending' = pending /\ bufEnd' = bufEnd
    BY <1>1 DEF Cancel, MakeRoom, Discard, ReadNothing, ReadEnds, ReadBadCount, outVars, scanVars
  <2>2. result' = result \/ (pc' = "done" /\ result' # "ok")
    BY <1>1 DEF Cancel, MakeRoom, Discard, ReadNothing, ReadEnds, ReadBadCount, Return, Goto
  <2>3. QueuedOnce' /\ Unvalidated' = Unvalidated BY <1>0, <2>1 DEF QueuedOnce, Unvalidated
  <2> QED BY <1>0, <2>1, <2>2, <2>3, FrameRefInv
<1>2. CASE ReadSome BY <1>0, <1>2, ReadSomeRefInv
<1>3. CASE Scan \/ Pend \/ Drain
  <2>1. /\ pc \in {"scan", "pend", "drain"}
        /\ input' = input /\ bufEnd' = bufEnd /\ emitted' = emitted /\ found' = found
        /\ out' = out /\ frontier' = frontier
        /\ \/ /\ entries' = entries /\ result' = result
              /\ scanQ' \cup pending' = scanQ \cup pending
              /\ scanQ' \cap pending' \subseteq scanQ \cap pending
           \/ \E c \in scanQ \cup pending :
                /\ Buffered(c) \/ pc = "drain"
                /\ Validate(c)
                /\ \/ c \in scanQ /\ scanQ' = scanQ \ {c} /\ pending' = pending
                   \/ c \in pending /\ scanQ' = scanQ /\ pending' = pending \ {c}
    BY <1>0, <1>3, ValidatingStep
  <2>2. CASE /\ entries' = entries /\ result' = result
             /\ scanQ' \cup pending' = scanQ \cup pending
             /\ scanQ' \cap pending' \subseteq scanQ \cap pending
    <3>1. QueuedOnce' /\ Unvalidated' = Unvalidated
      BY <1>0, <2>1, <2>2 DEF QueuedOnce, Unvalidated
    <3> QED BY <1>0, <2>1, <2>2, <3>1, FrameRefInv
  <2>3. CASE \E c \in scanQ \cup pending :
               /\ Buffered(c) \/ pc = "drain"
               /\ Validate(c)
               /\ \/ c \in scanQ /\ scanQ' = scanQ \ {c} /\ pending' = pending
                  \/ c \in pending /\ scanQ' = scanQ /\ pending' = pending \ {c}
    <3>1. PICK c \in scanQ \cup pending :
               /\ Buffered(c) \/ pc = "drain"
               /\ Validate(c)
               /\ \/ c \in scanQ /\ scanQ' = scanQ \ {c} /\ pending' = pending
                  \/ c \in pending /\ scanQ' = scanQ /\ pending' = pending \ {c}
      BY <2>3
    <3>2. Merged' /\ QueuedOnce' /\ Unvalidated' \subseteq Unvalidated
      BY <2>1, <3>1, ValidatedMerged
    <3>3. StillAhead' BY <2>1, <3>2 DEF RefInv, StillAhead
    <3>4. Printed' BY <2>1 DEF RefInv, Printed
    <3>5. Outcome'
      <4>1. (result' = result /\ pc' = pc) \/ (pc' = "done" /\ result' = "validator")
        BY <3>1 DEF Validate, Return
      <4> QED BY <2>1, <4>1 DEF RefInv, Outcome
    <3> QED BY <1>0, <3>2, <3>3, <3>4, <3>5 DEF RefInv
  <2> QED BY <2>1, <2>2, <2>3
<1>4. CASE RoomFlush \/ Finish
  <2>1. PICK eof \in BOOLEAN, force \in BOOLEAN, failed \in BOOLEAN,
             cut \in emitted .. Higher(emitted, bufEnd) :
             /\ pc \in {"room", "flush"} /\ (eof <=> pc = "flush" /\ rerr = "eof")
             /\ Flush(eof, force, failed, cut)
             /\ input' = input /\ bufEnd' = bufEnd /\ capacity' = capacity
             /\ scanQ' = scanQ /\ pending' = pending
             /\ pc' # "done" => ~failed /\ ~eof /\ result' = result
             /\ result' = "ok" => (eof /\ ~failed) \/ result' = result
    BY <1>4, FlushingStep
  <2>2. /\ entries' \cup found' = entries \cup found
        /\ Unvalidated' = Unvalidated /\ StillAhead'
        /\ eof /\ ~failed => emitted' = input.len
    BY <1>0, <2>1, FlushMoves
  <2>3. ConfirmedSpans' = ConfirmedSpans
    BY <2>1, <2>2 DEF ConfirmedSpans, RefStart, RefEnd
  <2>4. Merged'
    <3>1. Merged BY DEF RefInv
    <3> QED BY <2>2, <2>3, <3>1 DEF Merged
  <2>5. FoundExactly BY FoundIsExact DEF RefInv
  <2>6. SpanInv' /\ StillAhead' /\ Merged' => FoundExactly' BY FoundIsExact, PTL
  <2>7. Printed' BY <1>0, <2>1, <2>2, <2>4, <2>5, <2>6, FlushPrinted
  <2>8. QueuedOnce' BY <1>0, <2>1 DEF QueuedOnce
  <2>9. Outcome' BY <2>1, <2>2 DEF RefInv, Outcome
  <2> QED BY <1>0, <2>2, <2>4, <2>7, <2>8, <2>9 DEF RefInv
<1>5. CASE UNCHANGED vars
  <2> USE <1>5 DEF vars
  <2>1. ConfirmedSpans' = ConfirmedSpans BY DEF ConfirmedSpans, Unvalidated, RefStart, RefEnd
  <2>2. Merged'
    <3>1. Merged BY DEF RefInv
    <3> QED BY <2>1, <3>1 DEF Merged
  <2>3. QueuedOnce' BY <1>0 DEF QueuedOnce
  <2>4. StillAhead' BY DEF RefInv, StillAhead, Unvalidated
  <2>5. Printed' /\ Outcome' BY DEF RefInv, Printed, Outcome
  <2> QED BY <1>0, <2>2, <2>3, <2>4, <2>5 DEF RefInv
<1> QED BY <1>1, <1>2, <1>3, <1>4, <1>5 DEF Next, Terminated

----------------------------------------------------------------------------
(* What the third layer establishes.                                       *)

(* In every state of every call the held and reported spans are the        *)
(* components of what was confirmed, and the output is the reference's.    *)
THEOREM ReferenceInvariant == Spec => []RefInv
BY InitRefInv, NextRefInv, PTL DEF Spec

(* Findings are final (engine.go, flush): what OnFinding has seen are      *)
(* findings of the whole input, attributed as the whole input would have   *)
(* them, and all of those whose replacement may have been written.         *)
THEOREM FindingsAreFinal == Spec => []FoundExactly
<1>1. RefInv => FoundExactly BY FoundIsExact DEF RefInv
<1> QED BY <1>1, ReferenceInvariant, PTL

(* What a step leaves alone, and what it only adds to.                     *)
LEMMA StepMonotone ==
    ASSUME SpanInv, Next, pc # "done"
    PROVE  /\ input' = input /\ found \subseteq found'
           /\ emitted' \in Nat /\ emitted <= emitted' /\ emitted' <= input.len
<1>0. IInv BY DEF SpanInv
<1>1. CASE RoomFlush \/ Finish
  <2>1. PICK eof \in BOOLEAN, force \in BOOLEAN, failed \in BOOLEAN,
             cut \in emitted .. Higher(emitted, bufEnd) :
             /\ pc \in {"room", "flush"} /\ (eof <=> pc = "flush" /\ rerr = "eof")
             /\ Flush(eof, force, failed, cut)
             /\ input' = input /\ bufEnd' = bufEnd /\ capacity' = capacity
             /\ scanQ' = scanQ /\ pending' = pending
    BY <1>1, FlushingStep
  <2> QED BY <2>1, FlushMoves
<1>2. CASE ~(RoomFlush \/ Finish)
  <2>1. input' = input /\ found' = found /\ emitted' = emitted
    <3>1. CASE Scan \/ Pend \/ Drain BY <1>0, <3>1, ValidatingStep
    <3>2. CASE \/ Cancel \/ MakeRoom \/ Discard
               \/ ReadSome \/ ReadNothing \/ ReadEnds \/ ReadBadCount
      BY <3>2 DEF Cancel, MakeRoom, Discard, ReadSome, ReadNothing, ReadEnds, ReadBadCount, outVars
    <3> QED BY <1>2, <3>1, <3>2 DEF Next, Terminated
  <2>2. emitted \in Nat /\ emitted <= input.len BY <1>0, Typed
  <2> QED BY <2>1, <2>2
<1> QED BY <1>1, <1>2

(* The output after the last offset is the whole output.                   *)
LEMMA WholeOutput ==
    ASSUME IInv
    PROVE  /\ {o \in ReferenceOut(input) : o.at < input.len} = ReferenceOut(input)
           /\ \A f \in ReferenceFindings(input) : f.start < input.len
<1>1. /\ Regular(ReferenceSpans(input), input.len, 255) /\ input.len \in Nat /\ 255 \in Nat
  BY ReferenceRegular, Typed
<1>2. \A s \in ReferenceSpans(input) :
        s.start \in Nat /\ s.end \in Nat /\ s.start < s.end /\ s.end <= input.len
  BY <1>1, AttributedFields DEF Regular, Within
<1>3. ASSUME NEW f \in ReferenceFindings(input) PROVE f.start < input.len
  <2>1. PICK h \in ReferenceSpans(input) : f.start = h.start
    BY <1>1, ComponentHead DEF ReferenceFindings
  <2> QED BY <1>1, <1>2, <2>1
<1>4. \A i \in Offsets(ReferenceSpans(input)) : i < input.len
  <2>1. \A s \in ReferenceSpans(input) : \A i \in s.start .. (s.end - 1) : i < input.len
    BY <1>1, <1>2
  <2> QED BY <2>1 DEF Offsets
<1>5. \A i \in 0 .. (input.len - 1) : i < input.len BY <1>1
<1>6. \A o \in ReferenceOut(input) : o.at < input.len BY <1>3, <1>4, <1>5 DEF ReferenceOut
<1> QED BY <1>3, <1>6

(* The engine implements the abstract redactor (docs/DESIGN.md, the        *)
(* invariants): whatever the portions the input is read in and whatever    *)
(* error ends the call, the destination holds a prefix of the one output   *)
(* that the input determines, and a finding is reported before any byte    *)
(* of its replacement is written.  Where the mask keeps the shape of a     *)
(* byte this is false, see the README.                                     *)
THEOREM Refinement == ASSUME MaskStrategy # "format" PROVE Spec => ImplementsRedactor
<1>0. MaskStrategy # "format" OBVIOUS
<1>1. Init => R!Init BY DEF Init, R!Init
<1>2. RefInv => FoundExactly BY FoundIsExact DEF RefInv
<1>3. ASSUME RefInv, RefInv', FoundExactly', [Next]_vars PROVE [R!Next]_(R!vars)
  <2>0. SpanInv /\ IInv /\ IInv' BY <1>3 DEF RefInv, SpanInv
  <2>1. CASE UNCHANGED vars BY <2>1 DEF vars, R!vars
  <2>2. CASE Next /\ pc = "done"
    <3>1. UNCHANGED vars
      BY <2>2 DEF Next, Terminated, Cancel, MakeRoom, RoomFlush, Discard, ReadSome, ReadNothing,
                  ReadEnds, ReadBadCount, Scan, Pend, Drain, Finish
    <3> QED BY <3>1 DEF vars, R!vars
  <2>3. CASE Next /\ pc # "done"
    <3>1. /\ input' = input /\ found \subseteq found'
          /\ emitted' \in Nat /\ emitted <= emitted' /\ emitted' <= input.len
      BY <2>0, <2>3, StepMonotone
    <3>2. result = "none" /\ (result' = "ok" => emitted' = input.len)
      BY <1>3, <2>3, <3>1 DEF RefInv, Outcome
    <3>3. /\ out = {o \in ReferenceOut(input) : o.at < emitted}
          /\ out' = {o \in ReferenceOut(input) : o.at < emitted'}
      BY <1>0, <1>3, <3>1 DEF RefInv, Printed
    <3>4. /\ found' \subseteq ReferenceFindings(input)
          /\ \A f \in ReferenceFindings(input) : f.start < emitted' => f \in found'
      BY <1>3, <3>1 DEF FoundExactly
    <3>5. emitted \in Nat /\ input.len \in Nat BY <2>0, Typed
    <3>6. out \subseteq out'
      <4>1. \A o \in out' \cup out : o.at \in Nat BY <2>0 DEF IInv, TypeOK
      <4> QED BY <3>1, <3>3, <3>5, <4>1
    <3>7. R!Write
      <4>1. emitted' \in 0 .. input.len BY <3>1, <3>5
      <4>2. out' = R!Prefix(emitted') BY <3>3 DEF R!Prefix
      <4> QED BY <3>1, <3>4, <3>6, <4>1, <4>2 DEF R!Write
    <3>8. result' = result \/ R!End
      <4>1. ASSUME result' = "ok" PROVE out' = ReferenceOut(input) /\ found' = ReferenceFindings(input)
        <5>1. emitted' = input.len BY <3>2, <4>1
        <5> QED BY <2>0, <3>3, <3>4, <5>1, WholeOutput
      <4> QED BY <3>2, <4>1 DEF R!End
    <3> QED BY <3>1, <3>2, <3>7, <3>8 DEF R!Next
  <2> QED BY <1>3, <2>1, <2>2, <2>3
<1> QED BY <1>1, <1>2, <1>3, ReferenceInvariant, PTL DEF Spec, R!Spec, ImplementsRedactor
=============================================================================
