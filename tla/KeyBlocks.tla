------------------------------ MODULE KeyBlocks ------------------------------
(***************************************************************************)
(* Private keys (privatekey.go): the PEM block from its BEGIN marker to    *)
(* its END marker, raw or escaped inside a string, and the Private-Lines   *)
(* section of a PuTTY file.  A block that the window cuts is confirmed up  *)
(* to the last key byte in sight.                                          *)
(***************************************************************************)
EXTENDS Windows

PemLabelMax     == 64
PemPlausibleRun == 16
PemMaxShortRuns == 24

PemIsBase64    == Base64Char \cup {"="}
PemIsLabelByte == Upper \cup Digit \cup {" "}
Dashes(w, p)   == p + 5 <= Size(w) /\ AllIn(w, p, p + 5, {"-"})

(* Where the marker with this label ends; none without PRIVATE KEY in it.  *)
NoMarker == -1
MarkerEnd(w, p, end) ==
    IF end - p <= PemLabelMax /\ Has(w, p, end, {"PRIVATE KEY"}) /\ Dashes(w, end)
    THEN end + 5 ELSE NoMarker
LabelledMarkerEnd(w, p) == MarkerEnd(w, p, RunEnd(w, p, PemIsLabelByte))

EscapeAt(w, p, c)  == IF Sees(w, p, {"\\"}) /\ Sees(w, p + 1, {c}) THEN p + 2 ELSE p
LineEscape(w, p) == IF p = NoMarker THEN NoMarker ELSE EscapeAt(w, EscapeAt(w, p, "r"), "n")
PemEndMarker(w, p) ==
    IF Reads(w, p, "-----END ") THEN LineEscape(w, LabelledMarkerEnd(w, p + Len("-----END "))) ELSE NoMarker

----------------------------------------------------------------------------
(* The scan of a PEM body goes on over key bytes, blanks, line ends, : , - *)
(* and escapes (backslashes and one of n r t "), to an END marker, to any  *)
(* other byte, or until it gives up.                                       *)

EscapeLetter  == {"n", "r", "t", "\""}
Escaped(w, p) == Sees(w, p, EscapeLetter) /\ Sees(w, p - 1, {"\\"})
KeyByte(w, p) == Sees(w, p, PemIsBase64) /\ ~Escaped(w, p)

BodyByte(w, p) ==
    \/ KeyByte(w, p) \/ Escaped(w, p)
    \/ Sees(w, p, Blank \cup LineBreak \cup {":", ",", "-"})
    \/ Sees(w, p, {"\\"}) /\ (Sees(w, p + 1, {"\\"}) \/ Escaped(w, p + 1))

(* Runs of key bytes, short ones and those long enough to be a key's.      *)
KeyRuns(w, from, to) ==
    LET ends == {q \in from .. to : KeyByte(w, q - 1) /\ ~KeyByte(w, q)}
    IN  {Span(p, Min({q \in ends : q > p})) : p \in {q \in from .. (to - 1) : KeyByte(w, q) /\ ~KeyByte(w, q - 1)}}
Plausible(run) == run.end - run.start >= PemPlausibleRun

(* Faulty: short runs are counted over the whole of the block.             *)
GivesUpForGood(runs) ==
    {r.end : r \in {s \in runs : Cardinality({t \in runs : ~Plausible(t) /\ t.start <= s.start}) > PemMaxShortRuns}}

(* Short runs one after the other, with no plausible one between, are      *)
(* prose: the ends of those that make too many.                            *)
GivesUp(runs) ==
    {r.end : r \in {s \in runs : \E t \in runs :
        /\ ~\E long \in runs : Plausible(long) /\ t.start <= long.start /\ long.start <= s.start
        /\ Cardinality({u \in runs : t.start <= u.start /\ u.start <= s.start}) > PemMaxShortRuns}}

(* Given the runs before the scan ended at limit: through the END marker   *)
(* there, or else the last key byte.                                       *)
PEMConfirm(w, limit, gaveUp, runs) ==
    IF ~\E r \in runs : Plausible(r) THEN NoSpan
    ELSE IF ~gaveUp /\ PemEndMarker(w, limit) # NoMarker THEN Span(w.trigStart, PemEndMarker(w, limit))
    ELSE Span(w.trigStart, Max({r.end : r \in runs}))

(* The runs behind the first at whose end it gives up do not count.        *)
PEMStopped(w, limit, runs, stops) ==
    PEMConfirm(w, limit, stops # {}, {r \in runs : \A stop \in stops : r.end <= stop})
PEMRuns(w, limit, runs) == PEMStopped(w, limit, runs, GivesUp(runs))
PEMBody(w, body, limit) == PEMRuns(w, limit, KeyRuns(w, body, limit))
PEMBlock(w, body) ==
    IF body = NoMarker THEN NoSpan
    ELSE PEMBody(w, body, Min({Size(w)} \cup {p \in body .. (Size(w) - 1) :
                                                PemEndMarker(w, p) # NoMarker \/ ~BodyByte(w, p)}))

PEMPrivateKey(w) ==
    PEMBlock(w, LabelledMarkerEnd(w, w.trigEnd))

----------------------------------------------------------------------------
(* PuTTYPrivateKey: version 2 or 3, then "Private-Lines: n" at the start   *)
(* of a line, then up to n lines of key bytes.                             *)

(* The counts of lines that a text may announce.                           *)
LineCounts == ("2" :> 2) @@ ("3" :> 3) @@ ("14" :> 14)

(* A line of the section is followed by the next, behind its line break; a *)
(* line that is broken off, or has no key byte, is the last one.           *)
KeyLine(w, p)       == Span(p, RunEnd(w, p, PemIsBase64))
PastReturn(w, p)    == IF Sees(w, p, {"\r"}) THEN p + 1 ELSE p
PastLineFeed(w, p)  == IF Sees(w, p, {"\n"}) THEN p + 1 ELSE Size(w)
NextLine(w, line)   ==
    IF line.start < line.end THEN PastLineFeed(w, PastReturn(w, line.end)) ELSE Size(w)
BodyLines(w, p, n) ==
    LET start[i \in 1 .. n] == IF i = 1 THEN p ELSE NextLine(w, KeyLine(w, start[i - 1]))
    IN  {KeyLine(w, start[i]) : i \in 1 .. n}

(* From the section's header through the last key byte of its lines.       *)
LastKeyByte(section, lines) ==
    IF \E line \in lines : Plausible(line)
    THEN Span(section, Max({line.end : line \in {l \in lines : l.start < l.end}})) ELSE NoSpan
(* The count, one of those a text may announce, ends its line.             *)
SectionBody(w, section, lf, counts) ==
    IF counts = {} \/ ~Sees(w, lf, {"\n"}) THEN NoSpan
    ELSE LastKeyByte(section, BodyLines(w, lf + 1, LineCounts[CHOOSE word \in counts : TRUE]))
SectionCounted(w, section, count) ==
    SectionBody(w, section, PastReturn(w, SkipSpaces(w, count.end)),
                {word \in DOMAIN LineCounts : count.end = count.start + Len(word) /\ Reads(w, count.start, word)})
CountOf(w, p)   == Span(p, RunEnd(w, p, Digit))
Section(w, p)   == SectionCounted(w, p, CountOf(w, SkipSpaces(w, p + Len("Private-Lines:"))))
FirstSection(w, sections) == IF sections = {} THEN NoSpan ELSE Section(w, Min(sections))

PuTTYPrivateKey(w) ==
    IF \E version \in {"2", "3"} : Reads(w, w.trigEnd, version) /\ Sees(w, w.trigEnd + 1, {":"})
    THEN FirstSection(w, {p \in w.trigEnd .. Size(w) : Reads(w, p, "Private-Lines:") /\ Sees(w, p - 1, {"\n"})})
    ELSE NoSpan
=============================================================================
