------------------------------- MODULE Values -------------------------------
(***************************************************************************)
(* The validators that know a credential by where it stands: assigned to   *)
(* a telling name (generic.go, genericdeep.go).  Module Contexts has those *)
(* in headers, URLs and command lines.  A value is a span; parsers that    *)
(* find none answer NoSpan, which is empty.                                *)
(***************************************************************************)
EXTENDS Tokens

(* Where one of the words is the whole of a value, or ends it.             *)
IsWord(w, v, words)   == \E word \in words : v.end = v.start + Len(word) /\ Reads(w, v.start, word)
EndsWith(w, v, words) ==
    \E word \in words : v.end - Len(word) >= v.start /\ Reads(w, v.end - Len(word), word)
HasIn(w, v, words)    == Has(w, v.start, v.end, words)
All(w, v, S)          == AllIn(w, v.start, v.end, S)
Holds(w, v, S)        == \E p \in v.start .. (v.end - 1) : At(w, p) \in S

IsTriggerBoundaryOK(w) == ~Sees(w, w.trigStart - 1, Alnum)

----------------------------------------------------------------------------
(* The shared parse of an assignment.                                      *)

(* Past "=>", "=" or ":", but not into "::"; p itself when there is none.  *)
SeparatorEnd(w, p) ==
    IF Sees(w, p, {"="}) THEN IF Sees(w, p + 1, {">"}) THEN p + 2 ELSE p + 1
    ELSE IF Sees(w, p, {":"}) /\ ~Sees(w, p + 1, {":"}) THEN p + 1 ELSE p

DetectQuote(w, p) ==
    IF Sees(w, p, {"\\"}) /\ Sees(w, p + 1, QuoteByte)
    THEN [quote |-> At(w, p + 1), escaped |-> TRUE, at |-> p + 2]
    ELSE IF Sees(w, p, QuoteByte) THEN [quote |-> At(w, p), escaped |-> FALSE, at |-> p + 1]
    ELSE [quote |-> "none", escaped |-> FALSE, at |-> p]

(* Up to the closing quote on this line; nothing when there is none.       *)
QuotedEnd(w, q) ==
    LET ends == {p \in q.at .. (FirstIn(w, q.at, Size(w), {"\n"}) - 1) :
                   IF q.escaped THEN At(w, p) = "\\" /\ Sees(w, p + 1, {q.quote}) ELSE At(w, p) = q.quote}
    IN  IF ends = {} THEN q.at ELSE Min(ends)

(* Backslashes before a quote frame the string that holds the assignment.  *)
Unframed(w, p, end) ==
    IF Sees(w, end, QuoteByte) THEN Min({q \in p .. end : AllIn(w, q, end, {"\\"})}) ELSE end
UnquotedEnd(w, p)   == Unframed(w, p, RunEnd(w, p, Printable \ (QuoteByte \cup {",", ";", "}"})))

Unempty(v)          == Confirm(v, v.start < v.end)
ValueOf(w, q)       == Unempty(Span(q.at, IF q.quote = "none" THEN UnquotedEnd(w, q.at) ELSE QuotedEnd(w, q)))
Opening(w, sep)     == DetectQuote(w, SkipSpaces(w, SeparatorEnd(w, sep)))
ValueBehind(w, sep) == IF SeparatorEnd(w, sep) = sep THEN NoSpan ELSE ValueOf(w, Opening(w, sep))

AfterName(w, p)            == ClosedName(w, SkipSpaces(w, p), QuoteByte)
ParseAssignmentValue(w, p) == ValueBehind(w, AfterName(w, p))

(* A quoted "token=" in prose: the quote after it closes, not opens.       *)
IsEmptyInlineAssignment(w) ==
    LET sep  == SkipSpaces(w, w.trigEnd)
        next == SeparatorEnd(w, sep)
    IN  /\ Sees(w, w.trigStart - 1, QuoteByte) /\ next > sep
        /\ Sees(w, SkipSpaces(w, next), {At(w, w.trigStart - 1)})

----------------------------------------------------------------------------
(* Values that name a secret instead of being one.  One word stands for    *)
(* each list of them: markers, prefixes, suffixes.                         *)

Expression == {"(", ")", "[", "]", "{", "}", "<", ">", "|", "^"}

Pair(w, v, a, b)  == \E p \in v.start .. (v.end - 2) : At(w, p) = a /\ At(w, p + 1) \in b
HasMarker(w, v) ==
    \/ Pair(w, v, "\\", {"n"}) \/ Pair(w, v, ":", {":"}) \/ Pair(w, v, "?", {"."})
    \/ \E p \in v.start .. (v.end - 3) : AllIn(w, p, p + 3, {"."})
    \/ HasIn(w, v, {"://", "process.env"})

HasInteriorEqual(w, v) == \E p \in v.start .. (v.end - 2) : At(w, p) = "=" /\ At(w, p + 1) # "="
IsUpperCredentialIdentifier(w, v) == All(w, v, Upper \cup Digit \cup {"_"}) /\ EndsWith(w, v, {"_KEY"})
IsHexAddress(w, v) ==
    /\ v.end = v.start + 42 /\ At(w, v.start) = "0" /\ At(w, v.start + 1) = "x"
    /\ AllIn(w, v.start + 2, v.end, HexByte)

(* Identifiers joined by dots, unless it begins as a JWT does.             *)
IsIdentifierChain(w, v) ==
    /\ ~Reads(w, v.start, "eyJ") /\ ~ModularCryptHash(w, v.start)
    /\ All(w, v, Alnum \cup {"_", "$", "."})
    /\ \E p \in v.start .. (v.end - 1) : At(w, p) = "."
    /\ At(w, v.end - 1) # "."
    /\ \A p \in v.start .. (v.end - 1) :
          p = v.start \/ At(w, p - 1) = "." => At(w, p) \in Letter \cup {"_", "$"}

IsIndirectAssignmentValue(w, v) ==
    \/ v.start = v.end
    \/ At(w, v.start) = "$" /\ ~ModularCryptHash(w, v.start)
    \/ At(w, v.start) \in {"/", "~", "-", ".", ":"}
    \/ HasMarker(w, v)
    \/ Holds(w, v, Expression)
    \/ \E prefix \in {"env.", "dev-"} : HasIn(w, Span(v.start, Min({v.end, v.start + Len(prefix)})), {prefix})
    \/ EndsWith(w, v, {"_api_key"})
    \/ HasInteriorEqual(w, v) \/ IsUpperCredentialIdentifier(w, v)
    \/ IsHexAddress(w, v) \/ IsIdentifierChain(w, v)

IsMachineTokenValue(w, v) == All(w, v, Printable \ {"bq"})
IsAlphaSpaceOnly(w, v)    == All(w, v, Letter \cup {" "})
IsProseValue(w, v) ==
    \/ " " \in {At(w, v.start), At(w, v.end - 1)}
    \/ \E c \in {",", ";", "."} : Pair(w, v, c, {" "})

----------------------------------------------------------------------------
(* generic.go, genericdeep.go.                                             *)

SecretlikeIn(w, v, preset) == Secretlike(w, v.start, v.end, preset)

MachineValue(w, v, preset) ==
    Confirm(v, /\ v # NoSpan
               /\ IsTriggerBoundaryOK(w) /\ ~IsEmptyInlineAssignment(w)
               /\ ~IsIndirectAssignmentValue(w, v)
               /\ IsMachineTokenValue(w, v) /\ ~IsAlphaSpaceOnly(w, v)
               /\ SecretlikeIn(w, v, preset))

GenericAPIKeyAssignment(w) ==
    MachineValue(w, ParseAssignmentValue(w, w.trigEnd), PresetAssignmentValue)

GenericBearerLikeTokenAssignment(w) ==
    MachineValue(w, ParseAssignmentValue(w, w.trigEnd), [PresetLooseToken EXCEPT !.min = 20])

PasswordValue(w, v) ==
    Confirm(v, /\ v # NoSpan /\ IsTriggerBoundaryOK(w)
               /\ ~IsIndirectAssignmentValue(w, v) /\ ~Wordlike(w, v.start, v.end)
               /\ ~IsAlphaSpaceOnly(w, v) /\ ~IsProseValue(w, v)
               /\ SecretlikeIn(w, v, [PresetAssignmentValue EXCEPT !.min = 8]))
GenericPasswordAssignment(w) == PasswordValue(w, ParseAssignmentValue(w, w.trigEnd))

(* Up to twenty bytes of a phrase or name may come before the separator.   *)
WeakAssignmentGapMax == 20
SkipWeakGap(w, p) ==
    Min({RunEnd(w, p, Alnum \cup Blank \cup {"_", ".", "-"}), p + WeakAssignmentGapMax})
GenericSecretAssignment(w) ==
    MachineValue(w, FirstOf(ParseAssignmentValue(w, w.trigEnd),
                            ParseAssignmentValue(w, SkipWeakGap(w, w.trigEnd))),
                 PresetDeepGenericValue)
=============================================================================
