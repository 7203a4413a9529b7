------------------------------ MODULE Contexts ------------------------------
(***************************************************************************)
(* The credentials of an Authorization header, a Cookie header, the user   *)
(* part of a URL and a command line (contextual.go).                       *)
(***************************************************************************)
EXTENDS Values

(* isAuthTokenChar, isBase64Char, isCookieNameChar, isCookieValueChar,     *)
(* isSchemeChar, isUserinfoTerminator (its complement), isBareCLIValueChar.*)
AuthTokenChar    == TokenChar \cup {".", "~", "+", "/", "="}
CookieNameChar   == TokenChar \cup {"."}
CookieValueChar  == Printable \ {"\"", ",", ";", "\\"}
SchemeChar       == Alnum \cup {"+", ".", "-"}
UserinfoChar     == Printable \ (QuoteByte \cup {"/", "?", "#", "\\", "<", ">"})
BareCLIValueChar == Printable \ (QuoteByte \cup {"\\"})

----------------------------------------------------------------------------
(* AuthorizationHeader.  Bearer and Basic values follow a blank; any other *)
(* scheme has its Signature= parameter confirmed, or, if it mentions a     *)
(* password, all of its parameters.                                        *)

AuthBearerMinLen    == 16
AuthBasicMinLen     == 12
AuthSignatureMinLen == 16

LineEnd(w, p) == FirstIn(w, p, Size(w), LineBreak)

RunFrom(w, p, S) == Span(p, RunEnd(w, p, S))
AtLeast(v, n)    == Confirm(v, v.end - v.start >= n)

BearerValue(w, v) ==
    Confirm(v, /\ v.end - v.start >= AuthBearerMinLen
               /\ ~Placeholder(w, v.start, v.end) /\ ~IsIndirectAssignmentValue(w, v))

(* Of the line from p on: what follows the first Signature=; all but the   *)
(* blanks at its ends.                                                     *)
SignatureValue(w, signatures) ==
    RunFrom(w, Min(signatures) + Len("Signature="), AuthTokenChar)
Parameters(w, p, end) == Unempty(Span(p, Min({q \in p .. end : AllIn(w, q, end, Blank)})))
OtherScheme(w, line, signatures) ==
    IF signatures # {} THEN AtLeast(SignatureValue(w, signatures), AuthSignatureMinLen)
    ELSE IF HasIn(w, line, {"password"}) THEN Parameters(w, SkipSpaces(w, line.start), line.end)
    ELSE NoSpan

Credentials(w, scheme, open, line) ==
    IF scheme.start = scheme.end \/ ~IsTriggerBoundaryOK(w) THEN NoSpan
    ELSE IF IsWord(w, scheme, {"bearer", "token", "basic"}) /\ open = scheme.end THEN NoSpan
    ELSE IF IsWord(w, scheme, {"bearer", "token"}) THEN BearerValue(w, RunFrom(w, open, AuthTokenChar))
    ELSE IF IsWord(w, scheme, {"basic"}) THEN AtLeast(RunFrom(w, open, PaddedBase64), AuthBasicMinLen)
    ELSE OtherScheme(w, line, {p \in line.start .. line.end : Reads(w, p, "Signature=")})
AfterScheme(w, scheme) ==
    Credentials(w, scheme, SkipSpaces(w, scheme.end), Span(scheme.end, LineEnd(w, scheme.end)))

AuthorizationHeader(w) == AfterScheme(w, RunFrom(w, SkipSpaces(w, w.trigEnd), Alnum \cup {"-"}))

----------------------------------------------------------------------------
(* CookieSessionToken.  The header's trigger confirms the first pair that  *)
(* qualifies; a pair's own trigger ("sid=", "token=", ...) confirms it     *)
(* where it stands in a cookie header.                                     *)

CookieNameKeywords  == {"session", "sessid", "sid", "token", "auth", "jwt", "bearer", "secret", "key"}
CookieValueMinLen   == 16

CookieNameQualifies(w, name) ==
    name.start < name.end /\ ~HasIn(w, name, {"csrf"}) /\ HasIn(w, name, CookieNameKeywords)
CookieValueQualifies(w, v) ==
    /\ v.end - v.start >= CookieValueMinLen
    /\ ~IsIndirectAssignmentValue(w, v) /\ SecretlikeIn(w, v, PresetLooseToken)
CookieValue(w, p) == RunFrom(w, p, CookieValueChar)

(* A pair may begin behind the colon and behind each semicolon, up to the  *)
(* end of the line or of the string that holds it.                         *)
PairNames(w, stop) ==
    {RunFrom(w, SkipSpaces(w, p), CookieNameChar) :
        p \in {w.trigEnd} \cup {q \in (w.trigEnd + 1) .. stop : At(w, q - 1) = ";"}}
FirstQualifying(w, names) ==
    LET found == {name.end + 1 : name \in {n \in names :
                    /\ Sees(w, n.end, {"="}) /\ CookieNameQualifies(w, n)
                    /\ CookieValueQualifies(w, CookieValue(w, n.end + 1))}}
    IN  IF found = {} THEN NoSpan ELSE CookieValue(w, Min(found))
CookieHeaderScan(w) ==
    FirstQualifying(w, PairNames(w, FirstIn(w, w.trigEnd, Size(w), LineBreak \cup {"\"", "\\"})))

(* Faulty: the header's name must be in sight.                             *)
CookieNameInSight(w, p) == Has(w, 0, p, {"ookie"})

(* In a cookie header: behind a semicolon, or with "ookie" somewhere       *)
(* before it.                                                              *)
CookiePairContextOK(w, p) ==
    \/ Sees(w, p - 1, {";"})
    \/ Sees(w, p - 1, {" "}) /\ Sees(w, p - 2, {";"})
    \/ Has(w, 0, p, {"ookie"})

CookiePairCheck(w) ==
    LET first == RunStart(w, w.trigStart, CookieNameChar)
        value == CookieValue(w, w.trigEnd)
    IN  Confirm(value, /\ CookieNameQualifies(w, Span(first, w.trigEnd - 1))
                       /\ CookiePairContextOK(w, first) /\ CookieValueQualifies(w, value))

CookieSessionToken(w) ==
    IF At(w, w.trigEnd - 1) = ":"
    THEN IF IsTriggerBoundaryOK(w) THEN CookieHeaderScan(w) ELSE NoSpan
    ELSE CookiePairCheck(w)

----------------------------------------------------------------------------
(* URLCredentials: the password between the first colon and the @.         *)

URLPasswordPlaceholders == {"pass", "pwd", "token"}
URLPasswordMinLen       == 3

ValidPercentEncoding(w, v) ==
    \A p \in v.start .. (v.end - 1) :
        At(w, p) = "%" => p + 2 < v.end /\ AllIn(w, p + 1, p + 3, HexByte)

URLCredentials(w) ==
    LET scheme == RunStart(w, w.trigStart, SchemeChar)
        at     == FirstIn(w, w.trigEnd, Size(w), {"@"})
        colon  == FirstIn(w, w.trigEnd, at, {":"})
        v      == Span(colon + 1, at)
    IN  Confirm(v, /\ scheme + 2 <= w.trigStart /\ At(w, scheme) \in Letter
                   /\ at < Size(w) /\ colon < at
                   /\ AllIn(w, w.trigEnd, at, UserinfoChar)
                   /\ v.end - v.start >= URLPasswordMinLen
                   /\ ~Placeholder(w, v.start, v.end) /\ ~Wordlike(w, v.start, v.end)
                   /\ ValidPercentEncoding(w, v) /\ ~IsWord(w, v, URLPasswordPlaceholders))

----------------------------------------------------------------------------
(* CommandLinePasswordFlag: "--password value", "--token=value".           *)

CLIPasswordMinLen == 6
CLITokenMinLen    == 12

CLIValue(w, q) ==
    IF q.quote # "none" THEN Span(q.at, QuotedEnd(w, q))
    ELSE IF Sees(w, q.at, {"-"}) THEN NoSpan
    ELSE RunFrom(w, q.at, BareCLIValueChar)

FlagValue(w, v) ==
    Confirm(v, /\ v.start < v.end
               /\ ~Placeholder(w, v.start, v.end) /\ ~IsIndirectAssignmentValue(w, v)
               /\ IF w.trigger \in {"--password", "--passwd"}
                  THEN v.end - v.start >= CLIPasswordMinLen /\ ~Wordlike(w, v.start, v.end)
                  ELSE SecretlikeIn(w, v, [PresetLooseToken EXCEPT !.min = CLITokenMinLen]))

CommandLinePasswordFlag(w) ==
    IF Sees(w, w.trigStart - 1, Alnum \cup {"-"}) \/ ~Sees(w, w.trigEnd, Blank \cup {"="}) THEN NoSpan
    ELSE FlagValue(w, CLIValue(w, DetectQuote(w, IF Sees(w, w.trigEnd, {"="}) THEN w.trigEnd + 1
                                                 ELSE SkipSpaces(w, w.trigEnd))))
=============================================================================
