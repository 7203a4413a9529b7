------------------------------- MODULE Tokens -------------------------------
(***************************************************************************)
(* The validators of credentials that carry a prefix of their own, or a    *)
(* documented variable name (internal/rules/validators: validators.go,     *)
(* sourcecontrol.go, ai.go, payments.go, devops.go, cloud.go, jwt.go).     *)
(*                                                                         *)
(* A token is a sequence of segments, each a longest run of bytes of one   *)
(* class.  Where the code takes a slice of an exact length and then looks  *)
(* at the byte after it, the slice is such a run: the byte it then demands *)
(* or refuses is what ends it.                                             *)
(***************************************************************************)
EXTENDS Windows

(* A segment: its class, its length, whether a placeholder (or a run of as *)
(* many equal bytes as repeats says) disqualifies it.                      *)
Run(S, min, max) == [class |-> S, min |-> min, max |-> max, checked |-> TRUE, repeats |-> 0]
Fixed(S, n)      == Run(S, n, n)
NoRepeats(seg, n) == [seg EXCEPT !.repeats = n]
Unchecked(seg)   == [seg EXCEPT !.checked = FALSE]
Mark(c)          == Unchecked(Fixed({c}, 1))

(* consumeRun and its like: a run out of its bounds is no token at all.    *)
Taken(w, seg, p, end) ==
    [at |-> end,
     ok |-> /\ seg.min <= end - p /\ end - p <= seg.max
            /\ seg.checked => ~Placeholder(w, p, end)
            /\ seg.repeats > 0 => ~RepeatRun(w, p, end, seg.repeats)]
Takes(w, p, seg)     == Taken(w, seg, p, RunEnd(w, p, seg.class))
Then(w, before, seg) == IF before.ok THEN Takes(w, before.at, seg) ELSE before

Parse(w, from, segs) ==
    LET taken[i \in 0 .. Len(segs)] ==
            IF i = 0 THEN [at |-> from, ok |-> TRUE] ELSE Then(w, taken[i - 1], segs[i])
    IN  taken[Len(segs)]

(* The trigger and the segments behind it, with no byte of left before and *)
(* none of right after them.                                               *)
Bounded(w, left, body, right) ==
    IF body.ok /\ ~Sees(w, w.trigStart - 1, left) /\ ~Sees(w, body.at, right)
    THEN Span(w.trigStart, body.at) ELSE NoSpan
Token(w, left, segs, right) == Bounded(w, left, Parse(w, w.trigEnd, segs), right)

(* The value alone, without the trigger before it.                         *)
ValueOnly(w, span) == IF span = NoSpan THEN NoSpan ELSE Span(w.trigEnd, span.end)

FirstOf(a, b)   == IF a # NoSpan THEN a ELSE b
Confirm(v, ok)  == IF ok THEN v ELSE NoSpan

(* Up to two bytes of padding after a run.                                 *)
PadEnd(w, p) == IF ~Sees(w, p, {"="}) THEN p ELSE IF Sees(w, p + 1, {"="}) THEN p + 2 ELSE p + 1

Ident == Alnum \cup {"_"}

----------------------------------------------------------------------------
(* sourcecontrol.go, and the Vault tokens of cloud.go.                     *)

FixedAlnumToken(w, n)  == Token(w, Ident, <<Fixed(Alnum, n)>>, Alnum)
RunToken(w, min, max)  == Token(w, Ident, <<Run(TokenChar, min, max)>>, {})

GitHubPAT(w)           == FixedAlnumToken(w, 36)
GitHubOAuthToken(w)    == FixedAlnumToken(w, 36)
GitHubAppToken(w)      == FixedAlnumToken(w, 36)
GitHubRefreshToken(w)  == FixedAlnumToken(w, 36)
GitHubFineGrainedPAT(w) == Token(w, Ident, <<Fixed(Alnum, 22), Mark("_"), Fixed(Alnum, 59)>>, Alnum)
GitLabPAT(w)           == RunToken(w, 20, 50)
GitLabRunnerToken(w)   == RunToken(w, 20, 50)
GitLabDeployToken(w)   == RunToken(w, 20, 50)
GitLabFeedToken(w)     == RunToken(w, 20, 20)
GitLabFeedTokenV2(w)   ==
    Token(w, Ident, <<Fixed(HexByte, 64), Mark("-"), Unchecked(Run(Digit, 1, 20))>>, Alnum)
GitLabPipelineTriggerToken(w) == RunToken(w, 40, 40)
NpmAccessToken(w)      == FixedAlnumToken(w, 36)
PyPIAPIToken(w)        == RunToken(w, 85, 300)
DockerHubPAT(w)        == RunToken(w, 27, 100)
DockerHubOAT(w)        == RunToken(w, 32, 100)
VaultServiceToken(w)   == RunToken(w, 20, 150)
VaultBatchToken(w)     == RunToken(w, 100, 300)

----------------------------------------------------------------------------
(* ai.go.                                                                  *)

AnthropicAPIKey(w) == Token(w, Alnum, <<NoRepeats(Run(TokenChar, 80, 130), 5)>>, Alnum)

(* With the infix any body of 40 to 200 bytes will do.                     *)
OpenAIProjectKey(w) ==
    LET infixed == Has(w, w.trigEnd, RunEnd(w, w.trigEnd, TokenChar), {"T3BlbkFJ"})
    IN  Token(w, Alnum, <<IF infixed THEN Unchecked(Run(TokenChar, 40, 200))
                          ELSE NoRepeats(Run(TokenChar, 48, 200), 5)>>, Alnum)

(* Faulty: any URL-safe body of the right length will do.                  *)
OpenAILegacyKeyURLSafe(w) == Token(w, TokenChar, <<Fixed(TokenChar, 48)>>, TokenChar)

OpenAILegacyKey(w) ==
    LET infix == w.trigEnd + 20
    IN  Confirm(Token(w, TokenChar, <<Unchecked(Fixed(Alnum, 48))>>, Alnum),
                /\ \A word \in {"ant-", "proj-", "svcacct-", "admin-"} : ~Reads(w, w.trigEnd, word)
                /\ Reads(w, infix, "T3BlbkFJ")
                /\ \A half \in {w.trigEnd, infix + 8} : half + 20 <= Size(w) => ~Placeholder(w, half, half + 20))

HuggingFaceToken(w) == Token(w, Alnum, <<NoRepeats(Fixed(Alnum, 34), 8)>>, Alnum)
GroqAPIKey(w)       == Token(w, Alnum, <<NoRepeats(Fixed(Alnum, 52), 8)>>, Alnum)
DeepSeekAPIKey(w)   == Token(w, TokenChar, <<NoRepeats(Fixed(LowerAlnum, 32), 6)>>, Alnum)
CerebrasAPIKey(w)   == Token(w, Alnum, <<NoRepeats(Run(Alnum, 32, 64), 5)>>, Alnum)
CursorAPIKey(w)     == Token(w, Alnum, <<NoRepeats(Run(TokenChar, 20, Size(w)), 5)>>, {})

----------------------------------------------------------------------------
(* consumeAssignedValue: a value assigned to the variable the trigger      *)
(* names, blanks allowed around the separator, quoted or not, of exactly   *)
(* as many bytes as the credential has.  Before it, one quote that closes  *)
(* the name.                                                               *)

SimpleQuote == {"\"", "'"}

(* What may follow the value: its closing quote, or no byte of its class.  *)
(* The end of the window will do.                                          *)
EndsValue(w, p, quote, S) ==
    IF quote \in SimpleQuote THEN Sees(w, p, {quote}) ELSE ~Sees(w, p, S)

(* A quote at p, or else nothing, opens the value.                         *)
ValueAt(w, p, n, S) ==
    LET quote == IF Sees(w, p, SimpleQuote) THEN At(w, p) ELSE "none"
        from  == IF quote = "none" THEN p ELSE p + 1
        to    == from + n
    IN  Confirm(Span(from, to), /\ to <= Size(w) /\ AllIn(w, from, to, S)
                                /\ EndsValue(w, to, quote, S) /\ ~Placeholder(w, from, to))

(* Past the quote, if any, that closes the name, and blanks.               *)
ClosedName(w, p, S) == IF Sees(w, p, S) THEN SkipSpaces(w, p + 1) ELSE p

AssignedValue(w, n, S) ==
    LET sep == ClosedName(w, SkipSpaces(w, w.trigEnd), SimpleQuote)
    IN  IF Sees(w, sep, {"=", ":"}) THEN ValueAt(w, SkipSpaces(w, sep + 1), n, S) ELSE NoSpan

Without(w, span, n) == Confirm(span, ~RepeatRun(w, span.start, span.end, n))

CohereAPIKey(w)          == Without(w, AssignedValue(w, 40, Alnum), 5)
DeepgramAPIKey(w)        == Without(w, AssignedValue(w, 40, LowerAlnum), 6)
BuildkiteAPIToken(w)     == AssignedValue(w, 40, LowerHex)
DatadogAPIKey(w)         == AssignedValue(w, 32, LowerHex)
DatadogApplicationKey(w) == AssignedValue(w, 40, LowerHex)
VercelLegacyToken(w)     == AssignedValue(w, 24, Alnum)
(* The one key of AWS's documentation holds the word example: a stand-in.  *)
AWSSecretAccessKey(w)    == AssignedValue(w, 40, PaddedBase64)

----------------------------------------------------------------------------
(* devops.go.                                                              *)

(* Nothing is asked of the byte before the trigger.                        *)
CircleCIToken(w) == Token(w, {}, <<Run(Base58, 20, 24), Mark("_"), Fixed(LowerHex, 40)>>, Alnum)

GrafanaServiceAccountToken(w) ==
    Token(w, Ident, <<Fixed(Alnum, 32), Mark("_"), Unchecked(Fixed(HexByte, 8))>>, Alnum)

PaddedUpTo(w, span, end, checkPadding) ==
    IF span = NoSpan \/ Sees(w, end, PaddedBase64) \/ (checkPadding /\ Placeholder(w, w.trigEnd, end))
    THEN NoSpan ELSE Span(w.trigStart, end)
PaddedToken(w, token, checkPadding) == PaddedUpTo(w, token, PadEnd(w, token.end), checkPadding)
Padded(w, left, seg, checkPadding)  == PaddedToken(w, Token(w, left, <<seg>>, {}), checkPadding)

GrafanaCloudAccessPolicyToken(w) == Padded(w, Ident, Run(Base64Char, 32, 400), FALSE)

(* Only dp.st. may have a label; without one, or with one that no body     *)
(* follows, the body comes first.                                          *)
DopplerToken(w) ==
    LET body  == Run(Alnum, 40, 44)
        label == Unchecked(Run(DopplerLabel, 2, 35))
    IN  FirstOf(IF w.trigger = "dp.st." THEN Token(w, Ident, <<label, Mark("."), body>>, Alnum) ELSE NoSpan,
                Token(w, Ident, <<body>>, Alnum))

VercelToken(w) == Token(w, Ident, <<Run(Alnum, 40, 80)>>, {})

----------------------------------------------------------------------------
(* payments.go.                                                            *)

StripeSecretKey(w)     == Token(w, Ident, <<Run(Alnum, 24, 99)>>, Alnum)
StripeEphemeralKey(w)  == Token(w, Ident, <<Run(TokenChar, 60, 150)>>, TokenChar)
StripeWebhookSecret(w) == Token(w, Ident, <<Run(Alnum, 32, 64)>>, Alnum)

SlackGroup == Run(Digit, 10, 13)
SlackTail  == Run(Alnum, 24, 34)
SlackBotToken(w) == Token(w, Ident, <<SlackGroup, Mark("-"), SlackGroup, Mark("-"), SlackTail>>, Alnum)
(* Three groups of digits first, then two.                                 *)
SlackUserToken(w) ==
    FirstOf(Token(w, Ident, <<SlackGroup, Mark("-"), SlackGroup, Mark("-"), SlackGroup, Mark("-"), SlackTail>>, Alnum),
            SlackBotToken(w))
ThreeDashes(w, token) ==
    Confirm(token, Cardinality({p \in w.trigEnd .. (token.end - 1) : At(w, p) = "-"}) >= 3)
SlackAppToken(w) == ThreeDashes(w, Token(w, Ident, <<Run(Alnum \cup {"-"}, 40, 100)>>, Alnum))

SendGridAPIKey(w) == Token(w, Ident, <<Unchecked(Fixed(TokenChar, 22)), Mark("."), Fixed(TokenChar, 43)>>, TokenChar)
TwilioAPIKeySID(w) == Token(w, Ident, <<Fixed(LowerHex, 32)>>, Alnum)
LinearAPIKey(w)    == Token(w, Ident, <<Run(Alnum, 40, 60)>>, Alnum)
NotionInternalToken(w) ==
    Token(w, Ident, IF w.trigger = "secret_" THEN <<Fixed(Alnum, 43)>> ELSE <<Run(Alnum, 46, 60)>>, Alnum)

----------------------------------------------------------------------------
(* cloud.go.                                                               *)

AWSAccessKeyID(w) ==
    IF Has(w, w.trigEnd + 9, w.trigEnd + 16, {"example"}) THEN NoSpan
    ELSE Token(w, UpperOrDigit, <<Fixed(Base32Upper, 16)>>, UpperOrDigit)
GCPAPIKey(w) == Token(w, TokenChar, <<Fixed(TokenChar, 35)>>, TokenChar)

AzureStorageAccountKey(w) ==
    ValueOnly(w, Token(w, {}, <<Run(Base64Char, 86, 88), Unchecked(Fixed({"="}, 2))>>, Base64Char))
AzureShortSecret(w) ==
    ValueOnly(w, Token(w, {}, <<Run(Base64Char, 42, 44), Mark("=")>>, Base64Char))
AzureServiceBusSASKey(w)       == AzureShortSecret(w)
AzureAppConfigurationSecret(w) == AzureShortSecret(w)

(* Fourteen bytes before the trigger belong to the token.                  *)
TerraformFrom(w, prefix, token) ==
    IF /\ prefix >= 0 /\ ~Sees(w, prefix - 1, Alnum) /\ token # NoSpan
       /\ AllIn(w, prefix, w.trigStart, Alnum) /\ ~Placeholder(w, prefix, w.trigStart)
    THEN Span(prefix, token.end) ELSE NoSpan
TerraformCloudAPIToken(w) ==
    TerraformFrom(w, w.trigStart - 14, Token(w, {}, <<Run(TerraformChar, 60, 70)>>, {}))

AWSBedrockLongLivedAPIKey(w)  == Padded(w, {}, Unchecked(Run(Base64Char, 91, 251)), TRUE)
AWSBedrockShortLivedAPIKey(w) == Padded(w, {}, Unchecked(Run(Base64Char, 20, 4096)), TRUE)

----------------------------------------------------------------------------
(* jwt.go: header, payload, signature.  The header's length counts the     *)
(* trigger's.                                                              *)

PayloadStart(w) == RunEnd(w, w.trigEnd, TokenChar) + 1

JWTUpTo(w, token, end) ==
    IF token = NoSpan \/ Sees(w, end, Alnum \cup {"="}) \/ ~Reads(w, PayloadStart(w), "ey")
    THEN NoSpan ELSE Span(w.trigStart, end)
PaddedJWT(w, token) == JWTUpTo(w, token, PadEnd(w, token.end))
ParseJWT(w) ==
    PaddedJWT(w, Token(w, TokenChar \cup {"."},
                       <<Unchecked(Run(TokenChar, 19 - 3, Size(w))), Mark("."),
                         Unchecked(Run(TokenChar, 19, Size(w))), Mark("."),
                         Run(JWTSignatureByte, 10, Size(w))>>, {}))

JWT(w) == ParseJWT(w)

(* The decoded payload claims "role":"service_role": a word in it.         *)
ClaimsServiceRole(w, p)   == Has(w, p, RunEnd(w, p, TokenChar), {"service_role"})
SupabaseServiceRoleKey(w) == Confirm(ParseJWT(w), ClaimsServiceRole(w, PayloadStart(w)))
=============================================================================
