----------------------------- MODULE Validators -----------------------------
(***************************************************************************)
(* The built-in rules at work on a text: at every occurrence of a rule's   *)
(* trigger its validator is asked about the bytes around it, as far as the *)
(* rule looks (MaxLookbehind before the trigger, MaxLookahead after it),   *)
(* and what it confirms is to be redacted.  An occurrence waits until its  *)
(* window is buffered, so one that looks far may be asked after many that  *)
(* come later.  Module Engine has the buffer, in which no window is cut    *)
(* short (WindowsWhole).                                                   *)
(***************************************************************************)
EXTENDS RuleTable, Contexts, KeyBlocks

CONSTANT Texts      \* each [bytes, words]

VARIABLES text,     \* the input
          unasked,  \* the occurrences to come, each [rule, trigger, at]
          answers   \* what has been answered, each [occurrence, span]

vars == <<text, unasked, answers>>

(* The rule's Validate function.                                           *)
Validate(rule, w) ==
    CASE rule = "anthropic-api-key"                    -> AnthropicAPIKey(w)
      [] rule = "authorization-bearer"                 -> AuthorizationHeader(w)
      [] rule = "aws-access-key-id"                    -> AWSAccessKeyID(w)
      [] rule = "aws-bedrock-long-lived-api-key"       -> AWSBedrockLongLivedAPIKey(w)
      [] rule = "aws-bedrock-short-lived-api-key"      -> AWSBedrockShortLivedAPIKey(w)
      [] rule = "aws-secret-access-key"                -> AWSSecretAccessKey(w)
      [] rule = "azure-app-configuration-secret"       -> AzureAppConfigurationSecret(w)
      [] rule = "azure-servicebus-sas-key"             -> AzureServiceBusSASKey(w)
      [] rule = "azure-storage-account-key"            -> AzureStorageAccountKey(w)
      [] rule = "buildkite-api-token"                  -> BuildkiteAPIToken(w)
      [] rule = "cerebras-api-key"                     -> CerebrasAPIKey(w)
      [] rule = "circleci-token"                       -> CircleCIToken(w)
      [] rule = "cohere-api-key"                       -> CohereAPIKey(w)
      [] rule = "command-line-password-flag"           -> CommandLinePasswordFlag(w)
      [] rule = "cookie-session-token"                 -> CookieSessionToken(w)
      [] rule = "cursor-api-key"                       -> CursorAPIKey(w)
      [] rule = "datadog-api-key"                      -> DatadogAPIKey(w)
      [] rule = "datadog-application-key"              -> DatadogApplicationKey(w)
      [] rule = "deepgram-api-key"                     -> DeepgramAPIKey(w)
      [] rule = "deepseek-api-key"                     -> DeepSeekAPIKey(w)
      [] rule = "dockerhub-oat"                        -> DockerHubOAT(w)
      [] rule = "dockerhub-pat"                        -> DockerHubPAT(w)
      [] rule = "doppler-token"                        -> DopplerToken(w)
      [] rule = "gcp-api-key"                          -> GCPAPIKey(w)
      [] rule = "generic-api-key-assignment"           -> GenericAPIKeyAssignment(w)
      [] rule = "generic-bearer-like-token-assignment" -> GenericBearerLikeTokenAssignment(w)
      [] rule = "generic-password-assignment"          -> GenericPasswordAssignment(w)
      [] rule = "generic-secret-assignment"            -> GenericSecretAssignment(w)
      [] rule = "github-app-token"                     -> GitHubAppToken(w)
      [] rule = "github-fine-grained-pat"              -> GitHubFineGrainedPAT(w)
      [] rule = "github-oauth-token"                   -> GitHubOAuthToken(w)
      [] rule = "github-pat"                           -> GitHubPAT(w)
      [] rule = "github-refresh-token"                 -> GitHubRefreshToken(w)
      [] rule = "gitlab-deploy-token"                  -> GitLabDeployToken(w)
      [] rule = "gitlab-feed-token"                    -> GitLabFeedToken(w)
      [] rule = "gitlab-feed-token-v2"                 -> GitLabFeedTokenV2(w)
      [] rule = "gitlab-pat"                           -> GitLabPAT(w)
      [] rule = "gitlab-pipeline-trigger-token"        -> GitLabPipelineTriggerToken(w)
      [] rule = "gitlab-runner-token"                  -> GitLabRunnerToken(w)
      [] rule = "grafana-cloud-access-policy-token"    -> GrafanaCloudAccessPolicyToken(w)
      [] rule = "grafana-service-account-token"        -> GrafanaServiceAccountToken(w)
      [] rule = "groq-api-key"                         -> GroqAPIKey(w)
      [] rule = "huggingface-token"                    -> HuggingFaceToken(w)
      [] rule = "jwt"                                  -> JWT(w)
      [] rule = "linear-api-key"                       -> LinearAPIKey(w)
      [] rule = "notion-internal-token"                -> NotionInternalToken(w)
      [] rule = "npm-access-token"                     -> NpmAccessToken(w)
      [] rule = "openai-legacy-key"                    -> OpenAILegacyKey(w)
      [] rule = "openai-project-key"                   -> OpenAIProjectKey(w)
      [] rule = "pem-private-key"                      -> PEMPrivateKey(w)
      [] rule = "putty-private-key"                    -> PuTTYPrivateKey(w)
      [] rule = "pypi-api-token"                       -> PyPIAPIToken(w)
      [] rule = "sendgrid-api-key"                     -> SendGridAPIKey(w)
      [] rule = "slack-app-token"                      -> SlackAppToken(w)
      [] rule = "slack-bot-token"                      -> SlackBotToken(w)
      [] rule = "slack-user-token"                     -> SlackUserToken(w)
      [] rule = "stripe-ephemeral-key"                 -> StripeEphemeralKey(w)
      [] rule = "stripe-secret-key"                    -> StripeSecretKey(w)
      [] rule = "stripe-webhook-secret"                -> StripeWebhookSecret(w)
      [] rule = "supabase-service-role-key"            -> SupabaseServiceRoleKey(w)
      [] rule = "terraform-cloud-api-token"            -> TerraformCloudAPIToken(w)
      [] rule = "twilio-api-key-sid"                   -> TwilioAPIKeySID(w)
      [] rule = "url-credentials"                      -> URLCredentials(w)
      [] rule = "vault-batch-token"                    -> VaultBatchToken(w)
      [] rule = "vault-service-token"                  -> VaultServiceToken(w)
      [] rule = "vercel-legacy-token"                  -> VercelLegacyToken(w)
      [] rule = "vercel-token"                         -> VercelToken(w)

----------------------------------------------------------------------------
OccurrenceEnd(o) == o.at + Len(o.trigger)

Occurrences(t) ==
    {[rule |-> h[1], trigger |-> h[2].word, at |-> h[2].at] :
        h \in {g \in (DOMAIN Rules) \X t.words : g[2].word \in Rules[g[1]].Triggers}}

(* The bytes [from, to) of the text, seen from the occurrence.             *)
View(t, o, from, to) ==
    [bytes     |-> SubSeq(t.bytes, from + 1, to),
     words     |-> {[h EXCEPT !.at = @ - from] :
                      h \in {g \in t.words : from <= g.at /\ g.at + Len(g.word) <= to}},
     trigStart |-> o.at - from,
     trigEnd   |-> OccurrenceEnd(o) - from,
     trigger   |-> o.trigger]

(* Faulty: the window begins with the trigger.                             *)
WindowStartAtTrigger(t, o) == o.at

(* Faulty: the lookahead is counted from where the trigger begins.         *)
WindowEndFromStart(t, o) == Min({Size(t), o.at + Rules[o.rule].MaxLookahead})

WindowStart(t, o) == Max({0, o.at - Rules[o.rule].MaxLookbehind})
WindowEnd(t, o)   == Min({Size(t), OccurrenceEnd(o) + Rules[o.rule].MaxLookahead})

(* What a validator says of the window [from, to), in the text's offsets.  *)
InText(from, span) == IF span = NoSpan THEN NoSpan ELSE Span(from + span.start, from + span.end)
Verdict(t, o, from, to) == InText(from, Validate(o.rule, View(t, o, from, to)))

InWindow(t, o)  == Verdict(t, o, WindowStart(t, o), WindowEnd(t, o))
InWhole(t, o)   == Verdict(t, o, 0, Size(t))

Init ==
    /\ text \in Texts
    /\ unasked = Occurrences(text)
    /\ answers = {}

Ask(o) ==
    /\ unasked' = unasked \ {o}
    /\ answers' = answers \cup {[occurrence |-> o, span |-> InWindow(text, o)]}
    /\ UNCHANGED text

Next == \E o \in unasked : Ask(o)

Spec == Init /\ [][Next]_vars

----------------------------------------------------------------------------
(* Rules whose credentials have no longest form, or one longer than the    *)
(* rule looks ahead; those of key blocks; and those that judge a place     *)
(* rather than a token, whose values another rule may claim as well.       *)
OpenEnded ==
    {"authorization-bearer", "command-line-password-flag", "cookie-session-token", "cursor-api-key",
     "generic-bearer-like-token-assignment", "jwt", "supabase-service-role-key", "url-credentials"}
KeyRules == {"pem-private-key", "putty-private-key"}
OfPlaces ==
    (OpenEnded \ {"cursor-api-key"}) \cup KeyRules \cup
    {"generic-api-key-assignment", "generic-password-assignment", "generic-secret-assignment"}

(* The longest value of the rules that look for one behind a name: any     *)
(* number of blanks may come before it.                                    *)
LongestValue ==
    [rule \in {"generic-api-key-assignment", "generic-password-assignment", "generic-secret-assignment"} |-> 128] @@
    [rule \in {"aws-secret-access-key", "buildkite-api-token", "cohere-api-key", "datadog-application-key",
               "deepgram-api-key"} |-> 40] @@
    "datadog-api-key" :> 32 @@ "vercel-legacy-token" :> 24

(* The window ends behind one of these bytes, and the text goes on.        *)
CutBehind(t, o, S) == WindowEnd(t, o) < Size(t) /\ At(t, WindowEnd(t, o) - 1) \in S

(* Those blanks leave room in the window for the longest value and the     *)
(* byte after it, which is not hidden by backslashes before a quote.       *)
ValueInSight(t, o) ==
    LET names  == {OccurrenceEnd(o)} \cup
                  (IF o.rule = "generic-secret-assignment" THEN {SkipWeakGap(t, OccurrenceEnd(o))} ELSE {})
        starts == {Opening(t, AfterName(t, p)).at : p \in names}
    IN  \/ WindowEnd(t, o) = Size(t)
        \/ /\ \A start \in starts : start + LongestValue[o.rule] < WindowEnd(t, o)
           /\ ~CutBehind(t, o, {"\\"})

(* No credential is judged differently for what the window leaves out: the *)
(* bytes a rule looks at hold every token it may confirm, and the byte     *)
(* that ends it, and what comes before it.  Of a value behind a name this  *)
(* holds while the blanks around the separator leave room for it: with     *)
(* more of them the code misses a value, or takes the end of the window    *)
(* for its end.                                                            *)
WindowSuffices ==
    \A a \in answers :
        /\ a.occurrence.rule \notin OpenEnded \cup KeyRules
        /\ a.occurrence.rule \in DOMAIN LongestValue => ValueInSight(text, a.occurrence)
        => a.span = InWhole(text, a.occurrence)

(* What tells the place is in the lookbehind: of a scheme its first byte,  *)
(* or else a letter where the lookbehind begins; of a cookie's pair the    *)
(* semicolon before it, or the header's name.                              *)
Lookbehind(o) == o.at - Rules[o.rule].MaxLookbehind
SchemeInSight(t, o) ==
    RunStart(t, o.at, SchemeChar) >= Lookbehind(o) \/ At(t, Lookbehind(o)) \in Letter
PairInSight(t, o) ==
    LET name == RunStart(t, o.at, CookieNameChar)
    IN  \/ Sees(t, name - 1, {";"}) /\ name - 1 >= Lookbehind(o)
        \/ Sees(t, name - 1, {" "}) /\ Sees(t, name - 2, {";"}) /\ name - 2 >= Lookbehind(o)
        \/ Has(t, Lookbehind(o), name, {"ookie"})
PlaceInSight(t, o) ==
    CASE o.rule = "url-credentials"                                            -> SchemeInSight(t, o)
      [] o.rule = "cookie-session-token" /\ At(t, OccurrenceEnd(o) - 1) = "="  -> PairInSight(t, o)
      [] OTHER                                                                 -> TRUE

(* A value without a bound on its length is confirmed whole when it ends   *)
(* within the window; one that the window cuts is confirmed up to there or *)
(* not at all, never from somewhere else.  This is of values whose place   *)
(* the lookbehind shows; a longer scheme or cookie name is judged by its   *)
(* last bytes, and refused.  A cut among blanks or backslashes may leave   *)
(* these out or in.                                                        *)
CutAtWindowEnd ==
    \A a \in answers :
        LET whole == InWhole(text, a.occurrence)
            limit == WindowEnd(text, a.occurrence)
        IN  /\ a.occurrence.rule \in OpenEnded /\ whole # NoSpan
            /\ PlaceInSight(text, a.occurrence) /\ ~CutBehind(text, a.occurrence, Blank \cup {"\\"})
            => /\ whole.end < limit => a.span = whole
               /\ whole.start < limit => a.span \in {NoSpan, Span(whole.start, Min({whole.end, limit}))}

(* A token that several rules are asked about (their triggers begin alike, *)
(* or one is part of another's token) is claimed by one of them: findings  *)
(* name the right provider.                                                *)
ClaimedOnce ==
    \A a, b \in answers :
        /\ {a.occurrence.rule, b.occurrence.rule} \cap OfPlaces = {}
        /\ a.span.start < b.span.end /\ b.span.start < a.span.end
        => a.occurrence.rule = b.occurrence.rule

(* A private key block leaves no line of key bytes in the clear: of those  *)
(* that the window shows, up to the END marker of a key, all are covered,   *)
(* with headers before them, line breaks raw or escaped, the END marker    *)
(* there or cut off.  So are those of a PuTTY file's private section.  A   *)
(* text that announces no private key, or shows no such line, is no key.   *)
(* In a PEM block this is up to the first byte that no body holds, and     *)
(* unless there is prose: more short words in a row than the scan bears.   *)
(* (An END marker is behind the body's start: one that shares the dashes   *)
(* of the BEGIN marker is none.)                                           *)
(* Key bytes are those that a text writes K.                               *)
Body(t, o) == IF o.rule = "pem-private-key" THEN LabelledMarkerEnd(t, OccurrenceEnd(o)) ELSE OccurrenceEnd(o)
Announced(t, o) ==
    IF o.rule = "pem-private-key" THEN Body(t, o) # NoMarker
    ELSE \E version \in {"2", "3"} : Reads(t, Body(t, o), version) /\ Sees(t, Body(t, o) + 1, {":"})
Foreign(t, o) == IF o.rule = "pem-private-key" THEN {p \in Body(t, o) .. Size(t) : ~BodyByte(t, p)} ELSE {}
Prose(t, from, to) ==
    LET long  == {run \in KeyRuns(t, from, to) : Plausible(run)}
        short == KeyRuns(t, from, to) \ long
    IN  \E first \in short :
            Cardinality({run \in short : /\ first.start <= run.start
                                         /\ ~\E line \in long : first.end <= line.start /\ line.end <= run.start})
              > PemMaxShortRuns
KeyLines(t, from, to, S) == {p \in from .. (to - PemPlausibleRun) : AllIn(t, p, p + PemPlausibleRun, S)}
KeyBlockCovered ==
    \A a \in answers : a.occurrence.rule \in KeyRules =>
        LET o    == a.occurrence
            ends == {p \in {h.at : h \in text.words} : p >= Body(text, o) /\ PemEndMarker(text, p) # NoMarker}
            stop == Min(ends \cup Foreign(text, o) \cup {Size(text)})
            to   == Min({stop, WindowEnd(text, o)})
        IN  IF Announced(text, o)
            THEN /\ KeyLines(text, Body(text, o), to, PemIsBase64) = {} => a.span = NoSpan
                 /\ ~Prose(text, Body(text, o), stop) =>
                       \A p \in KeyLines(text, Body(text, o), to, {"K"}) :
                           a.span.start <= p /\ p + PemPlausibleRun <= a.span.end
            ELSE a.span = NoSpan

(* Every pair of a cookie header whose name ends in one of the rule's      *)
(* words has its value covered, be it the first pair or the last of many,  *)
(* however far behind the colon.  Of a later pair the semicolon before its *)
(* name must be in the lookbehind of the word that ends it (the code       *)
(* misses longer names); of the first the value's end in the header's      *)
(* lookahead.                                                              *)
PairOfHeader(name, at, value) ==
    /\ Sees(text, name - 1, {" "})
    /\ \/ Sees(text, name - 2, {";"}) /\ at - (name - 2) <= Rules["cookie-session-token"].MaxLookbehind
       \/ /\ Reads(text, name - 8, "cookie:") /\ ~Sees(text, name - 9, Alnum)
          /\ value.end - (name - 1) <= Rules["cookie-session-token"].MaxLookahead
CookiePairsCovered ==
    unasked = {} =>
        \A h \in text.words :
            LET value == CookieValue(text, h.at + Len(h.word))
                name  == RunStart(text, h.at, CookieNameChar)
            IN  /\ h.word \in Rules["cookie-session-token"].Triggers /\ At(text, value.start - 1) = "="
                /\ PairOfHeader(name, h.at, value)
                /\ ~HasIn(text, Span(name, h.at), {"csrf"})
                /\ All(text, value, {"K"}) /\ value.end - value.start \in CookieValueMinLen .. 256
                => \E a \in answers : a.span = value

(* "token=" and the like take values of 16 to 256 bytes: such a value is   *)
(* redacted whole (it is not: the rule looks 200 bytes ahead).             *)
LooseTokensWhole ==
    \A a \in answers :
        a.occurrence.rule = "generic-bearer-like-token-assignment" =>
            InWhole(text, a.occurrence) \in {NoSpan, a.span}
=============================================================================
