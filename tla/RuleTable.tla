----------------------------- MODULE RuleTable -----------------------------
(***************************************************************************)
(* The built-in rules (internal/rules/zz_generated_rules.go): for each     *)
(* the literals that trigger it, and how many bytes before and after one   *)
(* its validator is given to look at.  In the source's order.              *)
(***************************************************************************)
EXTENDS Integers, TLC

Rule(MaxLookbehind, MaxLookahead, Triggers) ==
    [MaxLookbehind |-> MaxLookbehind, MaxLookahead |-> MaxLookahead, Triggers |-> Triggers]

RulesFromAnthropic ==
    "anthropic-api-key" :> Rule(8, 150, {"sk-ant-"}) @@
    "authorization-bearer" :> Rule(2, 512, {"authorization:", "proxy-authorization:"}) @@
    "aws-access-key-id" :> Rule(1, 18, {"AKIA", "ASIA", "ABIA", "ACCA"}) @@
    "aws-bedrock-long-lived-api-key" :> Rule(0, 280, {"ABSKQmVkcm9ja0FQSUtleS"}) @@
    "aws-bedrock-short-lived-api-key" :> Rule(0, 4200, {"bedrock-api-key-YmVkcm9jay5hbWF6b25hd3MuY29t"}) @@
    "aws-secret-access-key" :> Rule(0, 80, {"aws_secret_access_key"}) @@
    "azure-app-configuration-secret" :> Rule(0, 60, {"Secret="}) @@
    "azure-servicebus-sas-key" :> Rule(0, 60, {"SharedAccessKey="}) @@
    "azure-storage-account-key" :> Rule(0, 100, {"AccountKey="}) @@
    "buildkite-api-token" :> Rule(0, 60, {"BUILDKITE_API_TOKEN", "BUILDKITE_AGENT_TOKEN"}) @@
    "cerebras-api-key" :> Rule(1, 75, {"csk-"}) @@
    "circleci-token" :> Rule(0, 70, {"CCIPAT_", "CCIPRJ_"})

RulesFromCohere ==
    "cohere-api-key" :> Rule(0, 60, {"CO_API_KEY", "COHERE_API_KEY"}) @@
    "command-line-password-flag" :> Rule(2, 200,
      {"--password", "--passwd", "--token", "--api-key", "--secret"}) @@
    "cookie-session-token" :> Rule(60, 400,
      {"cookie:", "set-cookie:", "session=", "sessionid=", "sid=", "token=", "jwt=", "auth="}) @@
    "cursor-api-key" :> Rule(1, 550, {"crsr_"}) @@
    "datadog-api-key" :> Rule(0, 50, {"DD_API_KEY"}) @@
    "datadog-application-key" :> Rule(0, 60, {"DD_APP_KEY"}) @@
    "deepgram-api-key" :> Rule(0, 60, {"DEEPGRAM_API_KEY"}) @@
    "deepseek-api-key" :> Rule(1, 40, {"sk-"}) @@
    "dockerhub-oat" :> Rule(1, 128, {"dckr_oat_"}) @@
    "dockerhub-pat" :> Rule(1, 128, {"dckr_pat_"}) @@
    "doppler-token" :> Rule(1, 90,
      {"dp.st.", "dp.pt.", "dp.ct.", "dp.sa.", "dp.said.", "dp.scim.", "dp.audit."})

RulesFromGCP ==
    "gcp-api-key" :> Rule(1, 37, {"AIza"}) @@
    "generic-api-key-assignment" :> Rule(2, 200,
      {"api_key", "apikey", "api-key", "access_token", "auth_token", "client_secret",
       "secret_key", "secret_key_base", "session_secret", "private_token"}) @@
    "generic-bearer-like-token-assignment" :> Rule(2, 200, {"token"}) @@
    "generic-password-assignment" :> Rule(2, 200, {"password", "passwd", "pwd"}) @@
    "generic-secret-assignment" :> Rule(1, 170,
      {"key", "secret", "auth", "access", "credential", "creds"}) @@
    "github-app-token" :> Rule(1, 48, {"ghu_", "ghs_"}) @@
    "github-fine-grained-pat" :> Rule(1, 96, {"github_pat_"}) @@
    "github-oauth-token" :> Rule(1, 48, {"gho_"}) @@
    "github-pat" :> Rule(1, 64, {"ghp_"}) @@
    "github-refresh-token" :> Rule(1, 48, {"ghr_"}) @@
    "gitlab-deploy-token" :> Rule(1, 64, {"gldt-"})

RulesFromGitLabFeed ==
    "gitlab-feed-token" :> Rule(1, 30, {"glft-"}) @@
    "gitlab-feed-token-v2" :> Rule(1, 100, {"glft-"}) @@
    "gitlab-pat" :> Rule(1, 64, {"glpat-"}) @@
    "gitlab-pipeline-trigger-token" :> Rule(1, 55, {"glptt-"}) @@
    "gitlab-runner-token" :> Rule(1, 64, {"glrt-"}) @@
    "grafana-cloud-access-policy-token" :> Rule(1, 420, {"glc_"}) @@
    "grafana-service-account-token" :> Rule(1, 45, {"glsa_"}) @@
    "groq-api-key" :> Rule(1, 56, {"gsk_"}) @@
    "huggingface-token" :> Rule(1, 36, {"hf_"}) @@
    "jwt" :> Rule(1, 8192, {"eyJ"}) @@
    "linear-api-key" :> Rule(1, 80, {"lin_api_"}) @@
    "notion-internal-token" :> Rule(1, 80, {"secret_", "ntn_"})

RulesFromNpm ==
    "npm-access-token" :> Rule(1, 48, {"npm_"}) @@
    "openai-legacy-key" :> Rule(1, 52, {"sk-"}) @@
    "openai-project-key" :> Rule(8, 210, {"sk-proj-", "sk-svcacct-", "sk-admin-"}) @@
    "pem-private-key" :> Rule(0, 16384, {"-----BEGIN "}) @@
    "putty-private-key" :> Rule(0, 16384, {"PuTTY-User-Key-File-"}) @@
    "pypi-api-token" :> Rule(1, 320, {"pypi-"}) @@
    "sendgrid-api-key" :> Rule(1, 80, {"SG."}) @@
    "slack-app-token" :> Rule(1, 120, {"xapp-"}) @@
    "slack-bot-token" :> Rule(1, 96, {"xoxb-"}) @@
    "slack-user-token" :> Rule(1, 100, {"xoxp-", "xoxa-", "xoxr-", "xoxs-"}) @@
    "stripe-ephemeral-key" :> Rule(1, 170, {"ek_live_", "ek_test_"})

RulesFromStripeSecret ==
    "stripe-secret-key" :> Rule(1, 110, {"sk_live_", "sk_test_", "rk_live_", "rk_test_"}) @@
    "stripe-webhook-secret" :> Rule(1, 80, {"whsec_"}) @@
    "supabase-service-role-key" :> Rule(1, 8192, {"eyJ"}) @@
    "terraform-cloud-api-token" :> Rule(16, 90, {".atlasv1."}) @@
    "twilio-api-key-sid" :> Rule(1, 48, {"SK"}) @@
    "url-credentials" :> Rule(16, 200, {"://"}) @@
    "vault-batch-token" :> Rule(1, 330, {"hvb."}) @@
    "vault-service-token" :> Rule(1, 170, {"hvs."}) @@
    "vercel-legacy-token" :> Rule(0, 40, {"VERCEL_TOKEN", "VERCEL_API_TOKEN", "VERCEL_ACCESS_TOKEN"}) @@
    "vercel-token" :> Rule(1, 85, {"vcp_", "vci_", "vca_", "vcr_", "vck_"})

Rules == RulesFromAnthropic @@ RulesFromCohere @@ RulesFromGCP @@
         RulesFromGitLabFeed @@ RulesFromNpm @@ RulesFromStripeSecret
=============================================================================
