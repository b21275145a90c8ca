----------------------------- MODULE Configuration -----------------------------
(***************************************************************************)
(* Settings::from_env (config.rs): defaults, what an environment variable  *)
(* may say in their place, and the refusal to start on anything else.  An  *)
(* environment maps names to values; a name it leaves out is a variable    *)
(* that is unset or blank.  Times are in tenths of a second.               *)
(***************************************************************************)
EXTENDS Fields

CONSTANT Junk   \* a value no parser takes: no number, no boolean, no word it knows

\* Bound: stands for the largest value of an unsigned type, or of a time.
Huge == 2000000

\* The numbers: default, least and greatest value that is accepted.
Numbers ==
  [PORT                             |-> [default |-> 8000, least |-> 1, most |-> 65535],
   CACHE_HIT_COST_CENTS             |-> [default |-> 25, least |-> 0, most |-> Huge],
   CACHE_MISS_COST_CENTS            |-> [default |-> 50, least |-> 0, most |-> Huge],
   RATE_LIMIT_REQUESTS              |-> [default |-> 30, least |-> 1, most |-> Huge],
   RATE_LIMIT_WINDOW_SECONDS        |-> [default |-> 60, least |-> 1, most |-> Huge],
   MAX_REQUEST_BODY_BYTES           |-> [default |-> 16384, least |-> 1, most |-> 1048576],
   REQUEST_TIMEOUT_SECONDS          |-> [default |-> 200, least |-> 0, most |-> Huge],
   MAX_RETRIES                      |-> [default |-> 3, least |-> 0, most |-> 10],
   RETRY_BACKOFF_SECONDS            |-> [default |-> 15, least |-> 0, most |-> Huge],
   UPSTREAM_MIN_INTERVAL_SECONDS    |-> [default |-> 12, least |-> 0, most |-> Huge],
   UPSTREAM_JITTER_SECONDS          |-> [default |-> 6, least |-> 0, most |-> Huge],
   UPSTREAM_MAX_CONCURRENCY         |-> [default |-> 4, least |-> 1, most |-> 64],
   CIRCUIT_BREAKER_THRESHOLD        |-> [default |-> 4, least |-> 1, most |-> 100],
   CIRCUIT_BREAKER_COOLDOWN_SECONDS |-> [default |-> 900, least |-> 0, most |-> Huge],
   CACHE_TTL_SECONDS                |-> [default |-> 86400, least |-> 0, most |-> Huge],
   CACHE_MAX_ENTRIES                |-> [default |-> 512, least |-> 1, most |-> 1000000]]

\* The words and booleans: the default, and what is accepted.
Options ==
  [ENVIRONMENT          |-> [default |-> "development",
                             from |-> {"development", "staging", "production"}],
   LOG_FORMAT           |-> [default |-> "console", from |-> {"console", "json"}],
   LOG_LEVEL            |-> [default |-> "info", from |-> {"info", "debug"}],
   PROXY_URL            |-> [default |-> "none", from |-> {"http", "socks5"}],
   BILLING_ENABLED      |-> [default |-> "no", from |-> {"yes", "no"}],
   EXPOSE_RAW_ENDPOINT  |-> [default |-> "no", from |-> {"yes", "no"}],
   ALLOW_PASSWORD_LOGIN |-> [default |-> "no", from |-> {"yes", "no"}],
   CACHE_PERSIST        |-> [default |-> "yes", from |-> {"yes", "no"}]]

\* Texts that are taken as they are: credentials, and the keys of clients.
Texts == {"API_KEYS", "LINKEDIN_LI_AT", "LINKEDIN_COOKIE_HEADER", "LINKEDIN_EMAIL",
          "LINKEDIN_PASSWORD"}

Variables == DOMAIN Numbers \cup DOMAIN Options \cup Texts

-----------------------------------------------------------------------------

NumberOf(env, n) == IF n \in DOMAIN env THEN env[n] ELSE Numbers[n].default
ChoiceOf(env, n) == IF n \in DOMAIN env THEN env[n] ELSE Options[n].default

InRange(env, n) == env[n] # Junk /\ env[n] \in Numbers[n].least..Numbers[n].most

\* Every variable that is set is checked, and the two costs, set or not, are
\* compared.  (A negative timeout is a panic, which is no start either.)
Accepts(env) ==
  /\ \A n \in DOMAIN env \cap DOMAIN Numbers : InRange(env, n)
  /\ \A n \in DOMAIN env \cap DOMAIN Options : env[n] \in Options[n].from
  /\ NumberOf(env, "CACHE_HIT_COST_CENTS") <= NumberOf(env, "CACHE_MISS_COST_CENTS")

FromEnv(env) ==
  [numbers |-> [n \in DOMAIN Numbers |-> NumberOf(env, n)],
   choices |-> [n \in DOMAIN Options |-> ChoiceOf(env, n)],
   texts   |-> Texts \cap DOMAIN env]

-----------------------------------------------------------------------------
(* What the client makes of them: attempts at a call, and the waits        *)
(* between them (client.rs)                                                *)

Attempts(s) == IF s.numbers["MAX_RETRIES"] = 0 THEN 1 ELSE s.numbers["MAX_RETRIES"]


\* The wait after an attempt: the setting doubled each time, and a jitter below the
\* setting.  There is no jitter below zero: drawing it is a panic, None here.
Backoff(s, attempt) ==
  LET base == s.numbers["RETRY_BACKOFF_SECONDS"]
  IN  IF base = 0 THEN None
      ELSE [least |-> base * 2^(attempt - 1), below |-> base * 2^(attempt - 1) + base]

=============================================================================
