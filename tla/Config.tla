------------------------------- MODULE Config -------------------------------
(***************************************************************************)
(* internal/config: what Load makes of the environment.  A variable's      *)
(* value is a record of what its text is, trimmed: nothing, a number (of   *)
(* the port, a knob, or a duration's seconds), a word that says yes or no, *)
(* an address of some kind, or any other text.                             *)
(***************************************************************************)
EXTENDS Integers

Required == {"DATABASE_URL", "VLLM_API_KEY", "JWT_SECRET", "VLLM_URL"}
Knobs == {"LOGIN_RATE_LIMIT_RPM", "LOGIN_RATE_LIMIT_BURST",
          "GATEWAY_RATE_LIMIT_RPM", "GATEWAY_RATE_LIMIT_BURST"}
EnvKeys == Required \cup Knobs \cup
  {"ENV", "LISTEN_ADDR", "PORT", "LOG_LEVEL", "AUTO_MIGRATE", "CORS_ALLOWED_ORIGINS", "SHUTDOWN_GRACE"}

Unset == [is |-> "empty", n |-> 0]
Text == [is |-> "text", n |-> 0]
Number(k) == [is |-> "number", n |-> k]
Flag(b) == [is |-> IF b THEN "true" ELSE "false", n |-> 0]
Address(kind) == [is |-> kind, n |-> 0]

(* An address is a URL with a host, of a scheme; a URL without a host; no  *)
(* URL at all though it has "://"; or a libpq keyword/value DSN, which has *)
(* no "://" and is any other text here.                                    *)
Schemes == {"http", "postgres", "other"}
Values == {"empty", "text", "number", "true", "false", "hostless", "garbled"} \cup Schemes

(* os.Getenv and TrimSpace. *)
IsSet(env, v) == env[v].is # "empty"

(* resolveListenAddr: PORT is not even looked at when LISTEN_ADDR is set. *)
BadPort(env) ==
  /\ ~ IsSet(env, "LISTEN_ADDR") /\ IsSet(env, "PORT")
  /\ ~ (env["PORT"].is = "number" /\ env["PORT"].n \in 1..65535)
ListenAddr(env) ==
  IF IsSet(env, "LISTEN_ADDR") THEN env["LISTEN_ADDR"]
  ELSE IF IsSet(env, "PORT") THEN env["PORT"] ELSE Number(8080)

(* requireNonEmpty, and the checks of the two addresses if they are there. *)
Missing(env) == {v \in Required : ~ IsSet(env, v)}

(* Mutant: The addresses checked only when nothing is missing. *)
BadURLsLast(env) ==
  IF Missing(env) # {} THEN {}
  ELSE {v \in {"VLLM_URL"} : IsSet(env, v) /\ env[v].is # "http"}
       \cup {v \in {"DATABASE_URL"} : env[v].is \in {"http", "other", "hostless", "garbled"}}

BadURLs(env) ==
  {v \in {"VLLM_URL"} : IsSet(env, v) /\ env[v].is # "http"}
  \cup {v \in {"DATABASE_URL"} : env[v].is \in {"http", "other", "hostless", "garbled"}}

(* parseBoolDefault (strconv.ParseBool takes 1 and 0 for true and false),  *)
(* parseIntDefault, parseDurationDefault.                                  *)
BadFlags(env) ==
  {v \in {"AUTO_MIGRATE"} : /\ IsSet(env, v) /\ env[v].is \notin {"true", "false"}
                            /\ ~ (env[v].is = "number" /\ env[v].n \in {0, 1})}
BadNumbers(env) ==
  {v \in Knobs \cup {"SHUTDOWN_GRACE"} : IsSet(env, v) /\ ~ (env[v].is = "number" /\ env[v].n >= 0)}

(* errors.Join: every offending variable, in one error. *)
Problems(env) ==
  (IF BadPort(env) THEN {"PORT"} ELSE {}) \cup Missing(env) \cup BadURLs(env)
  \cup BadFlags(env) \cup BadNumbers(env)

Default(v) ==
  IF v = "LOGIN_RATE_LIMIT_RPM" THEN 10 ELSE IF v = "LOGIN_RATE_LIMIT_BURST" THEN 5
  ELSE IF v = "GATEWAY_RATE_LIMIT_RPM" THEN 120 ELSE IF v = "GATEWAY_RATE_LIMIT_BURST" THEN 40 ELSE 10
Amount(env, v) == IF IsSet(env, v) THEN env[v].n ELSE Default(v)

Limit(env, who) ==
  IF who = "login" THEN [rpm |-> Amount(env, "LOGIN_RATE_LIMIT_RPM"), burst |-> Amount(env, "LOGIN_RATE_LIMIT_BURST")]
  ELSE [rpm |-> Amount(env, "GATEWAY_RATE_LIMIT_RPM"), burst |-> Amount(env, "GATEWAY_RATE_LIMIT_BURST")]

(* The parts of a Config that the rest of the process depends on. *)
Load(env) ==
  [addr |-> ListenAddr(env),
   autoMigrate |-> env["AUTO_MIGRATE"].is = "true" \/ env["AUTO_MIGRATE"] = Number(1),
   grace |-> Amount(env, "SHUTDOWN_GRACE"),
   login |-> Limit(env, "login"), gateway |-> Limit(env, "gateway")]

(* What RateLimit assumes of a limiter that is not disabled: it admits     *)
(* something, and its bucket fills within staleAfter (600 s).  The knobs   *)
(* are not checked against each other; their defaults are right.           *)
Sound(l) == l.rpm = 0 \/ (l.burst > 0 /\ l.burst * 60 <= 600 * l.rpm)
NoEnv == [v \in EnvKeys |-> Unset]
ASSUME DefaultsAreSound == Sound(Limit(NoEnv, "login")) /\ Sound(Limit(NoEnv, "gateway"))

(* The environment with each variable of V given a value that is right. *)
Right(v) ==
  IF v = "VLLM_URL" THEN Address("http") ELSE IF v = "DATABASE_URL" THEN Address("postgres")
  ELSE IF v \in Required THEN Text ELSE IF v = "AUTO_MIGRATE" THEN Flag(FALSE) ELSE Number(1)
Repaired(env, V) == [v \in EnvKeys |-> IF v \in V THEN Right(v) ELSE env[v]]
=============================================================================
