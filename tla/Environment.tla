----------------------------- MODULE Environment -----------------------------
(***************************************************************************)
(* validateEnv(): which environments the process starts with.              *)
(*                                                                         *)
(* A configuration maps each variable to Missing, to a number, to the name *)
(* of a NodeEnv, or to a text [says, like, chars, bytes]: what it says,    *)
(* the pattern it matches ("postgres", "duration", "email" or "any") and   *)
(* its length, in characters and in bytes.  An address has a `lower` too:  *)
(* what it says in lower case.                                             *)
(***************************************************************************)
EXTENDS Naturals

CONSTANTS
  Missing,
  PlaceholderSecret,   \* what .env.example says, which is public
  PlaceholderPassword

BCRYPT_MAX_BYTES == 72

NodeEnv == {"development", "test", "production"}

\* @IsInt, @Min, @Max, after the coercion of strings.
Ranges ==
  [PORT |-> 1 .. 65535, REDIS_PORT |-> 1 .. 65535, DATABASE_POOL_MAX |-> 1 .. 1000,
   BCRYPT_SALT_ROUNDS |-> 4 .. 31, REPORTS_MAX_ROWS |-> 1 .. 1000000]

\* @Matches and @IsEmail; @MinLength.
Patterns ==
  [DATABASE_URL |-> "postgres", DATABASE_URL_APP |-> "postgres",
   JWT_EXPIRES_IN |-> "duration", JWT_REFRESH_EXPIRES_IN |-> "duration",
   ADMIN_MASTER_EMAIL |-> "email"]
Lengths ==
  [JWT_SECRET |-> 16, JWT_REFRESH_SECRET |-> 16, REDIS_HOST |-> 1,
   ADMIN_MASTER_PASSWORD |-> 8]

Set(config, v) == config[v] # Missing
Says(config, v, text) == Set(config, v) /\ config[v].says = text
Same(config, v, w) == Set(config, v) /\ Set(config, w) /\ config[v].says = config[w].says

\* What the decorators of EnvironmentVariables refuse.
Malformed(config) ==
  {v \in {"NODE_ENV"} : config[v] \notin NodeEnv}
    \cup {v \in DOMAIN Ranges : config[v] \notin Ranges[v]}
    \cup {v \in DOMAIN Patterns : ~(Set(config, v) /\ config[v].like = Patterns[v])}
    \cup {v \in DOMAIN Lengths : ~(Set(config, v) /\ config[v].chars >= Lengths[v])}
    \cup {v \in {"ADMIN_MASTER_PASSWORD"} :
            Set(config, v) /\ config[v].bytes > BCRYPT_MAX_BYTES}

\* What production refuses: a value that everybody can read.
Published(config) ==
  {v \in {"JWT_SECRET", "JWT_REFRESH_SECRET"} : Says(config, v, PlaceholderSecret)}
    \cup {v \in {"ADMIN_MASTER_PASSWORD"} : Says(config, v, PlaceholderPassword)}

\* Pairs that must differ.
Confused(config) ==
  {v \in {"DATABASE_URL_APP"} : Same(config, v, "DATABASE_URL")}
    \cup {v \in {"JWT_REFRESH_SECRET"} : Same(config, v, "JWT_SECRET")}

\* The variables it throws about.
Problems(config) ==
  Malformed(config) \cup Confused(config)
    \cup {v \in Published(config) : config.NODE_ENV = "production"}

\* Mutant: the checks of one variable at a time are enough.
WellFormed(config) == Malformed(config) = {}
validateEnv(config) == Problems(config) = {}
==============================================================================
