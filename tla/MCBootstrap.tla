----------------------------- MODULE MCBootstrap -----------------------------
(* Small instances of Bootstrap: environments that differ from the one of *)
(* .env.example in what validateEnv() looks at.                            *)
EXTENDS Bootstrap

Text(says, like, chars) == [says |-> says, like |-> like, chars |-> chars, bytes |-> chars]
Address(says, lower) ==
  [says |-> says, lower |-> lower, like |-> "email", chars |-> 13, bytes |-> 13]
Key(says) == Text(says, "any", 44)

Example ==
  [NODE_ENV |-> "development", PORT |-> 3000, REDIS_PORT |-> 6379,
   DATABASE_POOL_MAX |-> 10, BCRYPT_SALT_ROUNDS |-> 12, REPORTS_MAX_ROWS |-> 50000,
   DATABASE_URL |-> Text("owner", "postgres", 40),
   DATABASE_URL_APP |-> Text("app", "postgres", 40),
   JWT_EXPIRES_IN |-> Text("15m", "duration", 3),
   JWT_REFRESH_EXPIRES_IN |-> Text("7d", "duration", 2),
   ADMIN_MASTER_EMAIL |-> Address("Ops@nexus.dev", "ops@nexus.dev"),
   JWT_SECRET |-> Key("k1"), JWT_REFRESH_SECRET |-> Key("k2"),
   REDIS_HOST |-> Text("redis", "any", 5),
   ADMIN_MASTER_PASSWORD |-> Text(PlaceholderPassword, "any", 32)]

Deployed == [Example EXCEPT !.NODE_ENV = "production",
                            !.ADMIN_MASTER_PASSWORD = Text("secret", "any", 20)]

\* Those that pass, and some that must not.
Accepted == {Example, Deployed,
             [Deployed EXCEPT !.ADMIN_MASTER_EMAIL = Address("it@nexus.dev", "it@nexus.dev")]}
Rejected ==
  {[Example EXCEPT !.NODE_ENV = "production"],
   [Deployed EXCEPT !.JWT_SECRET = Key(PlaceholderSecret)],
   [Deployed EXCEPT !.JWT_REFRESH_SECRET = Deployed.JWT_SECRET],
   [Deployed EXCEPT !.DATABASE_URL_APP = Deployed.DATABASE_URL],
   [Example EXCEPT !.DATABASE_POOL_MAX = 0],
   [Example EXCEPT !.PORT = 65536],
   [Example EXCEPT !.BCRYPT_SALT_ROUNDS = 3],
   [Example EXCEPT !.JWT_SECRET = Text("k3", "any", 15)],
   [Example EXCEPT !.JWT_EXPIRES_IN = Text("15 minutes", "any", 10)],
   [Example EXCEPT !.REDIS_HOST = Missing],
   [Deployed EXCEPT !.ADMIN_MASTER_PASSWORD.bytes = 73]}
MCEnvironments == Accepted \cup Rejected
==============================================================================
