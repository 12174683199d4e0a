------------------------------ MODULE Bootstrap ------------------------------
(***************************************************************************)
(* PlatformBootstrapService: how the one ADMIN_MASTER comes to exist.      *)
(* Every instance reads and validates the environment (Environment) and    *)
(* runs ensureAdminMaster() when it boots, before it listens; instances    *)
(* may boot at the same time.  It is several                               *)
(* transactions, each a step here, with bcrypt between them; the partial   *)
(* unique index users_single_admin_master is what two boots that both      *)
(* found no operator meet.                                                 *)
(*                                                                         *)
(* External: whoever edits .env and restarts the instances, whoever        *)
(* deactivates the operator by hand (no route can), and the supervisor     *)
(* that starts a crashed instance again.  Unless RollingEdits, nobody      *)
(* edits anything while an instance is booting, and an edit restarts all.  *)
(***************************************************************************)
EXTENDS Environment, FiniteSets

CONSTANTS
  Boots,        \* the instances
  Environments, \* the configurations that .env is edited to
  RollingEdits, \* are there edits while instances boot?
  MaxEdits,     \* how often .env or the row is edited (a bound)
  MaxCrashes,   \* how often an instance dies or is replaced (a bound)
  NoOperator

VARIABLES
  env,        \* .env
  platform,   \* is there a tenant with is_platform?
  operators,  \* users with the role ADMIN_MASTER
  boot,       \* [stage, config, existing]: where each instance stands, the
              \* environment its ConfigService read, the operator it found
  edits, crashes

vars == <<env, platform, operators, boot, edits, crashes>>

\* What ensureAdminMaster() reads: the address in lower case, and the password.
Email(config) == config.ADMIN_MASTER_EMAIL.lower
Password(config) == config.ADMIN_MASTER_PASSWORD.says

Valid == {c \in Environments : validateEnv(c)}

\* by stands for the row's id: the instance that inserted it; a row's hash is the
\* password it was made of.
Operator == [by: Boots, email: {Email(c) : c \in Valid},
             password: {Password(c) : c \in Valid}, active: BOOLEAN]
Stages == {"off", "started", "tenant", "found", "up"}

NoOperatorIsNoRow == NoOperator \notin Operator
ASSUME NoOperatorAssumption == NoOperatorIsNoRow
ASSUME BoundsAssumption == MaxEdits \in Nat /\ MaxCrashes \in Nat

Off == [stage |-> "off", config |-> Missing, existing |-> NoOperator]
At(b, stage, existing) ==
  [stage |-> stage, config |-> boot[b].config, existing |-> existing]
Booting(b) == boot[b].stage \in {"started", "tenant", "found"}

Init ==
  /\ env \in Environments
  /\ platform = FALSE
  /\ operators = {}
  /\ boot = [b \in Boots |-> Off]
  /\ edits = 0 /\ crashes = 0

Goes(b, stage, existing) ==
  /\ boot' = [boot EXCEPT ![b] = At(b, stage, existing)]
  /\ UNCHANGED <<env, edits, crashes>>

Dies(b) ==
  /\ boot' = [boot EXCEPT ![b] = Off]
  /\ UNCHANGED <<env, edits>>

\* The process starts: ConfigModule reads .env, once, and refuses or keeps it.
Start(b) ==
  /\ boot[b].stage = "off" /\ validateEnv(env)
  /\ boot' = [boot EXCEPT ![b] = [Off EXCEPT !.stage = "started", !.config = env]]
  /\ UNCHANGED <<env, platform, operators, edits, crashes>>

\* The upsert on is_platform: the row is left alone if it is there.
EnsurePlatformTenant(b) ==
  /\ boot[b].stage = "started"
  /\ platform' = TRUE
  /\ Goes(b, "tenant", NoOperator)
  /\ UNCHANGED operators

\* Mutant: looked up by the address.
FoundByEmail(b) == {o \in operators : o.email = Email(boot[b].config)}
\* By role: whatever its address, deactivated or not.
Found(b) == operators

FindOperator(b) ==
  /\ boot[b].stage = "tenant"
  /\ \/ \E o \in Found(b) : Goes(b, "found", o)
     \/ Found(b) = {} /\ Goes(b, "found", NoOperator)
  /\ UNCHANGED <<platform, operators>>

\* Mutant: the index that prisma migrate dev offers to drop is gone.
NoIndex == TRUE
IndexAdmits == operators = {}

\* The INSERT, which the index may refuse; the refusal crashes the boot.
CreateOperator(b) ==
  /\ boot[b].stage = "found" /\ boot[b].existing = NoOperator
  /\ \/ /\ IndexAdmits
        /\ operators' = operators \cup
             {[by |-> b, email |-> Email(boot[b].config),
               password |-> Password(boot[b].config), active |-> TRUE]}
        /\ Goes(b, "up", NoOperator)
     \/ /\ ~IndexAdmits
        /\ Dies(b)
        /\ UNCHANGED <<operators, crashes>>
  /\ UNCHANGED platform

\* Mutant: a deactivated operator counts as up to date.
HasCredentials(o, config) == o.email = Email(config) /\ o.password = Password(config)
UpToDate(o, config) ==
  o.email = Email(config) /\ o.password = Password(config) /\ o.active

KeepOperator(b) ==
  /\ boot[b].stage = "found" /\ boot[b].existing # NoOperator
  /\ UpToDate(boot[b].existing, boot[b].config)
  /\ Goes(b, "up", NoOperator)
  /\ UNCHANGED <<platform, operators>>

\* The UPDATE by id: the hash is left out if the one that was found is current.
Rewritten(row, existing, config) ==
  [row EXCEPT !.email = Email(config), !.active = TRUE,
     !.password = IF existing.password = Password(config) THEN @ ELSE Password(config)]

UpdateOperator(b) ==
  LET existing == boot[b].existing
  IN  /\ boot[b].stage = "found" /\ existing # NoOperator
      /\ ~UpToDate(existing, boot[b].config)
      /\ operators' = {IF o.by = existing.by THEN Rewritten(o, existing, boot[b].config)
                                           ELSE o : o \in operators}
      /\ Goes(b, "up", NoOperator)
      /\ UNCHANGED platform

\* The instance dies or is replaced, while it boots or later.
Crash(b) ==
  /\ boot[b].stage # "off" /\ crashes < MaxCrashes
  /\ crashes' = crashes + 1
  /\ Dies(b)
  /\ UNCHANGED <<platform, operators>>

Edits ==
  /\ edits < MaxEdits
  /\ edits' = edits + 1
  /\ \/ RollingEdits /\ UNCHANGED boot
     \/ /\ ~RollingEdits /\ \A b \in Boots : ~Booting(b)
        /\ boot' = [b \in Boots |-> Off]
  /\ UNCHANGED <<platform, crashes>>

EditEnv == Edits /\ env' \in Environments /\ UNCHANGED operators

Deactivate ==
  /\ Edits
  /\ operators' = {[o EXCEPT !.active = FALSE] : o \in operators}
  /\ UNCHANGED env

Advance(b) ==
  \/ Start(b) \/ EnsurePlatformTenant(b) \/ FindOperator(b)
  \/ CreateOperator(b) \/ KeepOperator(b) \/ UpdateOperator(b)

Next ==
  \/ \E b \in Boots : Advance(b) \/ Crash(b)
  \/ EditEnv \/ Deactivate

Spec == Init /\ [][Next]_vars

\* A boot goes on, and an instance that died is started again.
Fairness == \A b \in Boots : WF_vars(Advance(b))
FairSpec == Spec /\ Fairness

----------------------------------------------------------------------------
TypeOK ==
  /\ env \in Environments
  /\ platform \in BOOLEAN
  /\ operators \subseteq Operator
  /\ boot \in [Boots -> [stage: Stages, config: Valid \cup {Missing},
                         existing: Operator \cup {NoOperator}]]
  /\ edits \in 0 .. MaxEdits /\ crashes \in 0 .. MaxCrashes

\* There is one ADMIN_MASTER at most, even when several first boots found none.
AtMostOneOperator == \A o, p \in operators : o = p

Obeys(o, config) ==
  o.email = Email(config) /\ o.password = Password(config) /\ o.active

\* An instance that comes up leaves the operator as its environment has it, and
\* active, although it decided what to write by a row that another boot may have
\* rewritten since.
EnvTakesEffect ==
  [][\A b \in Boots :
       boot[b].stage # "up" /\ boot'[b].stage = "up" =>
         \E o \in operators' : Obeys(o, boot[b].config)]_vars

\* Whatever .env said before and whoever died while it was put right: an instance that
\* serves is bound by the policies, does not take its refresh tokens for access
\* tokens, and in production nobody can sign a token or log in as the operator with
\* what .env.example says.
ServesSafely ==
  \A b \in Boots : boot[b].stage = "up" =>
    LET config == boot[b].config
    IN  /\ config.DATABASE_URL_APP.says # config.DATABASE_URL.says
        /\ config.JWT_SECRET.says # config.JWT_REFRESH_SECRET.says
        /\ config.NODE_ENV = "production" =>
             /\ PlaceholderSecret \notin
                  {config.JWT_SECRET.says, config.JWT_REFRESH_SECRET.says}
             /\ \A o \in operators : o.password # PlaceholderPassword

\* A boot that was interrupted or refused heals on a later start: in the end every
\* instance is up and the operator is the one in .env, if .env is valid.
BootsConverge ==
  <>[](validateEnv(env) =>
         /\ \A b \in Boots : boot[b].stage = "up"
         /\ \E o \in operators : Obeys(o, env))
=============================================================================
