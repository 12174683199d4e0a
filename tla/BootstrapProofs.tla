--------------------------- MODULE BootstrapProofs ---------------------------
(***************************************************************************)
(* Theorems about Bootstrap, for any instances, environments and bounds.   *)
(* Those about what .env says hold where nobody edits it while an instance *)
(* boots: BootstrapRolling.cfg shows what happens otherwise.               *)
(***************************************************************************)
EXTENDS Bootstrap, TLAPS

\* Every instance that is not off read the .env there is.
ConfigsOK == \A b \in Boots : boot[b].stage # "off" => boot[b].config = env

\* What an operator that was found may have become: the other boots can only have
\* brought it nearer to .env.
Follows(o, existing) ==
  /\ o.by = existing.by
  /\ o.email \in {existing.email, Email(env)}
  /\ o.password \in {existing.password, Password(env)}
  /\ existing.active => o.active
FoundOK ==
  \A b \in Boots : boot[b].stage = "found" /\ boot[b].existing # NoOperator =>
    \E o \in operators : Follows(o, boot[b].existing)

\* Once an instance is up, the operator is the one in .env.
ServedOK ==
  \A b \in Boots : boot[b].stage = "up" => \A o \in operators : Obeys(o, env)

TypeInv == TypeOK /\ \A b \in Boots : boot[b].stage # "off" => boot[b].config \in Valid
Inv == TypeInv /\ AtMostOneOperator /\ ConfigsOK /\ FoundOK /\ ServedOK

----------------------------------------------------------------------------
LEMMA GoesKeepsTypes ==
  ASSUME TypeInv, NEW b \in Boots, boot[b].stage # "off", NEW stage \in Stages,
         NEW existing \in Operator \cup {NoOperator}, Goes(b, stage, existing)
  PROVE  /\ boot' \in [Boots -> [stage: Stages, config: Valid \cup {Missing},
                                 existing: Operator \cup {NoOperator}]]
         /\ boot'[b] = At(b, stage, existing)
         /\ \A c \in Boots \ {b} : boot'[c] = boot[c]
         /\ \A c \in Boots : boot'[c].stage # "off" => boot'[c].config \in Valid
<1>1. boot' = [boot EXCEPT ![b] = At(b, stage, existing)]
  BY DEF Goes
<1>2. At(b, stage, existing) \in [stage: Stages, config: Valid,
                                  existing: Operator \cup {NoOperator}]
  BY DEF TypeInv, TypeOK, At
<1>3. QED BY <1>1, <1>2 DEF TypeInv, TypeOK

LEMMA DiesKeepsTypes ==
  ASSUME TypeInv, NEW b \in Boots, Dies(b)
  PROVE  /\ boot' \in [Boots -> [stage: Stages, config: Valid \cup {Missing},
                                 existing: Operator \cup {NoOperator}]]
         /\ boot'[b] = Off
         /\ \A c \in Boots \ {b} : boot'[c] = boot[c]
         /\ \A c \in Boots : boot'[c].stage # "off" => boot'[c].config \in Valid
<1>1. Off \in [stage: Stages, config: Valid \cup {Missing},
               existing: Operator \cup {NoOperator}]
  BY DEF Off, Stages
<1>2. QED BY <1>1 DEF TypeInv, TypeOK, Dies, Off

LEMMA StartDoes ==
  ASSUME TypeInv, NEW b \in Boots, Start(b)
  PROVE  /\ boot[b].stage = "off"
         /\ boot'[b].stage = "started" /\ boot'[b].config = env
         /\ UNCHANGED <<env, operators>>
<1>1. boot'[b] = [Off EXCEPT !.stage = "started", !.config = env]
  BY DEF TypeInv, TypeOK, Start
<1>2. QED BY <1>1 DEF Start, Off

\* Where a boot stands after each of its steps.
LEMMA GoesOn ==
  ASSUME TypeInv, NEW b \in Boots,
         EnsurePlatformTenant(b) \/ FindOperator(b) \/ CreateOperator(b)
           \/ KeepOperator(b) \/ UpdateOperator(b)
  PROVE  /\ boot[b].stage # "off" /\ env' = env
         /\ boot'[b].stage # "off" => boot'[b].config = boot[b].config
         /\ EnsurePlatformTenant(b) =>
              boot'[b].stage = "tenant" /\ operators' = operators
         /\ FindOperator(b) =>
              /\ boot'[b].stage = "found" /\ operators' = operators
              /\ boot'[b].existing \in operators \cup {NoOperator}
         /\ CreateOperator(b) =>
              \/ IndexAdmits /\ boot'[b].stage = "up"
              \/ ~IndexAdmits /\ boot'[b].stage = "off" /\ operators' = operators
         /\ KeepOperator(b) => boot'[b].stage = "up" /\ operators' = operators
         /\ UpdateOperator(b) => boot'[b].stage = "up"
<1>1. boot[b].stage # "off" /\ env' = env
  BY DEF EnsurePlatformTenant, FindOperator, CreateOperator, KeepOperator, UpdateOperator,
         Goes, Dies
<1>2. ASSUME NEW stage \in Stages, NEW existing, Goes(b, stage, existing)
      PROVE  /\ boot'[b].stage = stage /\ boot'[b].config = boot[b].config
             /\ boot'[b].existing = existing
  <2>1. boot'[b] = At(b, stage, existing)
    BY <1>2 DEF TypeInv, TypeOK, Goes
  <2>2. QED BY <2>1 DEF At
<1>3. Dies(b) => boot'[b].stage = "off"
  BY DEF TypeInv, TypeOK, Dies, Off
<1>4. {"tenant", "found", "up"} \subseteq Stages
  BY DEF Stages
<1>5. EnsurePlatformTenant(b) =>
        /\ boot'[b].stage = "tenant" /\ boot'[b].config = boot[b].config
        /\ operators' = operators
  BY <1>2, <1>4 DEF EnsurePlatformTenant
<1>6. FindOperator(b) =>
        /\ boot'[b].stage = "found" /\ boot'[b].config = boot[b].config
        /\ operators' = operators /\ boot'[b].existing \in operators \cup {NoOperator}
  BY <1>2, <1>4 DEF FindOperator, Found
<1>7. CreateOperator(b) =>
        \/ /\ IndexAdmits /\ boot'[b].stage = "up" /\ boot'[b].config = boot[b].config
        \/ ~IndexAdmits /\ boot'[b].stage = "off" /\ operators' = operators
  BY <1>2, <1>3, <1>4 DEF CreateOperator
<1>8. KeepOperator(b) =>
        /\ boot'[b].stage = "up" /\ boot'[b].config = boot[b].config
        /\ operators' = operators
  BY <1>2, <1>4 DEF KeepOperator
<1>9. UpdateOperator(b) => boot'[b].stage = "up" /\ boot'[b].config = boot[b].config
  BY <1>2, <1>4 DEF UpdateOperator
<1>10. QED BY <1>1, <1>5, <1>6, <1>7, <1>8, <1>9

LEMMA BootEnds ==
  ASSUME TypeInv, NEW b \in Boots, Crash(b)
  PROVE  boot'[b].stage = "off" /\ UNCHANGED <<env, operators>>
BY DEF TypeInv, TypeOK, Crash, Dies, Off

\* The row that an INSERT writes, and the one an UPDATE leaves.
LEMMA WrittenOperator ==
  ASSUME NEW c \in Valid, NEW b \in Boots
  PROVE  [by |-> b, email |-> Email(c), password |-> Password(c), active |-> TRUE]
           \in Operator
BY DEF Operator

LEMMA RewrittenOperator ==
  \A c \in Valid, o \in Operator, existing \in Operator :
    LET row == Rewritten(o, existing, c)
    IN  /\ row \in Operator
        /\ row.by = o.by /\ row.email = Email(c) /\ row.active = TRUE
        /\ row.password =
             IF existing.password = Password(c) THEN o.password ELSE Password(c)
<1> SUFFICES ASSUME NEW c \in Valid, NEW o \in Operator, NEW existing \in Operator
             PROVE  LET row == Rewritten(o, existing, c)
                    IN  /\ row \in Operator
                        /\ row.by = o.by /\ row.email = Email(c) /\ row.active = TRUE
                        /\ row.password = IF existing.password = Password(c)
                                          THEN o.password ELSE Password(c)
  OBVIOUS
<1> DEFINE hash == IF existing.password = Password(c) THEN o.password ELSE Password(c)
<1>1. Rewritten(o, existing, c)
        = [o EXCEPT !.email = Email(c), !.active = TRUE, !.password = hash]
  BY DEF Rewritten
<1>2. hash \in {Password(d) : d \in Valid} /\ Email(c) \in {Email(d) : d \in Valid}
  BY DEF Operator
<1> HIDE DEF hash
<1>3. LET row == Rewritten(o, existing, c)
      IN  /\ row \in Operator
          /\ row.by = o.by /\ row.email = Email(c) /\ row.active = TRUE
          /\ row.password = hash
  BY <1>1, <1>2 DEF Operator
<1>4. QED BY <1>3 DEF hash

\* The edits: of .env, or of the row.
LEMMA EditsStop ==
  ASSUME TypeInv, Edits, ~RollingEdits
  PROVE  \A b \in Boots : boot'[b] = Off
BY DEF Edits

LEMMA EditsKeepTypes ==
  ASSUME TypeInv, Edits
  PROVE  /\ boot' \in [Boots -> [stage: Stages, config: Valid \cup {Missing},
                                 existing: Operator \cup {NoOperator}]]
         /\ \A c \in Boots : boot'[c].stage # "off" => boot'[c].config \in Valid
         /\ edits' \in 0 .. MaxEdits
         /\ UNCHANGED <<platform, crashes>>
<1>1. Off \in [stage: Stages, config: Valid \cup {Missing},
               existing: Operator \cup {NoOperator}] /\ Off.stage = "off"
  BY DEF Off, Stages
<1>2. edits' \in 0 .. MaxEdits
  BY BoundsAssumption DEF TypeInv, TypeOK, Edits
<1>3. QED BY <1>1, <1>2 DEF TypeInv, TypeOK, Edits

----------------------------------------------------------------------------
LEMMA InitInv == Init => Inv
<1> SUFFICES ASSUME Init PROVE Inv OBVIOUS
<1>1. Off \in [stage: Stages, config: Valid \cup {Missing},
               existing: Operator \cup {NoOperator}] /\ Off.stage = "off"
  BY DEF Off, Stages
<1>2. 0 \in 0 .. MaxEdits /\ 0 \in 0 .. MaxCrashes
  BY BoundsAssumption
<1>3. boot \in [Boots -> [stage: Stages, config: Valid \cup {Missing},
                         existing: Operator \cup {NoOperator}]]
  BY <1>1 DEF Init
<1>4. TypeInv
  BY <1>1, <1>2, <1>3 DEF Init, TypeInv, TypeOK
<1>5. QED
  BY <1>1, <1>4 DEF Init, Inv, AtMostOneOperator, ConfigsOK, FoundOK, ServedOK

LEMMA TypeInvStep == TypeInv /\ [Next]_vars => TypeInv'
<1> SUFFICES ASSUME TypeInv, [Next]_vars PROVE TypeInv' OBVIOUS
<1>1. ASSUME NEW b \in Boots, Start(b) PROVE TypeInv'
  <2>1. env \in Valid
    BY <1>1 DEF TypeInv, TypeOK, Start, Valid
  <2>2. [Off EXCEPT !.stage = "started", !.config = env]
          \in [stage: Stages, config: Valid, existing: Operator \cup {NoOperator}]
    BY <2>1 DEF Off, Stages
  <2>3. QED BY <1>1, <2>1, <2>2 DEF TypeInv, TypeOK, Start
<1>2. ASSUME NEW b \in Boots, EnsurePlatformTenant(b) PROVE TypeInv'
  BY <1>2, GoesKeepsTypes DEF EnsurePlatformTenant, Goes, TypeInv, TypeOK, Stages
<1>3. ASSUME NEW b \in Boots, FindOperator(b) PROVE TypeInv'
  <2>1. PICK o \in Operator \cup {NoOperator} : Goes(b, "found", o)
    BY <1>3 DEF FindOperator, Found, TypeInv, TypeOK
  <2>2. QED
    BY <1>3, <2>1, GoesKeepsTypes DEF FindOperator, Goes, TypeInv, TypeOK, Stages
<1>4. ASSUME NEW b \in Boots, CreateOperator(b) PROVE TypeInv'
  <2>1. CASE IndexAdmits
    <3>1. operators' \subseteq Operator
      BY <1>4, <2>1, WrittenOperator DEF CreateOperator, TypeInv, TypeOK
    <3>2. QED
      BY <1>4, <2>1, <3>1, GoesKeepsTypes DEF CreateOperator, Goes, TypeInv, TypeOK, Stages
  <2>2. CASE ~IndexAdmits
    BY <1>4, <2>2, DiesKeepsTypes DEF CreateOperator, Dies, TypeInv, TypeOK
  <2>3. QED BY <2>1, <2>2
<1>5. ASSUME NEW b \in Boots, KeepOperator(b) PROVE TypeInv'
  BY <1>5, GoesKeepsTypes DEF KeepOperator, Goes, TypeInv, TypeOK, Stages
<1>6. ASSUME NEW b \in Boots, UpdateOperator(b) PROVE TypeInv'
  <2>1. boot[b].existing \in Operator /\ boot[b].config \in Valid
    BY <1>6 DEF UpdateOperator, TypeInv, TypeOK
  <2>2. operators' \subseteq Operator
    <3>1. \A o \in operators :
            Rewritten(o, boot[b].existing, boot[b].config) \in Operator
      BY <2>1, RewrittenOperator DEF TypeInv, TypeOK
    <3>2. \A o \in operators' :
            \/ o \in operators
            \/ \E p \in operators : o = Rewritten(p, boot[b].existing, boot[b].config)
      BY <1>6 DEF UpdateOperator
    <3>3. QED BY <3>1, <3>2 DEF TypeInv, TypeOK
  <2>3. QED
    BY <1>6, <2>2, GoesKeepsTypes DEF UpdateOperator, Goes, TypeInv, TypeOK, Stages
<1>7. ASSUME NEW b \in Boots, Crash(b) PROVE TypeInv'
  <2>1. crashes' \in 0 .. MaxCrashes
    BY <1>7, BoundsAssumption DEF Crash, TypeInv, TypeOK
  <2>2. QED BY <1>7, <2>1, DiesKeepsTypes DEF Crash, Dies, TypeInv, TypeOK
<1>8. CASE EditEnv
  BY <1>8, EditsKeepTypes DEF EditEnv, TypeInv, TypeOK
<1>9. CASE Deactivate
  <2>1. \A o \in Operator : [o EXCEPT !.active = FALSE] \in Operator
    BY DEF Operator
  <2>2. operators' \subseteq Operator
    BY <1>9, <2>1 DEF Deactivate, TypeInv, TypeOK
  <2>3. QED BY <1>9, <2>2, EditsKeepTypes DEF Deactivate, TypeInv, TypeOK
<1>10. CASE UNCHANGED vars
  BY <1>10 DEF vars, TypeInv, TypeOK
<1>11. QED
  BY <1>1, <1>2, <1>3, <1>4, <1>5, <1>6, <1>7, <1>8, <1>9, <1>10
     DEF Next, Advance

\* Only an INSERT adds a row, and the index lets it in where there is none.
LEMMA OneOperatorStep ==
  AtMostOneOperator /\ [Next]_vars => AtMostOneOperator'
BY DEF AtMostOneOperator, Next, vars, Advance, Start, EnsurePlatformTenant, FindOperator,
       CreateOperator, IndexAdmits, KeepOperator, UpdateOperator, Crash,
       EditEnv, Deactivate

\* A boot changes no other, and does not come up except as these actions have it.
LEMMA AdvanceAlone ==
  ASSUME TypeInv, NEW b \in Boots, Advance(b) \/ Crash(b)
  PROVE  env' = env /\ \A c \in Boots \ {b} : boot'[c] = boot[c]
BY DEF TypeInv, TypeOK, Advance, Start, EnsurePlatformTenant, FindOperator,
       CreateOperator, KeepOperator, UpdateOperator, Crash, Goes, Dies

\* What .env says counts where nobody edits it while an instance boots.
LEMMA ConfigsStep ==
  ASSUME ~RollingEdits, TypeInv, ConfigsOK, [Next]_vars
  PROVE  ConfigsOK'
<1>1. ASSUME NEW b \in Boots, Advance(b) \/ Crash(b)
      PROVE  ConfigsOK'
  <2>1. boot'[b].stage # "off" =>
          \/ boot'[b].config = env
          \/ boot[b].stage # "off" /\ boot'[b].config = boot[b].config
    BY <1>1, StartDoes, GoesOn, BootEnds DEF Advance
  <2>2. QED BY <1>1, <2>1, AdvanceAlone DEF ConfigsOK
<1>2. CASE EditEnv \/ Deactivate
  BY <1>2, EditsStop DEF EditEnv, Deactivate, ConfigsOK, Off
<1>3. QED BY <1>1, <1>2 DEF Next, ConfigsOK, vars

\* A step of one boot that leaves the operators alone.
LEMMA BootAlone ==
  ASSUME TypeInv, FoundOK, ServedOK, NEW b \in Boots, UNCHANGED <<env, operators>>,
         \A c \in Boots \ {b} : boot'[c] = boot[c],
         boot'[b].stage = "found" /\ boot'[b].existing # NoOperator =>
           \E o \in operators : Follows(o, boot'[b].existing),
         boot'[b].stage = "up" => \A o \in operators : Obeys(o, env)
  PROVE  FoundOK' /\ ServedOK'
<1>1. FoundOK'
  BY DEF FoundOK, Follows
<1>2. ServedOK'
  BY DEF ServedOK
<1>3. QED BY <1>1, <1>2

\* A boot that finds an operator acts on the row as it is now.
LEMMA UpdateObeys ==
  ASSUME TypeInv, AtMostOneOperator, ConfigsOK, FoundOK, NEW b \in Boots,
         UpdateOperator(b)
  PROVE  \E o, p \in Operator :
           /\ operators = {o} /\ operators' = {p}
           /\ p.by = o.by /\ Obeys(p, env)
<1> DEFINE existing == boot[b].existing
           config == boot[b].config
<1>1. /\ config = env /\ config \in Valid
      /\ existing \in Operator /\ boot[b].stage = "found" /\ existing # NoOperator
  BY DEF UpdateOperator, TypeInv, TypeOK, ConfigsOK
<1>2. PICK o \in operators : Follows(o, existing)
  BY <1>1 DEF FoundOK
<1>3. operators = {o} /\ o \in Operator
  BY <1>2 DEF AtMostOneOperator, TypeInv, TypeOK
<1> DEFINE p == Rewritten(o, existing, config)
<1>4. operators' = {p}
  BY <1>2, <1>3 DEF UpdateOperator, Follows
<1>5. /\ p \in Operator /\ p.by = o.by
      /\ p.email = Email(env) /\ p.active = TRUE /\ p.password = Password(env)
  <2>1. o.password \in {existing.password, Password(env)}
    BY <1>2 DEF Follows
  <2>2. /\ p \in Operator /\ p.by = o.by /\ p.email = Email(config) /\ p.active = TRUE
        /\ p.password =
             IF existing.password = Password(config) THEN o.password ELSE Password(config)
    BY <1>1, <1>3, RewrittenOperator
  <2> HIDE DEF p
  <2>3. QED BY <1>1, <2>1, <2>2
<1>6. QED BY <1>3, <1>4, <1>5 DEF Obeys

LEMMA KeepObeys ==
  ASSUME AtMostOneOperator, ConfigsOK, FoundOK, NEW b \in Boots, KeepOperator(b)
  PROVE  /\ operators # {}
         /\ \A o \in operators : Obeys(o, env)
<1>1. boot[b].stage = "found" /\ boot[b].config = env
  BY DEF KeepOperator, ConfigsOK
<1>2. PICK o \in operators : Follows(o, boot[b].existing)
  BY <1>1 DEF KeepOperator, FoundOK
<1>3. Obeys(o, env)
  BY <1>1, <1>2 DEF KeepOperator, UpToDate, Follows, Obeys
<1>4. QED BY <1>2, <1>3 DEF AtMostOneOperator

LEMMA CreateObeys ==
  ASSUME ConfigsOK, NEW b \in Boots, CreateOperator(b), IndexAdmits
  PROVE  /\ operators = {} /\ operators' # {}
         /\ \A o \in operators' : Obeys(o, env)
<1>1. boot[b].config = env
  BY DEF CreateOperator, ConfigsOK
<1>2. operators = {}
  BY DEF IndexAdmits
<1>3. operators' = {[by |-> b, email |-> Email(env), password |-> Password(env),
                     active |-> TRUE]}
  BY <1>1, <1>2 DEF CreateOperator
<1>4. QED BY <1>2, <1>3 DEF Obeys

LEMMA ServedStep ==
  ASSUME ~RollingEdits, TypeInv, AtMostOneOperator, ConfigsOK, FoundOK, ServedOK,
         [Next]_vars
  PROVE  FoundOK' /\ ServedOK'
<1>1. ASSUME NEW b \in Boots, Start(b) \/ EnsurePlatformTenant(b) \/ Crash(b)
      PROVE  FoundOK' /\ ServedOK'
  <2>1. boot'[b].stage \notin {"found", "up"} /\ operators' = operators
    BY <1>1, StartDoes, GoesOn, BootEnds
  <2>2. QED BY <1>1, <2>1, AdvanceAlone, BootAlone DEF Advance
<1>2. ASSUME NEW b \in Boots, FindOperator(b) PROVE FoundOK' /\ ServedOK'
  <2>1. operators' = operators /\ boot'[b].stage = "found"
    BY <1>2, GoesOn
  <2>2. boot'[b].existing # NoOperator => boot'[b].existing \in operators
    BY <1>2, GoesOn
  <2>3. \A o \in operators : Follows(o, o)
    BY DEF Follows
  <2>4. QED BY <1>2, <2>1, <2>2, <2>3, AdvanceAlone, BootAlone DEF Advance
<1>3. ASSUME NEW b \in Boots, CreateOperator(b) PROVE FoundOK' /\ ServedOK'
  <2>1. CASE IndexAdmits
    <3>1. \A c \in Boots : boot[c].stage = "found" => boot[c].existing = NoOperator
      BY <1>3, <2>1, CreateObeys DEF FoundOK
    <3>2. boot'[b].stage = "up" /\ env' = env
      BY <1>3, <2>1, GoesOn
    <3>3. FoundOK'
      BY <1>3, <3>1, <3>2, AdvanceAlone DEF FoundOK, Advance
    <3>4. ServedOK'
      BY <1>3, <2>1, <3>2, CreateObeys DEF ServedOK, Obeys
    <3>5. QED BY <3>3, <3>4
  <2>2. CASE ~IndexAdmits
    <3>1. boot'[b].stage = "off" /\ operators' = operators
      BY <1>3, <2>2, GoesOn
    <3>2. QED BY <1>3, <3>1, AdvanceAlone, BootAlone DEF Advance
  <2>3. QED BY <2>1, <2>2
<1>4. ASSUME NEW b \in Boots, KeepOperator(b) PROVE FoundOK' /\ ServedOK'
  <2>1. boot'[b].stage = "up" /\ operators' = operators
    BY <1>4, GoesOn
  <2>2. QED BY <1>4, <2>1, KeepObeys, AdvanceAlone, BootAlone DEF Advance
<1>5. ASSUME NEW b \in Boots, UpdateOperator(b) PROVE FoundOK' /\ ServedOK'
  <2>1. PICK o \in Operator, p \in Operator :
          operators = {o} /\ operators' = {p} /\ p.by = o.by /\ Obeys(p, env)
    BY <1>5, UpdateObeys
  <2>2. boot'[b].stage = "up" /\ env' = env
    BY <1>5, GoesOn
  <2>3. FoundOK'
    <3>1. ASSUME NEW c \in Boots, boot'[c].stage = "found", boot'[c].existing # NoOperator
          PROVE  \E q \in operators' : Follows(q, boot[c].existing)'
      <4>1. boot'[c] = boot[c]
        BY <1>5, <2>2, <3>1, AdvanceAlone DEF Advance
      <4>2. Follows(o, boot[c].existing)
        BY <2>1, <3>1, <4>1 DEF FoundOK
      <4>3. p.by = boot'[c].existing.by
        BY <2>1, <4>1, <4>2 DEF Follows
      <4>4. QED BY <2>1, <2>2, <4>3 DEF Follows, Obeys
    <3>2. QED BY <3>1 DEF FoundOK
  <2>4. ServedOK'
    BY <2>1, <2>2 DEF ServedOK, Obeys
  <2>5. QED BY <2>3, <2>4
<1>6. CASE EditEnv \/ Deactivate
  <2>1. \A b \in Boots : boot'[b].stage = "off"
    BY <1>6, EditsStop DEF EditEnv, Deactivate, Off
  <2>2. QED BY <2>1 DEF FoundOK, ServedOK
<1>7. CASE UNCHANGED vars
  BY <1>7 DEF vars, FoundOK, Follows, ServedOK
<1>8. QED BY <1>1, <1>2, <1>3, <1>4, <1>5, <1>6, <1>7 DEF Next, Advance

LEMMA InvStep ==
  ASSUME ~RollingEdits, Inv, [Next]_vars
  PROVE  Inv'
BY TypeInvStep, OneOperatorStep, ConfigsStep, ServedStep DEF Inv

----------------------------------------------------------------------------
\* Whoever edits, crashes or boots at the same time, the rows are what the schema and
\* the environments that were accepted allow.
THEOREM TypeCorrect == Spec => []TypeOK
<1>1. Init => TypeInv
  BY InitInv DEF Inv
<1>2. TypeInv => TypeOK
  BY DEF TypeInv
<1>3. QED BY <1>1, <1>2, TypeInvStep, PTL DEF Spec

\* There is never a second ADMIN_MASTER, however many instances boot for the first
\* time at once, and whether or not .env changes under them.
THEOREM OneOperator == Spec => []AtMostOneOperator
<1>1. Init => AtMostOneOperator
  BY InitInv DEF Inv
<1>2. QED BY <1>1, OneOperatorStep, PTL DEF Spec

\* What an instance serves with was accepted by validateEnv, and what a boot found or
\* wrote is what ensureAdminMaster leaves: the invariant the next two follow from.
THEOREM BootInvariant ==
  ASSUME ~RollingEdits
  PROVE  Spec => []Inv
<1>1. Inv /\ [Next]_vars => Inv'
  BY InvStep
<1>2. QED BY <1>1, InitInv, PTL DEF Spec

\* What production refuses to start with, nothing in production runs with: neither in
\* the environment of an instance nor in the row the operator logs in with.
THEOREM AlwaysServesSafely ==
  ASSUME ~RollingEdits
  PROVE  Spec => []ServesSafely
<1>1. ASSUME Inv, NEW b \in Boots, boot[b].stage = "up",
             NEW config, config = boot[b].config
      PROVE  /\ config.DATABASE_URL_APP.says # config.DATABASE_URL.says
             /\ config.JWT_SECRET.says # config.JWT_REFRESH_SECRET.says
             /\ config.NODE_ENV = "production" =>
                  /\ PlaceholderSecret \notin
                       {config.JWT_SECRET.says, config.JWT_REFRESH_SECRET.says}
                  /\ \A o \in operators : o.password # PlaceholderPassword
  <2>1. config = env /\ Problems(config) = {}
    BY <1>1 DEF Inv, TypeInv, ConfigsOK, Valid, validateEnv
  <2>2. /\ Malformed(config) = {} /\ Confused(config) = {}
        /\ config.NODE_ENV = "production" => Published(config) = {}
    BY <2>1 DEF Problems
  <2>3. \A v \in {"DATABASE_URL", "DATABASE_URL_APP", "JWT_SECRET", "JWT_REFRESH_SECRET",
                  "ADMIN_MASTER_PASSWORD"} : Set(config, v)
    <3>1. \A v \in DOMAIN Patterns : Set(config, v)
      BY <2>2 DEF Malformed
    <3>2. \A v \in DOMAIN Lengths : Set(config, v)
      BY <2>2 DEF Malformed
    <3>3. QED BY <3>1, <3>2 DEF Patterns, Lengths
  <2>4. /\ ~Same(config, "DATABASE_URL_APP", "DATABASE_URL")
        /\ ~Same(config, "JWT_REFRESH_SECRET", "JWT_SECRET")
    BY <2>2 DEF Confused
  <2>5. config.NODE_ENV = "production" =>
          /\ ~Says(config, "JWT_SECRET", PlaceholderSecret)
          /\ ~Says(config, "JWT_REFRESH_SECRET", PlaceholderSecret)
          /\ ~Says(config, "ADMIN_MASTER_PASSWORD", PlaceholderPassword)
    BY <2>2 DEF Published
  <2>6. \A o \in operators : o.password = config.ADMIN_MASTER_PASSWORD.says
    BY <1>1, <2>1 DEF Inv, ServedOK, Obeys, Password
  <2>7. QED BY <2>3, <2>4, <2>5, <2>6 DEF Same, Says
<1>2. Inv => ServesSafely
  BY <1>1 DEF ServesSafely
<1>3. QED BY <1>2, BootInvariant, PTL

\* A boot that ends, ends with the operator that its environment names, although it
\* decided on a row that another boot may have rewritten.
THEOREM EnvAlwaysTakesEffect ==
  ASSUME ~RollingEdits
  PROVE  Spec => EnvTakesEffect
<1> DEFINE Effect ==
      \A b \in Boots : boot[b].stage # "up" /\ boot'[b].stage = "up" =>
        \E o \in operators' : Obeys(o, boot[b].config)
<1>1. ASSUME Inv, [Next]_vars PROVE [Effect]_vars
  <2> SUFFICES ASSUME NEW b \in Boots, boot[b].stage # "up", boot'[b].stage = "up"
               PROVE  \E o \in operators' : Obeys(o, boot[b].config)
    OBVIOUS
  <2>1. (CreateOperator(b) /\ IndexAdmits) \/ KeepOperator(b) \/ UpdateOperator(b)
    <3>1. ASSUME NEW c \in Boots, boot[c].stage # "up", boot'[c].stage = "up"
          PROVE  ~(Start(c) \/ EnsurePlatformTenant(c) \/ FindOperator(c)
                     \/ Crash(c))
      BY <1>1, <3>1, StartDoes, GoesOn, BootEnds DEF Inv
    <3>2. ~(EditEnv \/ Deactivate \/ UNCHANGED vars)
      BY <1>1, EditsStop DEF Inv, EditEnv, Deactivate, Off, vars
    <3>3. PICK c \in Boots : Advance(c) \/ Crash(c)
      BY <1>1, <3>2 DEF Next
    <3>4. b = c
      BY <1>1, <3>3, AdvanceAlone DEF Inv
    <3>5. CreateOperator(b) \/ KeepOperator(b) \/ UpdateOperator(b)
      BY <3>1, <3>3, <3>4 DEF Advance
    <3>6. CreateOperator(b) => IndexAdmits
      BY <1>1, GoesOn DEF Inv
    <3>7. QED BY <3>5, <3>6
  <2>2. boot[b].config = env
    BY <1>1, <2>1 DEF CreateOperator, KeepOperator, UpdateOperator, ConfigsOK, Inv
  <2>3. CASE CreateOperator(b) /\ IndexAdmits
    BY <1>1, <2>2, <2>3, CreateObeys DEF Inv
  <2>4. CASE KeepOperator(b)
    BY <1>1, <2>2, <2>4, KeepObeys DEF Inv, KeepOperator
  <2>5. CASE UpdateOperator(b)
    BY <1>1, <2>2, <2>5, UpdateObeys DEF Inv
  <2>6. QED BY <2>1, <2>3, <2>4, <2>5
<1>2. QED BY <1>1, BootInvariant, PTL DEF Spec, EnvTakesEffect
=============================================================================
