------------------------------ MODULE Companies ------------------------------
(***************************************************************************)
(* CompaniesService: the operator creates, renames, suspends and removes   *)
(* companies.  A request is one READ COMMITTED transaction from the        *)
(* interceptor to the answer, so the scopes it opens are statements of it  *)
(* and it keeps its connection between them; each statement is a step.     *)
(* Rows and the index entries of domains are locked until the commit.      *)
(*                                                                         *)
(* Names are left out, as nothing depends on them, and so is the platform  *)
(* tenant, which requireCompany() and the DTOs keep out of all this.  The  *)
(* users of a company are in the Users module; here is the first ADMIN,    *)
(* created with it.                                                        *)
(***************************************************************************)
EXTENDS Naturals, FiniteSets

CONSTANTS
  Requests,   \* slots for concurrent requests of the operator
  Companies,  \* ids, each given to one company (a bound)
  Domains,    \* what the DTO lets through, so not "platform"
  PoolMax,    \* connections of the pool
  NoDomain,   \* the NULL of the column
  Keep,       \* a field the PATCH leaves out
  Unborn, Removed

VARIABLES
  company,  \* committed rows of tenants, Unborn or Removed
  req       \* each request: [stage, kind, id, domain, active, row]

vars == <<company, req>>

Company == [domain: Domains \cup {NoDomain}, active: BOOLEAN,
            counter: BOOLEAN, admin: BOOLEAN]
Exists(c) == company[c] \in Company
NoRow == {Unborn, Removed}
Stages == {"idle", "asked", "hashed", "found", "locked", "written"}
Request == [stage: Stages, kind: {"create", "update", "remove"}, id: Companies,
            domain: Domains \cup {NoDomain, Keep}, active: BOOLEAN \cup {Keep},
            row: Company \cup NoRow]

NoRowIsARow == NoRow \cap Company = {} /\ Unborn # Removed
ASSUME NoRowAssumption == NoRowIsARow
ASSUME KeepAssumption == Keep \notin Domains \cup {NoDomain} \cup BOOLEAN
ASSUME NoDomainAssumption == NoDomain \notin Domains
ASSUME CompaniesAssumption == Companies # {}
ASSUME PoolAssumption == PoolMax \in Nat \ {0}

Idle(c) == [stage |-> "idle", kind |-> "create", id |-> c, domain |-> NoDomain,
            active |-> Keep, row |-> Unborn]
AnyId == CHOOSE c \in Companies : TRUE

Init ==
  /\ company = [c \in Companies |-> Unborn]
  /\ req = [r \in Requests |-> Idle(AnyId)]

Busy == {r \in Requests : req[r].stage # "idle"}

Asks(r, kind, c, domain, active) ==
  /\ req[r].stage = "idle" /\ Cardinality(Busy) < PoolMax
  /\ req' = [req EXCEPT ![r] =
       [stage |-> "asked", kind |-> kind, id |-> c, domain |-> domain,
        active |-> active, row |-> Unborn]]
  /\ UNCHANGED company

\* An id is a fresh uuid; a domain is mandatory.
AcceptCreate(r) ==
  \E c \in Companies, d \in Domains :
    /\ company[c] = Unborn /\ \A q \in Busy : req[q].id # c
    /\ Asks(r, "create", c, d, TRUE)

\* IsOptional lets a null domain through as it does an absent one.
AcceptUpdate(r) ==
  \E c \in Companies, d \in Domains \cup {NoDomain, Keep}, a \in BOOLEAN \cup {Keep} :
    /\ company[c] # Unborn
    /\ Asks(r, "update", c, d, a)

AcceptRemove(r) ==
  \E c \in Companies : company[c] # Unborn /\ Asks(r, "remove", c, Keep, Keep)

----------------------------------------------------------------------------
Goes(r, stage, row) ==
  req' = [req EXCEPT ![r].stage = stage, ![r].row = row]
Ends(r) == req' = [req EXCEPT ![r] = Idle(@.id)]
Refuses(r) == Ends(r) /\ UNCHANGED company

\* The locks: of a row, from the UPDATE or DELETE to the commit; of a domain, by
\* whoever is about to take it or to free it.
Holders(r) == {q \in Requests \ {r} : req[q].stage \in {"locked", "written"}}
RowLocked(r) == \E q \in Holders(r) : req[q].id = req[r].id

Frees(q, d) ==
  /\ Exists(req[q].id) /\ company[req[q].id].domain = d
  /\ req[q].domain # Keep \/ req[q].kind = "remove"
Takes(q, d) == req[q].stage = "written" /\ req[q].row \in Company /\ req[q].row.domain = d

\* Mutant: uniqueness goes by committed rows only.
NeverLocked(r, d) == FALSE
DomainLocked(r, d) ==
  d # NoDomain /\ \E q \in Holders(r) : Frees(q, d) \/ Takes(q, d)
Taken(r, d) ==
  d # NoDomain
    /\ \E c \in Companies \ {req[r].id} : Exists(c) /\ company[c].domain = d

\* create(): the bcrypt hash, before any statement.
Hash(r) ==
  /\ req[r].stage = "asked" /\ req[r].kind = "create"
  /\ Goes(r, "hashed", Unborn)
  /\ UNCHANGED company

\* Mutant: the tenant is committed on its own.
CommittedAlone(r, row) == [company EXCEPT ![req[r].id] = row]
HeldBack(r, row) == company

\* INSERT of the tenant: waits for the index, then 409 on a domain that is taken.
InsertTenant(r) ==
  LET d == req[r].domain
      row == [domain |-> d, active |-> TRUE, counter |-> FALSE, admin |-> FALSE]
  IN  /\ req[r].stage = "hashed" /\ ~DomainLocked(r, d)
      /\ \/ Taken(r, d) /\ Refuses(r)
         \/ ~Taken(r, d) /\ Goes(r, "written", row) /\ company' = HeldBack(r, row)

InsertCounter(r) ==
  /\ req[r].stage = "written" /\ req[r].kind = "create" /\ ~req[r].row.counter
  /\ Goes(r, "written", [req[r].row EXCEPT !.counter = TRUE])
  /\ UNCHANGED company

InsertAdmin(r) ==
  /\ req[r].stage = "written" /\ req[r].kind = "create"
  /\ req[r].row.counter /\ ~req[r].row.admin
  /\ Goes(r, "written", [req[r].row EXCEPT !.admin = TRUE])
  /\ UNCHANGED company

\* requireCompany(): 404 for a company that is not there.
RequireCompany(r) ==
  /\ req[r].stage = "asked" /\ req[r].kind # "create"
  /\ \/ Exists(req[r].id) /\ Goes(r, "found", company[req[r].id]) /\ UNCHANGED company
     \/ ~Exists(req[r].id) /\ Refuses(r)

\* The UPDATE or DELETE gets the row, or fails because a DELETE was there first.
LockRow(r) ==
  /\ req[r].stage = "found" /\ ~RowLocked(r)
  /\ \/ Exists(req[r].id) /\ Goes(r, "locked", req[r].row) /\ UNCHANGED company
     \/ ~Exists(req[r].id) /\ Refuses(r)

\* Mutant: a field that was left out is written as undefined.
Undefined(asked, old) == asked
Or(asked, old) == IF asked = Keep THEN old ELSE asked
With(r, row) ==
  [row EXCEPT !.domain = Or(req[r].domain, @), !.active = Or(req[r].active, @)]
\* Mutant: the row requireCompany() returned is written back.
WrittenBack(r) == With(r, req[r].row)
\* Only the columns that were given.
Amended(r) == With(r, company[req[r].id])

WriteUpdate(r) ==
  LET d == req[r].domain
  IN  /\ req[r].stage = "locked" /\ req[r].kind = "update"
      /\ d = Keep \/ ~DomainLocked(r, d)
      /\ \/ Taken(r, d) /\ Refuses(r)
         \/ ~Taken(r, d) /\ Goes(r, "written", Amended(r)) /\ UNCHANGED company

WriteRemove(r) ==
  /\ req[r].stage = "locked" /\ req[r].kind = "remove"
  /\ Goes(r, "written", Removed)
  /\ UNCHANGED company

Commit(r) ==
  /\ req[r].stage = "written" /\ (req[r].kind = "create" => req[r].row.admin)
  /\ company' = [company EXCEPT ![req[r].id] = req[r].row]
  /\ Ends(r)

\* The 15 s timeout, a deadlock the database broke, a lost connection.
Abort(r) == req[r].stage # "idle" /\ Refuses(r)

Next ==
  \E r \in Requests :
    \/ AcceptCreate(r) \/ AcceptUpdate(r) \/ AcceptRemove(r)
    \/ Hash(r) \/ InsertTenant(r) \/ InsertCounter(r) \/ InsertAdmin(r)
    \/ RequireCompany(r) \/ LockRow(r) \/ WriteUpdate(r) \/ WriteRemove(r)
    \/ Commit(r) \/ Abort(r)

Spec == Init /\ [][Next]_vars

----------------------------------------------------------------------------
TypeOK ==
  /\ company \in [Companies -> Company \cup NoRow]
  /\ req \in [Requests -> Request]

\* A company that anybody can see has its ticket counter and an ADMIN: whatever fails
\* in between, a tenant is never there without them.
CompaniesAreComplete ==
  \A c \in Companies : Exists(c) => company[c].counter /\ company[c].admin

\* A domain names one company, so a login knows where to look, although requests take
\* and free domains at the same time.
DomainNamesOneCompany ==
  \A c, d \in Companies :
    /\ Exists(c) /\ Exists(d)
    /\ company[c].domain = company[d].domain /\ company[c].domain # NoDomain
    => c = d

\* What a request does not ask for it leaves alone: no rename lifts a suspension that
\* was ordered at the same time, and a company that was removed stays removed.
OnlyWhatWasAsked ==
  [][\A c \in Companies :
       /\ company[c] = Removed => company'[c] = Removed
       /\ Exists(c) /\ company'[c] # company[c] =>
            \E r \in Requests :
              /\ Commit(r) /\ req[r].id = c
              /\ company'[c] = Removed => req[r].kind = "remove"
              /\ company'[c] # Removed =>
                   /\ company'[c].active # company[c].active =>
                        req[r].active = company'[c].active
                   /\ company'[c].domain # company[c].domain =>
                        req[r].domain = company'[c].domain]_vars

\* Locks and transactions are invisible: the committed rows change as if each request
\* were one step of a register that checks its domain and writes at the same instant.
Registry == INSTANCE CompanyRegistry
ImplementsRegistry == Registry!Spec

----------------------------------------------------------------------------
\* Claims of the repository about this code.

\* companies.service.ts: hashing happens "outside the transaction on purpose", so that
\* a burst of creations does not exhaust the pool.
HashingLeavesConnections ==
  Cardinality(Busy) = PoolMax =>
    \E r \in Busy : ~(req[r].kind = "create" /\ req[r].stage = "asked")

\* create-company.dto.ts: "a company without one is a company nobody can sign in to".
EveryCompanyHasADomain ==
  \A c \in Companies : Exists(c) => company[c].domain # NoDomain
=============================================================================
