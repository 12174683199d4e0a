--------------------------- MODULE CompaniesProofs ---------------------------
(***************************************************************************)
(* Theorems about Companies, for any requests, companies, domains and size *)
(* of the pool.                                                            *)
(***************************************************************************)
EXTENDS Companies, TLAPS

Held(r) == req[r].stage \in {"locked", "written"}
Writes(r) == req[r].stage = "written" /\ req[r].kind # "remove"

\* The stages each kind of request goes through.
StagesOK ==
  \A r \in Requests :
    /\ req[r].stage = "hashed" => req[r].kind = "create"
    /\ req[r].stage \in {"found", "locked"} => req[r].kind # "create"
    /\ req[r].kind = "create" => req[r].domain \in Domains \cup {NoDomain}

\* The id of a company that is being created is known to nobody else.
IdsOK ==
  /\ \A r \in Busy : req[r].kind = "create" <=> company[req[r].id] = Unborn
  /\ \A r, q \in Busy :
       req[r].kind = "create" /\ req[q].kind = "create" /\ req[r].id = req[q].id => r = q

\* A row is locked by one request, and is there while it is.
LocksOK ==
  /\ \A r, q \in Requests : Held(r) /\ Held(q) /\ req[r].id = req[q].id => r = q
  /\ \A r \in Requests : Held(r) /\ req[r].kind # "create" => Exists(req[r].id)

\* What is written, and goes for the row that will be committed over.
WrittenOK ==
  \A r \in Requests : req[r].stage = "written" =>
    /\ req[r].kind = "remove" => req[r].row = Removed
    /\ req[r].kind # "remove" => req[r].row \in Company
    /\ req[r].kind = "create" /\ req[r].row.admin => req[r].row.counter
    /\ req[r].kind = "update" => req[r].row = Amended(r)

\* Nobody has the domain that a request has written, and nobody else has written it.
DomainsOK ==
  \A r \in Requests : Writes(r) /\ req[r].row.domain # NoDomain =>
    /\ \A c \in Companies \ {req[r].id} :
         Exists(c) => company[c].domain # req[r].row.domain
    /\ \A q \in Requests \ {r} : Writes(q) => req[q].row.domain # req[r].row.domain

Inv == /\ TypeOK /\ StagesOK /\ IdsOK /\ LocksOK /\ WrittenOK /\ DomainsOK
       /\ CompaniesAreComplete /\ DomainNamesOneCompany

----------------------------------------------------------------------------
LEMMA RequestFields ==
  ASSUME TypeOK, NEW r \in Requests
  PROVE  /\ req[r].stage \in Stages /\ req[r].kind \in {"create", "update", "remove"}
         /\ req[r].id \in Companies
         /\ req[r].domain \in Domains \cup {NoDomain, Keep}
         /\ req[r].active \in BOOLEAN \cup {Keep}
         /\ req[r].row \in Company \cup NoRow
         /\ company[req[r].id] \in Company \cup NoRow
BY DEF TypeOK, Request

LEMMA AmendedRow ==
  ASSUME TypeOK, NEW r \in Requests, Exists(req[r].id)
  PROVE  /\ Amended(r) \in Company
         /\ Amended(r).domain = Or(req[r].domain, company[req[r].id].domain)
         /\ Amended(r).active = Or(req[r].active, company[req[r].id].active)
         /\ Amended(r).counter = company[req[r].id].counter
         /\ Amended(r).admin = company[req[r].id].admin
<1>1. company[req[r].id] \in Company
  BY DEF Exists
<1>2. Or(req[r].domain, company[req[r].id].domain) \in Domains \cup {NoDomain}
  BY <1>1, RequestFields DEF Or, Company
<1>3. Or(req[r].active, company[req[r].id].active) \in BOOLEAN
  BY <1>1, RequestFields DEF Or, Company
<1>4. QED BY <1>1, <1>2, <1>3 DEF Amended, With, Company

\* The request of one slot changes, and no company.
Turns(r, new) == req' = [req EXCEPT ![r] = new] /\ company' = company

LEMMA TurnsTypes ==
  ASSUME TypeOK, NEW r \in Requests, NEW new \in Request, Turns(r, new)
  PROVE  /\ TypeOK'
         /\ req'[r] = new
         /\ \A q \in Requests \ {r} : req'[q] = req[q]
BY DEF TypeOK, Turns

LEMMA GoesTurns ==
  ASSUME TypeOK, NEW r \in Requests, NEW stage, NEW row, Goes(r, stage, row),
         company' = company
  PROVE  Turns(r, [req[r] EXCEPT !.stage = stage, !.row = row])
BY DEF TypeOK, Request, Goes, Turns

\* What a request would write depends on what it asks and on the row it is about.
LEMMA AmendedAlone ==
  ASSUME NEW r \in Requests,
         req'[r].id = req[r].id, req'[r].domain = req[r].domain,
         req'[r].active = req[r].active, company'[req[r].id] = company[req[r].id]
  PROVE  Amended(r)' = Amended(r)
BY DEF Amended, With, Or

LEMMA TurnsKeepCompanies ==
  ASSUME Inv, company' = company
  PROVE  CompaniesAreComplete' /\ DomainNamesOneCompany'
BY DEF Inv, CompaniesAreComplete, DomainNamesOneCompany, Exists

\* A request that is over holds nothing.
LEMMA EndsKeepsInv ==
  ASSUME Inv, NEW r \in Requests, Ends(r), company' = company
  PROVE  Inv'
<1> DEFINE new == Idle(req[r].id)
<1>1. new \in Request /\ new.stage = "idle" /\ new.kind = "create" /\ new.domain = NoDomain
  BY RequestFields DEF Inv, Idle, Request, Stages, NoRow
<1>2. TypeOK' /\ req'[r] = new /\ \A q \in Requests \ {r} : req'[q] = req[q]
  BY <1>1, TurnsTypes DEF Inv, Ends, Turns
<1> HIDE DEF new
<1>3. StagesOK'
  BY <1>1, <1>2 DEF Inv, StagesOK
<1>4. IdsOK'
  BY <1>1, <1>2 DEF Inv, IdsOK, Busy
<1>5. LocksOK'
  BY <1>1, <1>2 DEF Inv, LocksOK, Held, Exists
<1>6. WrittenOK'
  <2>1. \A q \in Requests \ {r} : Amended(q)' = Amended(q)
    BY <1>2, AmendedAlone
  <2>2. QED BY <1>1, <1>2, <2>1 DEF Inv, WrittenOK
<1>7. DomainsOK'
  BY <1>1, <1>2 DEF Inv, DomainsOK, Writes, Exists
<1>8. QED BY <1>2, <1>3, <1>4, <1>5, <1>6, <1>7, TurnsKeepCompanies DEF Inv

\* A request begins.
LEMMA AsksKeepsInv ==
  ASSUME Inv, NEW r \in Requests, NEW kind \in {"create", "update", "remove"},
         NEW c \in Companies, NEW domain \in Domains \cup {NoDomain, Keep},
         NEW active \in BOOLEAN \cup {Keep}, Asks(r, kind, c, domain, active),
         kind = "create" <=> company[c] = Unborn,
         kind = "create" => domain \in Domains /\ \A q \in Busy : req[q].id # c
  PROVE  Inv'
<1> DEFINE new == [stage |-> "asked", kind |-> kind, id |-> c, domain |-> domain,
                   active |-> active, row |-> Unborn]
<1>1. /\ new \in Request /\ new.stage = "asked" /\ new.kind = kind /\ new.id = c
      /\ new.domain = domain
  BY DEF Request, Stages, NoRow
<1>2. TypeOK' /\ req'[r] = new /\ \A q \in Requests \ {r} : req'[q] = req[q]
  BY <1>1, TurnsTypes DEF Inv, Asks, Turns
<1>3. req[r].stage = "idle" /\ company' = company
  BY DEF Asks
<1> HIDE DEF new
<1>4. StagesOK'
  BY <1>1, <1>2 DEF Inv, StagesOK
<1>5. IdsOK'
  BY <1>1, <1>2, <1>3 DEF Inv, IdsOK, Busy
<1>6. LocksOK'
  BY <1>1, <1>2, <1>3 DEF Inv, LocksOK, Held, Exists
<1>7. WrittenOK'
  <2>1. \A q \in Requests \ {r} : Amended(q)' = Amended(q)
    BY <1>2, <1>3, AmendedAlone
  <2>2. QED BY <1>1, <1>2, <1>3, <2>1 DEF Inv, WrittenOK
<1>8. DomainsOK'
  BY <1>1, <1>2, <1>3 DEF Inv, DomainsOK, Writes, Exists
<1>9. QED BY <1>2, <1>3, <1>4, <1>5, <1>6, <1>7, <1>8, TurnsKeepCompanies DEF Inv

\* A request goes on, without a lock yet.
LEMMA GoesKeepsInv ==
  ASSUME Inv, NEW r \in Requests, NEW stage \in {"hashed", "found"},
         NEW row \in Company \cup NoRow, Goes(r, stage, row), company' = company,
         req[r].stage = "asked",
         stage = "hashed" <=> req[r].kind = "create"
  PROVE  Inv'
<1> DEFINE new == [req[r] EXCEPT !.stage = stage, !.row = row]
<1>1. /\ new \in Request /\ new.stage = stage /\ new.kind = req[r].kind
      /\ new.id = req[r].id /\ new.domain = req[r].domain
  BY DEF Inv, TypeOK, Request, Stages
<1>2. TypeOK' /\ req'[r] = new /\ \A q \in Requests \ {r} : req'[q] = req[q]
  BY <1>1, TurnsTypes, GoesTurns DEF Inv
<1> HIDE DEF new
<1>3. StagesOK'
  BY <1>1, <1>2 DEF Inv, StagesOK
<1>4. IdsOK'
  BY <1>1, <1>2 DEF Inv, IdsOK, Busy
<1>5. LocksOK'
  BY <1>1, <1>2 DEF Inv, LocksOK, Held, Exists
<1>6. WrittenOK'
  <2>1. \A q \in Requests \ {r} : Amended(q)' = Amended(q)
    BY <1>2, AmendedAlone
  <2>2. QED BY <1>1, <1>2, <2>1 DEF Inv, WrittenOK
<1>7. DomainsOK'
  BY <1>1, <1>2 DEF Inv, DomainsOK, Writes, Exists
<1>8. QED BY <1>2, <1>3, <1>4, <1>5, <1>6, <1>7, TurnsKeepCompanies DEF Inv

\* A request gets a lock, or writes under the one it has.
LEMMA HoldsKeepsInv ==
  ASSUME Inv, NEW r \in Requests, NEW stage \in {"locked", "written"},
         NEW row \in Company \cup NoRow, Goes(r, stage, row), company' = company,
         req[r].stage # "idle",
         stage = "locked" => req[r].kind # "create",
         \A q \in Requests \ {r} : Held(q) => req[q].id # req[r].id,
         req[r].kind # "create" => Exists(req[r].id),
         stage = "written" =>
           /\ req[r].kind = "remove" => row = Removed
           /\ req[r].kind # "remove" => row \in Company
           /\ req[r].kind = "create" /\ row.admin => row.counter
           /\ req[r].kind = "update" => row = Amended(r),
         stage = "written" /\ req[r].kind # "remove" /\ row.domain # NoDomain =>
           /\ \A c \in Companies \ {req[r].id} :
                Exists(c) => company[c].domain # row.domain
           /\ \A q \in Requests \ {r} : Writes(q) => req[q].row.domain # row.domain
  PROVE  Inv'
<1> DEFINE new == [req[r] EXCEPT !.stage = stage, !.row = row]
<1>1. /\ new \in Request /\ new.stage = stage /\ new.kind = req[r].kind /\ new.row = row
      /\ new.id = req[r].id /\ new.domain = req[r].domain /\ new.active = req[r].active
  BY DEF Inv, TypeOK, Request, Stages
<1>2. TypeOK' /\ req'[r] = new /\ \A q \in Requests \ {r} : req'[q] = req[q]
  BY <1>1, TurnsTypes, GoesTurns DEF Inv
<1> HIDE DEF new
<1>3. StagesOK'
  BY <1>1, <1>2 DEF Inv, StagesOK
<1>4. IdsOK'
  BY <1>1, <1>2 DEF Inv, IdsOK, Busy
<1>5. LocksOK'
  BY <1>1, <1>2 DEF Inv, LocksOK, Held, Exists
<1>6. WrittenOK'
  <2>1. \A q \in Requests \ {r} : Amended(q)' = Amended(q)
    BY <1>2, AmendedAlone
  <2>2. Amended(r)' = Amended(r)
    BY <1>1, <1>2, AmendedAlone
  <2>3. QED BY <1>1, <1>2, <2>1, <2>2 DEF Inv, WrittenOK
<1>7. DomainsOK'
  BY <1>1, <1>2 DEF Inv, DomainsOK, Writes, Exists
<1>8. QED BY <1>2, <1>3, <1>4, <1>5, <1>6, <1>7, TurnsKeepCompanies DEF Inv

----------------------------------------------------------------------------
\* The commit: the company becomes what was written, and nobody else writes it.
LEMMA CommitDoes ==
  ASSUME Inv, NEW r \in Requests, Commit(r)
  PROVE  /\ Held(r) /\ Busy' = Busy \ {r}
         /\ company' \in [Companies -> Company \cup NoRow]
         /\ company'[req[r].id] = req[r].row
         /\ req[r].row # Unborn
         /\ \A c \in Companies \ {req[r].id} : company'[c] = company[c]
         /\ \A q \in Requests \ {r} :
              /\ req'[q] = req[q]
              /\ Held(q) => req[q].id # req[r].id
              /\ Held(q) => company'[req[q].id] = company[req[q].id]
         /\ req'[r] \in Request
         /\ req'[r].stage = "idle" /\ req'[r].kind = "create" /\ req'[r].domain = NoDomain
<1> DEFINE new == Idle(req[r].id)
<1>1. new \in Request /\ new.stage = "idle" /\ new.kind = "create" /\ new.domain = NoDomain
  BY RequestFields DEF Inv, Idle, Request, Stages, NoRow
<1>2. Held(r) /\ req' = [req EXCEPT ![r] = new]
  BY DEF Commit, Held, Ends
<1>3. req'[r] = new /\ \A q \in Requests \ {r} : req'[q] = req[q]
  BY <1>2 DEF Inv, TypeOK
<1> HIDE DEF new
<1>4. Busy' = Busy \ {r}
  BY <1>1, <1>3 DEF Busy
<1>5. req[r].id \in Companies /\ req[r].row \in Company \cup NoRow
  BY RequestFields DEF Inv
<1>6. /\ company' \in [Companies -> Company \cup NoRow]
      /\ company'[req[r].id] = req[r].row
      /\ \A c \in Companies \ {req[r].id} : company'[c] = company[c]
  BY <1>5 DEF Inv, TypeOK, Commit
<1>7. \A q \in Requests \ {r} : Held(q) => req[q].id # req[r].id
  BY <1>2 DEF Inv, LocksOK
<1>8. \A q \in Requests \ {r} : Held(q) => company'[req[q].id] = company[req[q].id]
  BY <1>6, <1>7, RequestFields DEF Inv
<1>9. req[r].row # Unborn
  BY <1>5, NoRowAssumption DEF Inv, WrittenOK, Commit, NoRowIsARow, NoRow
<1>10. QED BY <1>1, <1>2, <1>3, <1>4, <1>6, <1>7, <1>8, <1>9

LEMMA CommitKeepsInv ==
  ASSUME Inv, NEW r \in Requests, Commit(r)
  PROVE  Inv'
<1> DEFINE id == req[r].id
<1>1. TypeOK'
  BY CommitDoes DEF Inv, TypeOK, Commit, Ends
<1>2. StagesOK'
  BY CommitDoes DEF Inv, StagesOK
<1>3. IdsOK'
  <2>1. ASSUME NEW q \in Busy'
        PROVE  req'[q].kind = "create" <=> company'[req'[q].id] = Unborn
    <3>1. q \in Busy /\ q # r /\ req'[q] = req[q]
      BY <2>1, CommitDoes DEF Busy
    <3>2. CASE req[q].id = id
      <4>1. r \in Busy
        BY CommitDoes DEF Busy, Held
      <4>2. req[q].kind # "create"
        BY <3>1, <3>2, <4>1 DEF Inv, IdsOK
      <4>3. QED BY <3>1, <3>2, <4>2, CommitDoes
    <3>3. CASE req[q].id # id
      BY <3>1, <3>3, CommitDoes, RequestFields DEF Inv, IdsOK, Busy
    <3>4. QED BY <3>2, <3>3
  <2>2. QED BY <2>1, CommitDoes DEF Inv, IdsOK, Busy
<1>4. LocksOK'
  BY CommitDoes DEF Inv, LocksOK, Held, Exists
<1>5. WrittenOK'
  <2>1. ASSUME NEW q \in Requests \ {r}, req[q].stage = "written"
        PROVE  Amended(q)' = Amended(q)
    BY <2>1, CommitDoes, AmendedAlone DEF Held
  <2>2. QED BY <2>1, CommitDoes DEF Inv, WrittenOK
<1>6. DomainsOK'
  <2>1. ASSUME NEW q \in Requests, Writes(q)', req'[q].row.domain # NoDomain
        PROVE  /\ q # r /\ req'[q] = req[q] /\ Writes(q)
               /\ \A c \in Companies \ {req[q].id} :
                    Exists(c)' => company'[c].domain # req[q].row.domain
    <3>1. q # r /\ req'[q] = req[q] /\ Writes(q)
      BY <2>1, CommitDoes DEF Writes
    <3>2. ASSUME NEW c \in Companies \ {req[q].id}, Exists(c)'
          PROVE  company'[c].domain # req[q].row.domain
      <4>1. CASE c = id
        <5>1. req[r].row \in Company /\ company'[c] = req[r].row
          BY <3>2, <4>1, CommitDoes DEF Exists
        <5>2. Writes(r)
          <6>1. req[r].row # Removed
            BY <5>1, NoRowAssumption DEF NoRowIsARow, NoRow
          <6>2. QED BY <6>1 DEF Inv, WrittenOK, Commit, Writes
        <5>3. QED BY <2>1, <3>1, <5>1, <5>2 DEF Inv, DomainsOK
      <4>2. CASE c # id
        BY <2>1, <3>1, <3>2, <4>2, CommitDoes DEF Inv, DomainsOK, Exists
      <4>3. QED BY <4>1, <4>2
    <3>3. QED BY <3>1, <3>2
  <2>2. \A q \in Requests : Writes(q)' => q # r /\ req'[q] = req[q] /\ Writes(q)
    BY CommitDoes DEF Writes
  <2>3. QED BY <2>1, <2>2 DEF Inv, DomainsOK
<1>7. CompaniesAreComplete'
  <2>1. ASSUME req[r].row \in Company PROVE req[r].row.counter /\ req[r].row.admin
    <3>1. req[r].kind \in {"create", "update"}
      <4>1. req[r].row # Removed
        BY <2>1, NoRowAssumption DEF NoRowIsARow, NoRow
      <4>2. QED BY <4>1, RequestFields DEF Inv, WrittenOK, Commit
    <3>2. CASE req[r].kind = "create"
      BY <3>2 DEF Inv, WrittenOK, Commit
    <3>3. CASE req[r].kind = "update"
      <4>1. Exists(id) /\ req[r].row = Amended(r)
        BY <3>3, CommitDoes DEF Inv, LocksOK, WrittenOK, Commit
      <4>2. company[id].counter /\ company[id].admin
        BY <4>1, RequestFields DEF Inv, CompaniesAreComplete
      <4>3. QED BY <4>1, <4>2, AmendedRow DEF Inv
    <3>4. QED BY <3>1, <3>2, <3>3
  <2>2. QED BY <2>1, CommitDoes DEF Inv, CompaniesAreComplete, Exists
<1>8. DomainNamesOneCompany'
  <2>1. ASSUME NEW c \in Companies \ {id}, Exists(c), req[r].row \in Company,
               req[r].row.domain # NoDomain
        PROVE  company[c].domain # req[r].row.domain
    <3>1. req[r].row # Removed
      BY <2>1, NoRowAssumption DEF NoRowIsARow, NoRow
    <3>2. Writes(r)
      BY <3>1 DEF Inv, WrittenOK, Commit, Writes
    <3>3. QED BY <2>1, <3>2 DEF Inv, DomainsOK
  <2>2. QED BY <2>1, CommitDoes DEF Inv, DomainNamesOneCompany, Exists
<1>9. QED BY <1>1, <1>2, <1>3, <1>4, <1>5, <1>6, <1>7, <1>8 DEF Inv

----------------------------------------------------------------------------
LEMMA InitInv == Init => Inv
<1> SUFFICES ASSUME Init PROVE Inv OBVIOUS
<1> DEFINE new == Idle(AnyId)
<1>1. /\ new \in Request /\ new.stage = "idle" /\ new.kind = "create"
      /\ new.domain = NoDomain
  <2>1. AnyId \in Companies
    BY CompaniesAssumption DEF AnyId
  <2>2. QED BY <2>1 DEF Idle, Request, Stages, NoRow
<1>2. req = [r \in Requests |-> new] /\ \A r \in Requests : req[r] = new
  BY DEF Init
<1>3. company = [c \in Companies |-> Unborn] /\ \A c \in Companies : ~Exists(c)
  BY NoRowAssumption DEF Init, Exists, NoRowIsARow, NoRow
<1> HIDE DEF new
<1>4. TypeOK
  BY <1>1, <1>2, <1>3 DEF TypeOK, NoRow
<1>5. /\ StagesOK /\ IdsOK /\ LocksOK /\ WrittenOK /\ DomainsOK
  BY <1>1, <1>2 DEF StagesOK, IdsOK, LocksOK, WrittenOK, DomainsOK, Busy, Held, Writes
<1>6. CompaniesAreComplete /\ DomainNamesOneCompany
  BY <1>3 DEF CompaniesAreComplete, DomainNamesOneCompany
<1>7. QED BY <1>4, <1>5, <1>6 DEF Inv

LEMMA AskedKeepsInv ==
  ASSUME Inv, NEW r \in Requests, AcceptCreate(r) \/ AcceptUpdate(r) \/ AcceptRemove(r)
  PROVE  Inv'
<1>1. CASE AcceptCreate(r)
  BY <1>1, AsksKeepsInv DEF AcceptCreate
<1>2. CASE AcceptUpdate(r)
  BY <1>2, AsksKeepsInv DEF AcceptUpdate
<1>3. CASE AcceptRemove(r)
  BY <1>3, AsksKeepsInv DEF AcceptRemove
<1>4. QED BY <1>1, <1>2, <1>3

LEMMA CreateKeepsInv ==
  ASSUME Inv, NEW r \in Requests,
         Hash(r) \/ InsertTenant(r) \/ InsertCounter(r) \/ InsertAdmin(r)
  PROVE  Inv'
<1>1. CASE Hash(r)
  BY <1>1, GoesKeepsInv DEF Hash, NoRow
<1>2. CASE InsertTenant(r)
  <2> DEFINE d == req[r].domain
             row == [domain |-> d, active |-> TRUE, counter |-> FALSE, admin |-> FALSE]
  <2>1. req[r].stage = "hashed" /\ req[r].kind = "create" /\ ~DomainLocked(r, d)
    BY <1>2 DEF InsertTenant, Inv, StagesOK
  <2>2. CASE Refuses(r)
    BY <2>2, EndsKeepsInv DEF Refuses
  <2>3. CASE ~Taken(r, d) /\ Goes(r, "written", row) /\ company' = company
    <3>1. row \in Company /\ row.domain = d /\ ~row.admin
      BY <2>1, RequestFields DEF Inv, StagesOK, Company
    <3>2. \A c \in Companies \ {req[r].id} : d # NoDomain /\ Exists(c) => company[c].domain # d
      BY <2>3 DEF Taken
    <3>3. \A q \in Requests \ {r} : d # NoDomain /\ Writes(q) => req[q].row.domain # d
      <4>1. ASSUME NEW q \in Requests \ {r}, Writes(q)
            PROVE  q \in Holders(r) /\ req[q].row \in Company /\ req[q].stage = "written"
        BY <4>1 DEF Inv, WrittenOK, Writes, Holders
      <4>2. QED BY <2>1, <4>1 DEF DomainLocked, Takes
    <3>4. \A q \in Requests \ {r} : Held(q) => req[q].id # req[r].id
      <4>1. ASSUME NEW q \in Requests \ {r}, Held(q), req[q].id = req[r].id PROVE FALSE
        <5>1. r \in Busy /\ q \in Busy
          BY <2>1, <4>1 DEF Busy, Held
        <5>2. req[q].kind = "create"
          BY <2>1, <4>1, <5>1 DEF Inv, IdsOK
        <5>3. QED BY <2>1, <4>1, <5>1, <5>2 DEF Inv, IdsOK
      <4>2. QED BY <4>1
    <3> HIDE DEF row
    <3>5. QED BY <2>1, <2>3, <3>1, <3>2, <3>3, <3>4, HoldsKeepsInv
  <2>4. QED BY <1>2, <2>2, <2>3 DEF InsertTenant, HeldBack
<1>3. ASSUME req[r].stage = "written", req[r].kind = "create",
             NEW row \in Company, row.domain = req[r].row.domain,
             row.admin => row.counter, Goes(r, "written", row), company' = company
      PROVE  Inv'
  <2>1. \A q \in Requests \ {r} : Held(q) => req[q].id # req[r].id
    BY <1>3 DEF Inv, LocksOK, Held
  <2>2. row.domain # NoDomain =>
          /\ \A c \in Companies \ {req[r].id} : Exists(c) => company[c].domain # row.domain
          /\ \A q \in Requests \ {r} : Writes(q) => req[q].row.domain # row.domain
    BY <1>3 DEF Inv, DomainsOK, Writes
  <2>3. QED BY <1>3, <2>1, <2>2, HoldsKeepsInv
<1>4. ASSUME req[r].stage = "written", req[r].kind = "create"
      PROVE  req[r].row \in Company
  BY <1>4 DEF Inv, WrittenOK
<1>5. CASE InsertCounter(r)
  <2> DEFINE row == [req[r].row EXCEPT !.counter = TRUE]
  <2>1. row \in Company /\ row.domain = req[r].row.domain /\ row.counter
    BY <1>4, <1>5 DEF InsertCounter, Company
  <2>2. QED BY <1>3, <1>5, <2>1 DEF InsertCounter
<1>6. CASE InsertAdmin(r)
  <2> DEFINE row == [req[r].row EXCEPT !.admin = TRUE]
  <2>1. row \in Company /\ row.domain = req[r].row.domain /\ row.counter
    BY <1>4, <1>6 DEF InsertAdmin, Company
  <2>2. QED BY <1>3, <1>6, <2>1 DEF InsertAdmin
<1>7. QED BY <1>1, <1>2, <1>5, <1>6

LEMMA ChangeKeepsInv ==
  ASSUME Inv, NEW r \in Requests,
         RequireCompany(r) \/ LockRow(r) \/ WriteUpdate(r) \/ WriteRemove(r)
  PROVE  Inv'
<1>1. CASE Refuses(r)
  BY <1>1, EndsKeepsInv DEF Refuses
<1>2. CASE RequireCompany(r)
  BY <1>1, <1>2, GoesKeepsInv, RequestFields DEF RequireCompany, Inv
<1>3. CASE LockRow(r) /\ ~Refuses(r)
  <2>1. req[r].stage = "found" /\ req[r].kind # "create"
    BY <1>3 DEF LockRow, Inv, StagesOK
  <2>2. \A q \in Requests \ {r} : Held(q) => req[q].id # req[r].id
    BY <1>3 DEF LockRow, RowLocked, Holders, Held
  <2>3. /\ Exists(req[r].id) /\ Goes(r, "locked", req[r].row) /\ company' = company
        /\ req[r].row \in Company \cup NoRow
    BY <1>3, RequestFields DEF LockRow, Inv
  <2>4. QED BY <2>1, <2>2, <2>3, HoldsKeepsInv
<1>4. ASSUME req[r].stage = "locked"
      PROVE  /\ Exists(req[r].id) /\ Held(r)
             /\ \A q \in Requests \ {r} : Held(q) => req[q].id # req[r].id
  BY <1>4 DEF Inv, LocksOK, StagesOK, Held
<1>5. CASE WriteUpdate(r) /\ ~Refuses(r)
  <2> DEFINE d == req[r].domain
             row == Amended(r)
  <2>1. /\ req[r].stage = "locked" /\ req[r].kind = "update"
        /\ d = Keep \/ ~DomainLocked(r, d)
        /\ ~Taken(r, d) /\ Goes(r, "written", row) /\ company' = company
    BY <1>5 DEF WriteUpdate
  <2>2. row \in Company /\ row.domain = Or(d, company[req[r].id].domain)
    BY <1>4, <2>1, AmendedRow DEF Inv
  <2>3. ASSUME row.domain # NoDomain
        PROVE  /\ \A c \in Companies \ {req[r].id} :
                    Exists(c) => company[c].domain # row.domain
               /\ \A q \in Requests \ {r} : Writes(q) => req[q].row.domain # row.domain
    <3>1. CASE d = Keep
      <4>1. Exists(req[r].id) /\ row.domain = company[req[r].id].domain
        BY <1>4, <2>1, <2>2, <3>1 DEF Or
      <4>2. \A c \in Companies \ {req[r].id} : Exists(c) => company[c].domain # row.domain
        BY <2>3, <4>1, RequestFields DEF Inv, DomainNamesOneCompany
      <4>3. ASSUME NEW q \in Requests \ {r}, Writes(q), req[q].row.domain = row.domain
            PROVE  FALSE
        <5>1. req[q].id # req[r].id
          BY <1>4, <2>1, <4>3 DEF Writes, Held
        <5>2. QED
          BY <2>3, <4>1, <4>3, <5>1, RequestFields DEF Inv, DomainsOK
      <4>4. QED BY <4>2, <4>3
    <3>2. CASE d # Keep
      <4>1. row.domain = d /\ ~DomainLocked(r, d)
        BY <2>1, <2>2, <3>2 DEF Or
      <4>2. \A c \in Companies \ {req[r].id} : Exists(c) => company[c].domain # row.domain
        BY <2>1, <2>3, <4>1 DEF Taken
      <4>3. ASSUME NEW q \in Requests \ {r}, Writes(q)
            PROVE  q \in Holders(r) /\ req[q].row \in Company /\ req[q].stage = "written"
        BY <4>3 DEF Inv, WrittenOK, Writes, Holders
      <4>4. QED BY <2>3, <4>1, <4>2, <4>3 DEF DomainLocked, Takes
    <3>3. QED BY <3>1, <3>2
  <2> HIDE DEF row
  <2>4. row = Amended(r)
    BY DEF row
  <2>5. QED BY <1>4, <2>1, <2>2, <2>3, <2>4, HoldsKeepsInv
<1>6. CASE WriteRemove(r)
  <2>1. req[r].stage = "locked" /\ req[r].kind = "remove"
        /\ Goes(r, "written", Removed) /\ company' = company
    BY <1>6 DEF WriteRemove
  <2>2. QED BY <1>4, <2>1, HoldsKeepsInv DEF NoRow
<1>7. QED BY <1>1, <1>2, <1>3, <1>5, <1>6

LEMMA NextKeepsInv == Inv /\ [Next]_vars => Inv'
<1> SUFFICES ASSUME Inv, [Next]_vars PROVE Inv' OBVIOUS
<1>1. ASSUME NEW r \in Requests, Abort(r) PROVE Inv'
  BY <1>1, EndsKeepsInv DEF Abort, Refuses
<1>2. CASE UNCHANGED vars
  <2>1. company' = company /\ req' = req
    BY <1>2 DEF vars
  <2>2. \A r \in Requests : Amended(r)' = Amended(r)
    BY <2>1 DEF Amended, With
  <2>3. TypeOK' /\ StagesOK' /\ IdsOK'
    BY <2>1 DEF Inv, TypeOK, StagesOK, IdsOK, Busy
  <2>4. LocksOK' /\ DomainsOK'
    BY <2>1 DEF Inv, LocksOK, DomainsOK, Held, Writes, Exists
  <2>5. WrittenOK'
    BY <2>1, <2>2 DEF Inv, WrittenOK
  <2>6. CompaniesAreComplete' /\ DomainNamesOneCompany'
    BY <2>1 DEF Inv, CompaniesAreComplete, DomainNamesOneCompany, Exists
  <2>7. QED BY <2>3, <2>4, <2>5, <2>6 DEF Inv
<1>3. QED
  BY <1>1, <1>2, AskedKeepsInv, CreateKeepsInv, ChangeKeepsInv, CommitKeepsInv DEF Next

----------------------------------------------------------------------------
\* Every request is at a stage of its kind, and holds the lock it writes under, in all
\* interleavings of creations, changes and removals.
THEOREM CompaniesInvariant == Spec => []Inv
BY InitInv, NextKeepsInv, PTL DEF Spec

\* Rows, requests and locks keep their types through every commit and rollback.
THEOREM TypeCorrect == Spec => []TypeOK
<1>1. Inv => TypeOK
  BY DEF Inv
<1>2. QED BY <1>1, CompaniesInvariant, PTL

\* create() is all or nothing: nobody meets a company without its counter or its ADMIN.
THEOREM CompaniesAlwaysComplete == Spec => []CompaniesAreComplete
<1>1. Inv => CompaniesAreComplete
  BY DEF Inv
<1>2. QED BY <1>1, CompaniesInvariant, PTL

\* Two companies never share a domain, whoever takes and frees it at once.
THEOREM DomainAlwaysNamesOneCompany == Spec => []DomainNamesOneCompany
<1>1. Inv => DomainNamesOneCompany
  BY DEF Inv
<1>2. QED BY <1>1, CompaniesInvariant, PTL

\* A PATCH changes what it names and nothing else, although it was checked against a
\* row that another request may have changed or removed since.
THEOREM OnlyWhatIsAsked == Spec => OnlyWhatWasAsked
<1> DEFINE Asked ==
      \A c \in Companies :
       /\ company[c] = Removed => company'[c] = Removed
       /\ Exists(c) /\ company'[c] # company[c] =>
            \E r \in Requests :
              /\ Commit(r) /\ req[r].id = c
              /\ company'[c] = Removed => req[r].kind = "remove"
              /\ company'[c] # Removed =>
                   /\ company'[c].active # company[c].active =>
                        req[r].active = company'[c].active
                   /\ company'[c].domain # company[c].domain =>
                        req[r].domain = company'[c].domain
<1>1. ASSUME Inv, Next PROVE Asked
  <2>1. (\E r \in Requests : Commit(r)) \/ company' = company
    BY <1>1 DEF Next, AcceptCreate, AcceptUpdate, AcceptRemove, Asks, Hash, InsertTenant,
                HeldBack, InsertCounter, InsertAdmin, RequireCompany, LockRow, WriteUpdate,
                WriteRemove, Abort, Refuses
  <2>2. ASSUME NEW r \in Requests, Commit(r), NEW c \in Companies, c = req[r].id
        PROVE  /\ company[c] # Removed
               /\ Exists(c) => req[r].kind # "create"
               /\ company'[c] = Removed => req[r].kind = "remove"
               /\ Exists(c) /\ company'[c] # Removed =>
                    company'[c] = Amended(r)
    <3>1. r \in Busy /\ Held(r) /\ company'[c] = req[r].row /\ req[r].stage = "written"
      BY <1>1, <2>2, CommitDoes DEF Busy, Held, Commit
    <3>2. req[r].kind = "create" <=> company[c] = Unborn
      BY <1>1, <2>2, <3>1 DEF Inv, IdsOK
    <3>3. req[r].kind # "create" => Exists(c)
      BY <1>1, <2>2, <3>1 DEF Inv, LocksOK
    <3>4. ~Exists(c) \/ company[c] \notin NoRow
      BY NoRowAssumption DEF NoRowIsARow, Exists
    <3>5. Unborn # Removed /\ Removed \notin Company
      BY NoRowAssumption DEF NoRowIsARow, NoRow
    <3>6. req[r].kind \in {"create", "update", "remove"}
      BY <1>1, RequestFields DEF Inv
    <3>7. QED
      BY <1>1, <3>1, <3>2, <3>3, <3>4, <3>5, <3>6 DEF Inv, WrittenOK, NoRow
  <2>3. ASSUME NEW r \in Requests, Commit(r), NEW c \in Companies, c = req[r].id,
               Exists(c), company'[c] # Removed
        PROVE  /\ company'[c].active # company[c].active =>
                    req[r].active = company'[c].active
               /\ company'[c].domain # company[c].domain =>
                    req[r].domain = company'[c].domain
    BY <1>1, <2>2, <2>3, AmendedRow DEF Inv, Or
  <2>4. ASSUME NEW r \in Requests, Commit(r), NEW c \in Companies, c # req[r].id
        PROVE  company'[c] = company[c]
    BY <1>1, <2>4, CommitDoes
  <2>5. QED BY <2>1, <2>2, <2>3, <2>4
<1>2. ASSUME Inv, [Next]_vars PROVE [Asked]_vars
  BY <1>1, <1>2
<1>3. QED BY <1>2, CompaniesInvariant, PTL DEF Spec, OnlyWhatWasAsked

----------------------------------------------------------------------------
\* A company that is being created has a domain, and is born active under it.
CreatedOK ==
  \A r \in Busy : req[r].kind = "create" =>
    /\ req[r].domain \in Domains
    /\ req[r].stage = "written" =>
         req[r].row.domain = req[r].domain /\ req[r].row.active = TRUE

RegistryInv == Inv /\ CreatedOK

LEMMA InitRegistry == Init => RegistryInv /\ Registry!Init
<1> SUFFICES ASSUME Init PROVE CreatedOK /\ Registry!Init
  BY InitInv DEF RegistryInv
<1>1. Busy = {}
  BY DEF Init, Busy, Idle
<1>2. QED BY <1>1 DEF Init, CreatedOK, Registry!Init

\* A step is taken by one request, which ends, begins, or goes on with what it asks.
LEMMA StepOfOne ==
  ASSUME Inv, NEW r \in Requests,
         \/ AcceptCreate(r) \/ AcceptUpdate(r) \/ AcceptRemove(r)
         \/ Hash(r) \/ InsertTenant(r) \/ InsertCounter(r) \/ InsertAdmin(r)
         \/ RequireCompany(r) \/ LockRow(r) \/ WriteUpdate(r) \/ WriteRemove(r)
         \/ Commit(r) \/ Abort(r)
  PROVE  /\ \A q \in Requests \ {r} : req'[q] = req[q]
         /\ \/ req'[r].stage = "idle"
            \/ /\ req'[r].stage = "asked"
               /\ req'[r].kind = "create" => req'[r].domain \in Domains
            \/ /\ r \in Busy
               /\ req'[r].kind = req[r].kind /\ req'[r].domain = req[r].domain
               /\ req[r].kind = "create" =>
                    \/ req'[r].stage = "hashed"
                    \/ /\ req[r].stage = "hashed"
                       /\ req'[r].row.domain = req[r].domain
                       /\ req'[r].row.active = TRUE
                    \/ /\ req[r].stage = "written"
                       /\ req'[r].row.domain = req[r].row.domain
                       /\ req'[r].row.active = req[r].row.active
<1> USE DEF Inv, TypeOK
<1>1. CASE AcceptCreate(r) \/ AcceptUpdate(r) \/ AcceptRemove(r)
  BY <1>1 DEF AcceptCreate, AcceptUpdate, AcceptRemove, Asks
<1>2. CASE Ends(r)
  BY <1>2 DEF Ends, Idle
<1>3. ASSUME NEW stage, NEW row, Goes(r, stage, row)
      PROVE  /\ \A q \in Requests \ {r} : req'[q] = req[q]
             /\ req'[r].kind = req[r].kind /\ req'[r].domain = req[r].domain
             /\ req'[r].stage = stage /\ req'[r].row = row
  BY <1>3 DEF Goes, Request
<1>4. CASE Hash(r)
  BY <1>3, <1>4 DEF Hash, Busy
<1>5. CASE InsertTenant(r) /\ ~Ends(r)
  BY <1>3, <1>5 DEF InsertTenant, Refuses, Busy
<1>6. CASE InsertCounter(r) \/ InsertAdmin(r)
  <2>1. r \in Busy /\ req[r].stage = "written" /\ req[r].row \in Company
    BY <1>6 DEF InsertCounter, InsertAdmin, Busy, WrittenOK
  <2>2. \/ Goes(r, "written", [req[r].row EXCEPT !.counter = TRUE])
        \/ Goes(r, "written", [req[r].row EXCEPT !.admin = TRUE])
    BY <1>6 DEF InsertCounter, InsertAdmin
  <2>3. PICK row : /\ Goes(r, "written", row)
                   /\ row.domain = req[r].row.domain /\ row.active = req[r].row.active
    BY <2>1, <2>2 DEF Company
  <2>4. QED BY <1>3, <2>1, <2>3
<1>7. CASE ~Ends(r) /\ (RequireCompany(r) \/ LockRow(r) \/ WriteUpdate(r) \/ WriteRemove(r))
  <2>1. r \in Busy /\ req[r].kind # "create"
    BY <1>7 DEF RequireCompany, LockRow, WriteUpdate, WriteRemove, Refuses, Busy, StagesOK
  <2>2. PICK stage, row : Goes(r, stage, row)
    BY <1>7 DEF RequireCompany, LockRow, WriteUpdate, WriteRemove, Refuses
  <2>3. QED BY <1>3, <2>1, <2>2
<1>8. QED
  BY <1>1, <1>2, <1>4, <1>5, <1>6, <1>7 DEF Commit, Abort, Refuses

LEMMA NextKeepsCreated ==
  ASSUME RegistryInv, [Next]_vars
  PROVE  CreatedOK'
<1>1. CASE UNCHANGED vars
  BY <1>1 DEF RegistryInv, CreatedOK, Busy, vars
<1>2. CASE Next
  <2>1. PICK r \in Requests :
          /\ \A q \in Requests \ {r} : req'[q] = req[q]
          /\ \/ req'[r].stage = "idle"
             \/ /\ req'[r].stage = "asked"
                /\ req'[r].kind = "create" => req'[r].domain \in Domains
             \/ /\ r \in Busy
                /\ req'[r].kind = req[r].kind /\ req'[r].domain = req[r].domain
                /\ req[r].kind = "create" =>
                     \/ req'[r].stage = "hashed"
                     \/ /\ req[r].stage = "hashed"
                        /\ req'[r].row.domain = req[r].domain
                        /\ req'[r].row.active = TRUE
                     \/ /\ req[r].stage = "written"
                        /\ req'[r].row.domain = req[r].row.domain
                        /\ req'[r].row.active = req[r].row.active
    BY <1>2, StepOfOne DEF RegistryInv, Next
  <2>2. QED BY <2>1 DEF RegistryInv, CreatedOK, Busy
<1>3. QED BY <1>1, <1>2

\* The rows of the register are the committed ones.
LEMMA ListedExist ==
  ASSUME Inv
  PROVE  Registry!Listed = {c \in Companies : Exists(c)}
BY NoRowAssumption DEF Inv, TypeOK, Registry!Listed, Exists, NoRowIsARow, NoRow

\* The commit is the step of the register: the domain that was found free when the row
\* was written is free still.
LEMMA CommitIsRegistryStep ==
  ASSUME RegistryInv, NEW r \in Requests, Commit(r)
  PROVE  Registry!Next
<1> DEFINE c == req[r].id
<1>1. /\ Inv /\ r \in Busy /\ Held(r) /\ req[r].stage = "written"
      /\ c \in Companies /\ company' = [company EXCEPT ![c] = req[r].row]
  BY CommitDoes, RequestFields DEF RegistryInv, Inv, Commit, Busy, Held
<1>2. ASSUME Writes(r) PROVE Registry!Free(req[r].row.domain, c)
  BY <1>1, <1>2, ListedExist DEF Registry!Free, Inv, DomainsOK
<1>3. CASE req[r].kind = "create"
  <2>1. /\ company[c] = Unborn /\ Writes(r) /\ req[r].row \in Company
        /\ req[r].domain \in Domains
    BY <1>1, <1>3 DEF RegistryInv, CreatedOK, Inv, IdsOK, WrittenOK, Writes
  <2>2. req[r].row = [domain |-> req[r].domain, active |-> TRUE,
                      counter |-> TRUE, admin |-> TRUE]
    <3>1. req[r].row.counter = TRUE /\ req[r].row.admin = TRUE
      BY <1>1, <1>3, <2>1 DEF Inv, WrittenOK, Commit, Company
    <3>2. req[r].row.domain = req[r].domain /\ req[r].row.active = TRUE
      BY <1>1, <1>3 DEF RegistryInv, CreatedOK
    <3>3. QED BY <2>1, <3>1, <3>2 DEF Company
  <2>3. Registry!Register(c, req[r].domain)
    BY <1>1, <1>2, <2>1, <2>2 DEF Registry!Register
  <2>4. QED BY <1>1, <2>1, <2>3 DEF Registry!Next
<1>4. CASE req[r].kind = "update"
  <2> DEFINE row == req[r].row
  <2>1. /\ Exists(c) /\ Writes(r) /\ row = Amended(r)
    BY <1>1, <1>4 DEF Inv, LocksOK, WrittenOK, Writes
  <2>2. /\ row \in Company /\ company[c] \in Company
        /\ row.counter = company[c].counter /\ row.admin = company[c].admin
    BY <1>1, <2>1, AmendedRow DEF Inv, Exists
  <2>3. row = [company[c] EXCEPT !.domain = row.domain, !.active = row.active]
    BY <2>2 DEF Company
  <2>4. company' = [company EXCEPT ![c].domain = row.domain, ![c].active = row.active]
    BY <1>1, <2>3 DEF Inv, TypeOK
  <2>5. row.domain \in Domains \cup {NoDomain} /\ row.active \in BOOLEAN
    BY <2>2 DEF Company
  <2>6. c \in Registry!Listed /\ Registry!Free(row.domain, c)
    BY <1>1, <1>2, <2>1, ListedExist
  <2> HIDE DEF row
  <2>7. Registry!Amend(c, row.domain, row.active)
    BY <2>4, <2>6 DEF Registry!Amend
  <2>8. QED BY <1>1, <2>5, <2>7 DEF Registry!Next
<1>5. CASE req[r].kind = "remove"
  <2>1. Exists(c) /\ req[r].row = Removed
    BY <1>1, <1>5 DEF Inv, LocksOK, WrittenOK
  <2>2. Registry!Remove(c)
    BY <1>1, <2>1, ListedExist DEF Registry!Remove
  <2>3. QED BY <1>1, <2>2 DEF Registry!Next
<1>6. QED BY <1>1, <1>3, <1>4, <1>5, RequestFields DEF Inv

LEMMA StepIsRegistryStep ==
  ASSUME RegistryInv, [Next]_vars
  PROVE  [Registry!Next]_company
<1>1. (\E r \in Requests : Commit(r)) \/ company' = company
  BY DEF Next, vars, AcceptCreate, AcceptUpdate, AcceptRemove, Asks, Hash, InsertTenant,
         HeldBack, InsertCounter, InsertAdmin, RequireCompany, LockRow, WriteUpdate,
         WriteRemove, Abort, Refuses
<1>2. QED BY <1>1, CommitIsRegistryStep

\* The transactions of the operator are linearizable: what others see of the companies
\* changes as if every request were one step, in which it checks its domain and writes.
THEOREM CompaniesRefineRegistry == Spec => ImplementsRegistry
<1>1. Init => RegistryInv /\ Registry!Init
  BY InitRegistry
<1>2. RegistryInv /\ [Next]_vars => RegistryInv' /\ [Registry!Next]_company
  BY NextKeepsInv, NextKeepsCreated, StepIsRegistryStep DEF RegistryInv
<1>3. QED BY <1>1, <1>2, PTL DEF Spec, ImplementsRegistry, Registry!Spec

----------------------------------------------------------------------------
\* Whoever writes a row for a company gives it a domain.
NamedOK ==
  /\ EveryCompanyHasADomain
  /\ \A r \in Requests : Writes(r) => req[r].row.domain # NoDomain

NoNullDomain == \A r \in Requests : req[r].kind = "update" => req[r].domain # NoDomain

\* The next row of a request comes from one that was there, or is that of a creation.
LEMMA NamedStep ==
  ASSUME RegistryInv, RegistryInv', NamedOK, NoNullDomain', [Next]_vars
  PROVE  NamedOK'
<1> USE DEF RegistryInv
<1>1. EveryCompanyHasADomain'
  <2>1. CASE company' = company
    BY <2>1 DEF NamedOK, EveryCompanyHasADomain, Exists
  <2>2. ASSUME NEW r \in Requests, Commit(r), NEW c \in Companies, Exists(c)'
        PROVE  company'[c].domain # NoDomain
    <3>1. CASE c = req[r].id
      <4>1. company'[c] = req[r].row /\ req[r].row \in Company
        BY <2>2, <3>1, CommitDoes DEF Exists
      <4>2. Writes(r)
        BY <2>2, <4>1, NoRowAssumption
        DEF Commit, Writes, Inv, WrittenOK, NoRowIsARow, NoRow
      <4>3. QED BY <4>1, <4>2 DEF NamedOK
    <3>2. CASE c # req[r].id
      <4>1. company'[c] = company[c]
        BY <2>2, <3>2, CommitDoes
      <4>2. QED BY <2>2, <4>1 DEF NamedOK, EveryCompanyHasADomain, Exists
    <3>3. QED BY <3>1, <3>2
  <2>3. (\E r \in Requests : Commit(r)) \/ company' = company
    BY DEF Next, vars, AcceptCreate, AcceptUpdate, AcceptRemove, Asks, Hash, InsertTenant,
           HeldBack, InsertCounter, InsertAdmin, RequireCompany, LockRow, WriteUpdate,
           WriteRemove, Abort, Refuses
  <2>4. QED BY <2>1, <2>2, <2>3 DEF EveryCompanyHasADomain
<1>2. ASSUME NEW r \in Requests, Writes(r)'
      PROVE  req'[r].row.domain # NoDomain
  <2>1. /\ req'[r].kind \in {"create", "update"} /\ req'[r].id \in Companies
        /\ req'[r].stage = "written" /\ r \in Busy'
    BY <1>2 DEF Inv, TypeOK, Request, Writes, Busy
  <2>2. CASE req'[r].kind = "create"
    BY <2>1, <2>2, NoDomainAssumption DEF CreatedOK
  <2>3. CASE req'[r].kind = "update"
    <3>1. /\ req'[r].row = Amended(r)' /\ req'[r].domain # NoDomain
          /\ Exists(req[r].id)'
      BY <2>1, <2>3 DEF Inv, WrittenOK, LocksOK, Held, NoNullDomain
    <3>2. company'[req'[r].id].domain # NoDomain
      BY <1>1, <2>1, <3>1 DEF EveryCompanyHasADomain
    <3>3. (Amended(r).domain = Or(req[r].domain, company[req[r].id].domain))'
      BY <3>1, AmendedRow, PTL DEF Inv
    <3>4. QED BY <3>1, <3>2, <3>3 DEF Or
  <2>4. QED BY <2>1, <2>2, <2>3
<1>3. QED BY <1>1, <1>2 DEF NamedOK

\* EveryCompanyHasADomain needs of the PATCH what the DTO of the POST demands: that it
\* names no null for a domain.
THEOREM CompaniesKeepTheirDomain ==
  Spec /\ [](NoNullDomain) => []EveryCompanyHasADomain
<1>1. Init => RegistryInv /\ NamedOK
  <2>1. Init => NamedOK
    BY NoRowAssumption
    DEF Init, NamedOK, EveryCompanyHasADomain, Exists, Writes, Idle, NoRowIsARow, NoRow
  <2>2. QED BY <2>1, InitRegistry
<1>2. RegistryInv /\ [Next]_vars => RegistryInv'
  BY NextKeepsInv, NextKeepsCreated DEF RegistryInv
<1>3. RegistryInv /\ RegistryInv' /\ NamedOK /\ NoNullDomain' /\ [Next]_vars => NamedOK'
  BY NamedStep
<1>4. NamedOK => EveryCompanyHasADomain
  BY DEF NamedOK
<1>5. QED BY <1>1, <1>2, <1>3, <1>4, PTL DEF Spec
=============================================================================
