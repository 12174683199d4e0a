--------------------------- MODULE TicketsProofs ---------------------------
(***************************************************************************)
(* What holds of Tickets for every set of requests, tickets, users and     *)
(* texts and every bound.                                                  *)
(***************************************************************************)
EXTENDS Tickets, TLAPS

\* What a slot holds at each stage; with the types, enough to be inductive.
SlotsOK ==
  \A r \in Requests :
    /\ pc[r] # "idle" => call[r] \in Call
    /\ pc[r] # "idle" /\ call[r].op # "create" => call[r].ticket \in Opened
    /\ pc[r] \in {"loaded", "vetted"} => call[r].op # "create" /\ before[r] \in Row
    /\ pc[r] = "numbered" => call[r].op = "create"
    /\ pc[r] \in {"numbered", "written", "committed"} => after[r] \in Row

TypeInv == TypeOK /\ SlotsOK

\* A change keeps a row a row.
LEMMA AmendedIsRow ==
  ASSUME NEW c \in Call, NEW row \in Row, c.op # "create"
  PROVE  Amended(c, row) \in Row
<1>1. row.version + 1 \in Nat /\ c.text \in Texts /\ c.assignee \in Person
      /\ c.status \in Statuses /\ c.actor \in Person
  BY DEF Row, Call, Person
<1>2. CASE c.op = "update"
  <2>1. Amended(c, row) = [row EXCEPT !.text = c.text, !.version = row.version + 1]
    BY <1>2 DEF Amended
  <2>2. QED BY <1>1, <2>1 DEF Row
<1>3. CASE c.op = "assign"
  <2>1. Amended(c, row)
          = [row EXCEPT !.assignee = c.assignee, !.version = row.version + 1]
    BY <1>3 DEF Amended
  <2>2. QED BY <1>1, <2>1 DEF Row
<1>4. CASE c.op = "changeStatus"
  <2>1. PICK res \in BOOLEAN, by \in Person :
          Amended(c, row) = [row EXCEPT !.status = c.status, !.resolved = res,
                                        !.closedBy = by, !.version = row.version + 1]
    <3> DEFINE res == CASE c.status = "RESOLVED" -> TRUE
                        [] c.status = "OPEN"     -> FALSE
                        [] OTHER                 -> row.resolved
               by == IF c.status = "CLOSED" THEN c.actor ELSE row.closedBy
    <3>1. Amended(c, row) = [row EXCEPT !.status = c.status, !.resolved = res,
                                        !.closedBy = by, !.version = row.version + 1]
      BY <1>4 DEF Amended
    <3>2. res \in BOOLEAN
      BY DEF Row
    <3>3. by \in Person
      BY <1>1 DEF Row
    <3>4. QED BY <3>1, <3>2, <3>3
  <2>2. QED BY <1>1, <2>1 DEF Row
<1>5. QED
  BY <1>2, <1>3, <1>4 DEF Call, Ops

LEMMA NewRowIsRow ==
  ASSUME NEW c \in Call, NEW n \in Nat
  PROVE  NewRow(c, n) \in Row
BY DEF NewRow, Row, Call, Statuses, Person

LEMMA OpenedIsRow ==
  ASSUME TypeOK, NEW t \in Tickets
  PROVE  t \in Opened <=> ticket[t] \in Row
BY NoTicketAssumption DEF TypeOK, Opened, NoTicketIsNoRow

LEMMA AskingIsCall ==
  ASSUME TypeOK, NEW u \in Users, NEW op \in Ops, NEW t \in Tickets,
         NEW v \in Nat, NEW s \in Statuses, NEW x \in Texts, NEW a \in Person
  PROVE  Asking(u, op, t, v, s, x, a) \in Call
BY DEF Asking, Call, TypeOK

LEMMA SentVersionIsNat ==
  ASSUME NEW t, NEW v \in SentVersions(t)
  PROVE  v \in Nat
BY BoundsAssumption DEF SentVersions

\* A step that only ends the request keeps the types.
LEMMA EndKeepsTypes ==
  ASSUME TypeInv, NEW r \in Requests, End(r)
  PROVE  TypeInv'
BY DEF TypeInv, TypeOK, SlotsOK, End, Opened, Stages

\* So does the opening of a request's transaction.
LEMMA AcceptKeepsTypes ==
  ASSUME TypeInv, NEW r \in Requests, NEW u \in Users, NEW roles, NEW c \in Call,
         Accept(r, u, roles, c), c.op # "create" => c.ticket \in Opened
  PROVE  TypeInv'
BY DEF TypeInv, TypeOK, SlotsOK, Accept, Opened, Stages

\* The types, for every action.
LEMMA TypeInvStep == TypeInv /\ [Next]_vars => TypeInv'
<1> SUFFICES ASSUME TypeInv, [Next]_vars
             PROVE  TypeInv'
  OBVIOUS
<1> USE DEF TypeInv
<1>1. ASSUME NEW r \in Requests, AcceptCreate(r)
      PROVE  TypeInv'
  <2>1. PICK u \in Users, t \in Tickets \ Opened, x \in Texts :
          Accept(r, u, {"ADMIN", "REQUESTER"},
                 Asking(u, "create", t, 0, "OPEN", x, NoOne))
    BY <1>1 DEF AcceptCreate
  <2>2. Asking(u, "create", t, 0, "OPEN", x, NoOne) \in Call
    BY AskingIsCall DEF Ops, Statuses, Person
  <2>3. QED BY <2>1, <2>2, AcceptKeepsTypes DEF Asking
<1>2. ASSUME NEW r \in Requests, AcceptUpdate(r)
      PROVE  TypeInv'
  <2>1. PICK u \in Users, t \in Opened, x \in Texts, v \in Nat :
          Accept(r, u, Roles, Asking(u, "update", t, v, "OPEN", x, NoOne))
    BY <1>2, SentVersionIsNat DEF AcceptUpdate
  <2>2. Asking(u, "update", t, v, "OPEN", x, NoOne) \in Call
    BY AskingIsCall DEF Ops, Statuses, Person, Opened
  <2>3. QED BY <2>1, <2>2, AcceptKeepsTypes DEF Asking
<1>3. ASSUME NEW r \in Requests, AcceptChangeStatus(r)
      PROVE  TypeInv'
  <2>1. PICK u \in Users, t \in Opened, s \in Statuses, v \in Nat :
          Accept(r, u, {"ADMIN", "AGENT"},
                 Asking(u, "changeStatus", t, v, s, ticket[t].text, NoOne))
    BY <1>3, SentVersionIsNat DEF AcceptChangeStatus
  <2>2. ticket[t].text \in Texts
    BY OpenedIsRow DEF Row, Opened
  <2>3. Asking(u, "changeStatus", t, v, s, ticket[t].text, NoOne) \in Call
    BY <2>2, AskingIsCall DEF Ops, Person, Opened
  <2>4. QED BY <2>1, <2>3, AcceptKeepsTypes DEF Asking
<1>4. ASSUME NEW r \in Requests, AcceptAssign(r)
      PROVE  TypeInv'
  <2>1. PICK u \in Users, t \in Opened, a \in Person, v \in Nat :
          Accept(r, u, {"ADMIN"},
                 Asking(u, "assign", t, v, "OPEN", ticket[t].text, a))
    BY <1>4, SentVersionIsNat DEF AcceptAssign
  <2>2. ticket[t].text \in Texts
    BY OpenedIsRow DEF Row, Opened
  <2>3. Asking(u, "assign", t, v, "OPEN", ticket[t].text, a) \in Call
    BY <2>2, AskingIsCall DEF Ops, Statuses, Opened
  <2>4. QED BY <2>1, <2>3, AcceptKeepsTypes DEF Asking
<1>5. ASSUME NEW r \in Requests, TakeNumber(r)
      PROVE  TypeInv'
  <2>1. NewRow(call[r], lastNumber + 1) \in Row
    BY <1>5, NewRowIsRow DEF TypeOK, SlotsOK, TakeNumber
  <2>2. QED BY <1>5, <2>1 DEF TypeOK, SlotsOK, TakeNumber, Opened, Stages
<1>6. ASSUME NEW r \in Requests, Insert(r)
      PROVE  TypeInv'
  BY <1>6 DEF TypeOK, SlotsOK, Insert, Opened, Stages
<1>7. ASSUME NEW r \in Requests, Load(r)
      PROVE  TypeInv'
  <2>1. ticket[call[r].ticket] \in Row
    BY <1>7, OpenedIsRow DEF SlotsOK, Load, Loads, Opened
  <2>2. QED BY <1>7, <2>1 DEF TypeOK, SlotsOK, Load, Loads, Opened, Stages
<1>8. ASSUME NEW r \in Requests, VetAssignee(r), ~End(r)
      PROVE  TypeInv'
  BY <1>8 DEF TypeOK, SlotsOK, VetAssignee, Opened, Stages
<1>9. ASSUME NEW r \in Requests, Write(r)
      PROVE  TypeInv'
  <2>1. call[r] \in Call /\ call[r].op # "create"
    BY <1>9 DEF SlotsOK, Write, Updates, Matches
  <2>2. ticket[call[r].ticket] \in Row
    BY <1>9, <2>1, OpenedIsRow DEF SlotsOK, Write, Updates, Matches, Opened
  <2>3. Amended(call[r], ticket[call[r].ticket]) \in Row
    BY <2>1, <2>2, AmendedIsRow
  <2>4. TypeOK'
    BY <1>9, <2>3 DEF TypeOK, Write, Stages
  <2>5. SlotsOK'
    BY <1>9, <2>1, <2>3 DEF TypeOK, SlotsOK, Write, Updates, Matches, Opened
  <2>6. QED BY <2>4, <2>5
<1>10. ASSUME NEW r \in Requests, Commit(r)
       PROVE  TypeInv'
  <2>1. after[r] \in Row /\ call[r] \in Call
    BY <1>10 DEF SlotsOK, Commit
  <2>2. after[r].number \in Nat
    BY <2>1 DEF Row
  <2>3. TypeOK'
    BY <1>10, <2>1, <2>2 DEF TypeOK, Commit, Stages
  <2>4. \A t \in Opened : t \in Opened'
    BY <1>10, <2>1, NoTicketAssumption DEF Commit, Opened, TypeOK, NoTicketIsNoRow
  <2>5. SlotsOK'
    BY <1>10, <2>4 DEF TypeOK, SlotsOK, Commit
  <2>6. QED BY <2>3, <2>5
<1>11. ASSUME NEW r \in Requests, End(r)
       PROVE  TypeInv'
  BY <1>11, EndKeepsTypes
<1>12. ASSUME NEW u \in Managed, EditUser(u)
       PROVE  TypeInv'
  <2>1. PICK row \in Edits : user' = [user EXCEPT ![u] = row]
    BY <1>12 DEF EditUser
  <2>2. user' \in [Users -> [role: Roles, active: BOOLEAN]]
    BY <2>1, BoundsAssumption DEF TypeOK
  <2>3. QED BY <1>12, <2>2 DEF TypeOK, SlotsOK, EditUser, Opened, slots
<1>13. CASE UNCHANGED vars
  BY <1>13 DEF TypeOK, SlotsOK, Opened, vars
<1>14. QED
  BY <1>1, <1>2, <1>3, <1>4, <1>5, <1>6, <1>7, <1>8, <1>9, <1>10, <1>11, <1>12,
     <1>13
  DEF Next, Serve, Refuse, Conflict, Drain, Abort

\* The state always has its type.
THEOREM TypeCorrect == Spec => []TypeOK
<1>1. Init => TypeInv
  BY RolesAssumption DEF Init, TypeInv, TypeOK, SlotsOK, Stages
<1>2. TypeInv => TypeOK
  BY DEF TypeInv
<1>3. QED
  BY <1>1, <1>2, TypeInvStep, PTL DEF Spec

----------------------------------------------------------------------------
(* One row per version. *)

Creating(r) == pc[r] \in {"opened", "numbered", "written"} /\ call[r].op = "create"
Amending(r) == pc[r] = "written" /\ call[r].op # "create"

\* What is unwritten, unseen and alone: the id a creation will use, the row a
\* change is computed from.
WritesOK ==
  \A r \in Requests :
    /\ pc[r] \in {"idle", "opened", "numbered"} => before[r] = NoTicket
    /\ pc[r] # "idle" /\ call[r].op = "create" => before[r] = NoTicket
    /\ Creating(r) => /\ ticket[call[r].ticket] = NoTicket
                      /\ \A q \in Requests : q # r /\ pc[q] # "idle"
                                               => call[q].ticket # call[r].ticket
    /\ Creating(r) /\ pc[r] # "opened" => after[r].version = 1
    /\ Amending(r) => /\ after[r] = Amended(call[r], ticket[call[r].ticket])
                      /\ \A q \in Requests : q # r /\ pc[q] = "written"
                                               => call[q].ticket # call[r].ticket

\* Nobody holds a row from the future.
KnownRowsArePast ==
  \A t \in Tickets : \A x \in KnownRows(t) :
    t \in Opened /\ x.version \in Nat /\ x.version <= ticket[t].version

WriteInv == TypeInv /\ WritesOK

LEMMA AmendedVersion ==
  ASSUME NEW c \in Call, NEW row \in Row, c.op # "create"
  PROVE  Amended(c, row).version = row.version + 1
BY DEF Amended, Row, Call, Ops

LEMMA AcceptKeepsWrites ==
  ASSUME WriteInv, NEW r \in Requests, NEW u \in Users, NEW roles, NEW c \in Call,
         Accept(r, u, roles, c),
         IF c.op = "create"
           THEN /\ c.ticket \notin Opened
                /\ \A q \in Requests : pc[q] # "idle" => call[q].ticket # c.ticket
           ELSE c.ticket \in Opened
  PROVE  WritesOK'
<1>1. \A q \in Requests : q # r => pc'[q] = pc[q] /\ call'[q] = call[q]
  BY DEF WriteInv, TypeInv, TypeOK, Accept
<1>2. pc[r] = "idle" /\ pc'[r] = "opened" /\ call'[r] = c
  BY DEF WriteInv, TypeInv, TypeOK, Accept
<1>3. UNCHANGED <<ticket, before, after>>
  BY DEF Accept
<1>4. \A q \in Requests : Creating(q) => call[q].ticket \notin Opened
  BY DEF WriteInv, WritesOK, Opened
<1>5. c.ticket \in Tickets
  BY DEF Call
<1>6. QED
  BY <1>1, <1>2, <1>3, <1>4, <1>5
  DEF WriteInv, WritesOK, Creating, Amending, Opened

LEMMA WriteInvStep == WriteInv /\ [Next]_vars => WriteInv'
<1> SUFFICES ASSUME WriteInv, [Next]_vars
             PROVE  WritesOK'
  BY TypeInvStep DEF WriteInv
<1> USE DEF WriteInv, TypeInv
<1>1. ASSUME NEW r \in Requests, AcceptCreate(r)
      PROVE  WritesOK'
  <2>1. PICK u \in Users, t \in Tickets \ Opened, x \in Texts :
          /\ \A q \in Requests : pc[q] # "idle" => call[q].ticket # t
          /\ Accept(r, u, {"ADMIN", "REQUESTER"},
                    Asking(u, "create", t, 0, "OPEN", x, NoOne))
    BY <1>1 DEF AcceptCreate
  <2>2. Asking(u, "create", t, 0, "OPEN", x, NoOne) \in Call
    BY AskingIsCall DEF Ops, Statuses, Person
  <2>3. QED BY <2>1, <2>2, AcceptKeepsWrites DEF Asking
<1>2. ASSUME NEW r \in Requests, AcceptUpdate(r)
      PROVE  WritesOK'
  <2>1. PICK u \in Users, t \in Opened, x \in Texts, v \in Nat :
          Accept(r, u, Roles, Asking(u, "update", t, v, "OPEN", x, NoOne))
    BY <1>2, SentVersionIsNat DEF AcceptUpdate
  <2>2. Asking(u, "update", t, v, "OPEN", x, NoOne) \in Call
    BY AskingIsCall DEF Ops, Statuses, Person, Opened
  <2>3. QED BY <2>1, <2>2, AcceptKeepsWrites DEF Asking
<1>3. ASSUME NEW r \in Requests, AcceptChangeStatus(r)
      PROVE  WritesOK'
  <2>1. PICK u \in Users, t \in Opened, s \in Statuses, v \in Nat :
          Accept(r, u, {"ADMIN", "AGENT"},
                 Asking(u, "changeStatus", t, v, s, ticket[t].text, NoOne))
    BY <1>3, SentVersionIsNat DEF AcceptChangeStatus
  <2>2. ticket[t].text \in Texts
    BY OpenedIsRow DEF Row, Opened
  <2>3. Asking(u, "changeStatus", t, v, s, ticket[t].text, NoOne) \in Call
    BY <2>2, AskingIsCall DEF Ops, Person, Opened
  <2>4. QED BY <2>1, <2>3, AcceptKeepsWrites DEF Asking
<1>4. ASSUME NEW r \in Requests, AcceptAssign(r)
      PROVE  WritesOK'
  <2>1. PICK u \in Users, t \in Opened, a \in Person, v \in Nat :
          Accept(r, u, {"ADMIN"},
                 Asking(u, "assign", t, v, "OPEN", ticket[t].text, a))
    BY <1>4, SentVersionIsNat DEF AcceptAssign
  <2>2. ticket[t].text \in Texts
    BY OpenedIsRow DEF Row, Opened
  <2>3. Asking(u, "assign", t, v, "OPEN", ticket[t].text, a) \in Call
    BY <2>2, AskingIsCall DEF Ops, Statuses, Opened
  <2>4. QED BY <2>1, <2>3, AcceptKeepsWrites DEF Asking
<1>5. ASSUME NEW r \in Requests, TakeNumber(r)
      PROVE  WritesOK'
  <2>1. after'[r].version = 1
    BY <1>5 DEF TypeOK, TakeNumber, NewRow
  <2>2. QED BY <1>5, <2>1 DEF TypeOK, TakeNumber, WritesOK, Creating, Amending
<1>6. ASSUME NEW r \in Requests, Insert(r)
      PROVE  WritesOK'
  BY <1>6 DEF TypeOK, SlotsOK, Insert, WritesOK, Creating, Amending
<1>7. ASSUME NEW r \in Requests, Load(r)
      PROVE  WritesOK'
  BY <1>7 DEF TypeOK, Load, Loads, WritesOK, Creating, Amending
<1>8. ASSUME NEW r \in Requests, VetAssignee(r), ~End(r)
      PROVE  WritesOK'
  BY <1>8 DEF TypeOK, VetAssignee, WritesOK, Creating, Amending
<1>9. ASSUME NEW r \in Requests, Write(r)
      PROVE  WritesOK'
  <2>1. call[r].op # "create"
    BY <1>9 DEF SlotsOK, Write, Updates, Matches
  <2>2. \A q \in Requests : pc[q] = "written" => call[q].ticket # call[r].ticket
    BY <1>9 DEF Write, RowLocked
  <2>3. QED
    BY <1>9, <2>1, <2>2 DEF TypeOK, Write, Updates, Matches, WritesOK, Creating, Amending
<1>10. ASSUME NEW r \in Requests, Commit(r)
       PROVE  WritesOK'
  <2>1. \A q \in Requests : q # r /\ (Creating(q) \/ Amending(q))
                              => call[q].ticket # call[r].ticket
    BY <1>10 DEF Commit, WritesOK
  <2>2. \A q \in Requests : q # r /\ (Creating(q) \/ Amending(q))
                              => ticket'[call[q].ticket] = ticket[call[q].ticket]
    BY <1>10, <2>1 DEF TypeOK, Commit
  <2>3. QED
    BY <1>10, <2>2 DEF TypeOK, Commit, WritesOK, Creating, Amending
<1>11. ASSUME NEW r \in Requests, End(r)
       PROVE  WritesOK'
  BY <1>11 DEF TypeOK, End, WritesOK, Creating, Amending
<1>12. ASSUME NEW u \in Managed, EditUser(u)
       PROVE  WritesOK'
  BY <1>12 DEF EditUser, slots, WritesOK, Creating, Amending
<1>13. CASE UNCHANGED vars
  BY <1>13 DEF vars, WritesOK, Creating, Amending
<1>14. QED
  BY <1>1, <1>2, <1>3, <1>4, <1>5, <1>6, <1>7, <1>8, <1>9, <1>10, <1>11, <1>12,
     <1>13
  DEF Next, Serve, Refuse, Conflict, Drain, Abort

RowsInv == WriteInv /\ KnownRowsArePast /\ OneRowPerVersion

\* A step that shows nobody a row they did not know, and commits none, keeps both.
LEMMA NothingNewIsKnown ==
  ASSUME RowsInv, UNCHANGED ticket,
         \A t \in Tickets : KnownRows(t)' \subseteq KnownRows(t)
  PROVE  (KnownRowsArePast /\ OneRowPerVersion)'
BY DEF RowsInv, KnownRowsArePast, OneRowPerVersion, Opened

LEMMA RowsInvStep == RowsInv /\ [Next]_vars => RowsInv'
<1> SUFFICES ASSUME RowsInv, [Next]_vars
             PROVE  (KnownRowsArePast /\ OneRowPerVersion)'
  BY WriteInvStep DEF RowsInv
<1> USE DEF RowsInv, WriteInv, TypeInv
<1>1. ASSUME NEW r \in Requests, NEW u \in Users, NEW roles, NEW c,
             Accept(r, u, roles, c)
      PROVE  (KnownRowsArePast /\ OneRowPerVersion)'
  <2>1. before[r] = NoTicket
    BY <1>1 DEF WritesOK, Accept
  <2>2. \A t \in Tickets : KnownRows(t)' \subseteq KnownRows(t)
    BY <1>1, <2>1 DEF TypeOK, Accept, KnownRows
  <2>3. QED BY <1>1, <2>2, NothingNewIsKnown DEF Accept
<1>2. ASSUME NEW r \in Requests, TakeNumber(r) \/ Insert(r)
      PROVE  (KnownRowsArePast /\ OneRowPerVersion)'
  <2>1. \A t \in Tickets : KnownRows(t)' \subseteq KnownRows(t)
    BY <1>2 DEF TypeOK, TakeNumber, Insert, KnownRows
  <2>2. QED BY <1>2, <2>1, NothingNewIsKnown DEF TakeNumber, Insert
<1>3. ASSUME NEW r \in Requests, Load(r)
      PROVE  (KnownRowsArePast /\ OneRowPerVersion)'
  <2>1. \A t \in Tickets : KnownRows(t)' \subseteq KnownRows(t)
    BY <1>3 DEF TypeOK, Load, KnownRows
  <2>2. QED BY <1>3, <2>1, NothingNewIsKnown DEF Load
<1>4. ASSUME NEW r \in Requests, VetAssignee(r), ~End(r)
      PROVE  (KnownRowsArePast /\ OneRowPerVersion)'
  <2>1. \A t \in Tickets : KnownRows(t)' \subseteq KnownRows(t)
    BY <1>4 DEF TypeOK, VetAssignee, KnownRows
  <2>2. QED BY <1>4, <2>1, NothingNewIsKnown DEF VetAssignee
<1>5. ASSUME NEW r \in Requests, Write(r)
      PROVE  (KnownRowsArePast /\ OneRowPerVersion)'
  <2>1. \A t \in Tickets : KnownRows(t)' \subseteq KnownRows(t)
    BY <1>5 DEF TypeOK, Write, Updates, Matches, KnownRows
  <2>2. QED BY <1>5, <2>1, NothingNewIsKnown DEF Write
<1>6. ASSUME NEW r \in Requests, End(r)
      PROVE  (KnownRowsArePast /\ OneRowPerVersion)'
  <2>1. \A t \in Tickets : KnownRows(t)' \subseteq KnownRows(t)
    BY <1>6 DEF TypeOK, End, KnownRows
  <2>2. QED BY <1>6, <2>1, NothingNewIsKnown DEF End
<1>7. ASSUME NEW r \in Requests, Commit(r)
      PROVE  (KnownRowsArePast /\ OneRowPerVersion)'
  <2> DEFINE at == call[r].ticket
             new == after[r]
  <2>1. at \in Tickets /\ new \in Row /\ ticket' = [ticket EXCEPT ![at] = new]
    BY <1>7 DEF SlotsOK, Commit, Call
  <2>2. \A t \in Tickets : KnownRows(t)' \subseteq KnownRows(t) \cup {ticket'[t]}
    BY <1>7, <2>1 DEF TypeOK, Commit, KnownRows
  <2>3. \A x \in KnownRows(at) : x.version \in Nat /\ x.version < new.version
    <3>1. CASE call[r].op = "create"
      BY <1>7, <2>1, <3>1 DEF Commit, WritesOK, Creating, KnownRowsArePast, Opened
    <3>2. CASE call[r].op # "create"
      <4>1. at \in Opened /\ ticket[at] \in Row /\ call[r] \in Call
        BY <1>7, <2>1, <3>2, OpenedIsRow DEF SlotsOK, Commit
      <4>2. new = Amended(call[r], ticket[at])
        BY <1>7, <3>2 DEF Commit, WritesOK, Amending
      <4>3. new.version = ticket[at].version + 1 /\ ticket[at].version \in Nat
        BY <3>2, <4>1, <4>2, AmendedVersion DEF Row
      <4>4. QED BY <2>1, <4>3 DEF KnownRowsArePast
    <3>3. QED BY <3>1, <3>2
  <2>4. new.version \in Nat
    BY <2>1 DEF Row
  <2>5. ticket'[at] = new /\ \A t \in Tickets \ {at} : ticket'[t] = ticket[t]
    BY <2>1 DEF TypeOK
  <2>6. new # NoTicket
    BY <2>1, NoTicketAssumption DEF NoTicketIsNoRow
  <2>7. ASSUME NEW t \in Tickets, t # at
        PROVE  KnownRows(t)' \subseteq KnownRows(t)
    BY <2>2, <2>5, <2>7, <1>7 DEF KnownRows, TypeOK, Commit
  <2>8. KnownRowsArePast'
    <3> SUFFICES ASSUME NEW t \in Tickets, NEW x \in KnownRows(t)'
                 PROVE  (t \in Opened)' /\ x.version \in Nat
                        /\ x.version <= ticket'[t].version
      BY DEF KnownRowsArePast
    <3>1. CASE t = at
      <4>1. x \in KnownRows(at) \/ x = new
        BY <2>2, <2>5, <3>1
      <4>2. CASE x \in KnownRows(at)
        <5>1. x.version \in Nat /\ x.version < new.version
          BY <2>3, <4>2
        <5>2. QED BY <2>4, <2>5, <2>6, <3>1, <5>1 DEF Opened
      <4>3. CASE x = new
        BY <2>4, <2>5, <2>6, <3>1, <4>3 DEF Opened
      <4>4. QED BY <4>1, <4>2, <4>3
    <3>2. CASE t # at
      BY <2>5, <2>7, <3>2 DEF KnownRowsArePast, Opened
    <3>3. QED BY <3>1, <3>2
  <2>9. OneRowPerVersion'
    <3> SUFFICES ASSUME NEW t \in Tickets, NEW x \in KnownRows(t)',
                        NEW y \in KnownRows(t)', x.version = y.version
                 PROVE  x = y
      BY DEF OneRowPerVersion
    <3>1. CASE t = at
      <4>1. /\ x \in KnownRows(at) \/ x = new
            /\ y \in KnownRows(at) \/ y = new
        BY <2>2, <2>5, <3>1
      <4>2. CASE x \in KnownRows(at) /\ y \in KnownRows(at)
        BY <2>1, <4>2 DEF OneRowPerVersion
      <4>3. ASSUME NEW z \in KnownRows(at)
            PROVE  z.version # new.version
        <5>1. z.version \in Nat /\ z.version < new.version
          BY <2>3
        <5>2. QED BY <2>4, <5>1
      <4>4. QED BY <4>1, <4>2, <4>3
    <3>2. CASE t # at
      BY <2>7, <3>2 DEF OneRowPerVersion
    <3>3. QED BY <3>1, <3>2
  <2>10. QED BY <2>8, <2>9
<1>8. ASSUME NEW u \in Managed, EditUser(u)
      PROVE  (KnownRowsArePast /\ OneRowPerVersion)'
  <2>1. \A t \in Tickets : KnownRows(t)' \subseteq KnownRows(t)
    BY <1>8 DEF EditUser, slots, KnownRows
  <2>2. QED BY <1>8, <2>1, NothingNewIsKnown DEF EditUser
<1>9. CASE UNCHANGED vars
  <2>1. \A t \in Tickets : KnownRows(t)' \subseteq KnownRows(t)
    BY <1>9 DEF vars, KnownRows
  <2>2. QED BY <1>9, <2>1, NothingNewIsKnown DEF vars
<1>10. QED
  <2>1. ASSUME NEW r \in Requests,
               \/ AcceptCreate(r) \/ AcceptUpdate(r)
               \/ AcceptChangeStatus(r) \/ AcceptAssign(r)
        PROVE  (KnownRowsArePast /\ OneRowPerVersion)'
    BY <1>1, <2>1 DEF AcceptCreate, AcceptUpdate, AcceptChangeStatus, AcceptAssign,
                      Opened
  <2>2. QED
    BY <1>2, <1>3, <1>4, <1>5, <1>6, <1>7, <1>8, <1>9, <2>1
    DEF Next, Serve, Refuse, Conflict, Drain, Abort

\* One row per version, whatever versions clients send.
THEOREM VersionsIdentifyRows == Spec => []OneRowPerVersion
<1>1. Init => RowsInv
  BY RolesAssumption
  DEF Init, RowsInv, WriteInv, TypeInv, TypeOK, SlotsOK, Stages, WritesOK, Creating,
      Amending, KnownRowsArePast, OneRowPerVersion, KnownRows
<1>2. RowsInv => OneRowPerVersion
  BY DEF RowsInv
<1>3. QED
  BY <1>1, <1>2, RowsInvStep, PTL DEF Spec

----------------------------------------------------------------------------
(* Clients that send only versions they have read. *)

\* A request asks about a version that exists; what it loaded is no older; and once
\* it holds the row lock, what it loaded is the row.
ReadsOK ==
  \A r \in Requests :
    /\ pc[r] # "idle" /\ call[r].op # "create"
         => call[r].version <= ticket[call[r].ticket].version
    /\ pc[r] \in {"loaded", "vetted"}
         => /\ call[r].version <= before[r].version
            /\ visibleTo(call[r], before[r])
            /\ Admits(call[r], before[r])
    /\ Amending(r)
         => /\ before[r] = ticket[call[r].ticket]
            /\ visibleTo(call[r], before[r])
            /\ Admits(call[r], before[r])

ReadInv == RowsInv /\ ReadsOK

\* The row a change commits was computed from the row it replaces.
LEMMA AmendingCommit ==
  ASSUME WriteInv, NEW r \in Requests, Commit(r), call[r].op # "create"
  PROVE  /\ call[r] \in Call
         /\ call[r].ticket \in Opened
         /\ ticket[call[r].ticket] \in Row
         /\ after[r] = Amended(call[r], ticket[call[r].ticket])
         /\ after[r].version = ticket[call[r].ticket].version + 1
<1> USE DEF WriteInv, TypeInv
<1>1. call[r] \in Call /\ call[r].ticket \in Opened
  BY DEF SlotsOK, Commit
<1>2. ticket[call[r].ticket] \in Row
  BY <1>1, OpenedIsRow DEF Call
<1>3. after[r] = Amended(call[r], ticket[call[r].ticket])
  BY DEF Commit, WritesOK, Amending
<1>4. QED BY <1>1, <1>2, <1>3, AmendedVersion

LEMMA AcceptKeepsReads ==
  ASSUME ReadInv, NEW r \in Requests, NEW u, NEW roles, NEW c,
         Accept(r, u, roles, c),
         c.op # "create" => c.version <= ticket[c.ticket].version
  PROVE  ReadsOK'
BY DEF ReadInv, RowsInv, WriteInv, TypeInv, TypeOK, Accept, ReadsOK, Amending,
       visibleTo, Admits

LEMMA ReadInvStep ==
  ASSUME ~ClientsGuess
  PROVE  ReadInv /\ [Next]_vars => ReadInv'
<1> SUFFICES ASSUME ReadInv, [Next]_vars
             PROVE  ReadsOK'
  BY RowsInvStep DEF ReadInv
<1> USE DEF ReadInv, RowsInv, WriteInv, TypeInv
<1>1. ASSUME NEW r \in Requests,
             \/ AcceptCreate(r) \/ AcceptUpdate(r)
             \/ AcceptChangeStatus(r) \/ AcceptAssign(r)
      PROVE  ReadsOK'
  <2>1. \A t \in Opened : \A v \in SentVersions(t) : v <= ticket[t].version
    BY DEF SentVersions
  <2>2. CASE AcceptCreate(r)
    BY <2>2, AcceptKeepsReads DEF AcceptCreate, Asking
  <2>3. CASE AcceptUpdate(r)
    BY <2>1, <2>3, AcceptKeepsReads DEF AcceptUpdate, Asking
  <2>4. CASE AcceptChangeStatus(r)
    BY <2>1, <2>4, AcceptKeepsReads DEF AcceptChangeStatus, Asking
  <2>5. CASE AcceptAssign(r)
    BY <2>1, <2>5, AcceptKeepsReads DEF AcceptAssign, Asking
  <2>6. QED BY <1>1, <2>2, <2>3, <2>4, <2>5
<1>2. ASSUME NEW r \in Requests, TakeNumber(r) \/ Insert(r)
      PROVE  ReadsOK'
  BY <1>2 DEF TypeOK, SlotsOK, TakeNumber, Insert, ReadsOK, Amending, visibleTo, Admits
<1>3. ASSUME NEW r \in Requests, Load(r)
      PROVE  ReadsOK'
  BY <1>3 DEF TypeOK, Load, Loads, ReadsOK, Amending
<1>4. ASSUME NEW r \in Requests, VetAssignee(r), ~End(r)
      PROVE  ReadsOK'
  BY <1>4 DEF TypeOK, VetAssignee, ReadsOK, Amending
<1>5. ASSUME NEW r \in Requests, Write(r)
      PROVE  ReadsOK'
  <2> DEFINE row == ticket[call[r].ticket]
  <2>1. /\ pc[r] \in {"loaded", "vetted"} /\ call[r].op # "create"
        /\ call[r] \in Call /\ before[r] \in Row /\ call[r].ticket \in Opened
        /\ row.version = call[r].version
    BY <1>5 DEF SlotsOK, Write, Updates, Matches
  <2>2. row \in Row /\ row # NoTicket /\ before[r] # NoTicket
    BY <2>1, OpenedIsRow, NoTicketAssumption DEF NoTicketIsNoRow, Opened
  <2>3. row \in KnownRows(call[r].ticket) /\ before[r] \in KnownRows(call[r].ticket)
    BY <2>1, <2>2 DEF KnownRows
  <2>4. before[r].version <= row.version /\ call[r].version <= before[r].version
    BY <2>1, <2>3 DEF KnownRowsArePast, ReadsOK, Opened
  <2>5. before[r].version = row.version
    BY <2>1, <2>2, <2>4 DEF Row
  <2>6. before[r] = row
    BY <2>1, <2>3, <2>5 DEF OneRowPerVersion, Opened
  <2>7. QED BY <1>5, <2>1, <2>6 DEF TypeOK, Write, ReadsOK, Amending
<1>6. ASSUME NEW r \in Requests, Commit(r)
      PROVE  ReadsOK'
  <2>1. UNCHANGED <<call, before>> /\ pc' = [pc EXCEPT ![r] = "committed"]
        /\ ticket' = [ticket EXCEPT ![call[r].ticket] = after[r]] /\ pc[r] = "written"
    BY <1>6 DEF Commit
  <2>2. ASSUME NEW q \in Requests, pc[q] # "idle", call[q].op # "create"
        PROVE  call[q].version <= ticket'[call[q].ticket].version
    <3>1. call[q].ticket \in Opened /\ ticket[call[q].ticket] \in Row
          /\ call[q] \in Call
      BY <2>2, OpenedIsRow DEF SlotsOK, Opened
    <3>2. CASE call[q].ticket = call[r].ticket
      <4>1. call[r].op # "create"
        BY <2>1, <3>1, <3>2 DEF WritesOK, Creating, Opened
      <4>2. after[r].version = ticket[call[q].ticket].version + 1
        BY <1>6, <3>2, <4>1, AmendingCommit
      <4>3. ticket'[call[q].ticket] = after[r]
        BY <2>1, <3>1, <3>2 DEF TypeOK, Opened
      <4>4. call[q].version <= ticket[call[q].ticket].version
        BY <2>2 DEF ReadsOK
      <4>5. call[q].version \in Nat /\ ticket[call[q].ticket].version \in Nat
        BY <3>1 DEF Row, Call
      <4>6. QED BY <4>2, <4>3, <4>4, <4>5
    <3>3. CASE call[q].ticket # call[r].ticket
      BY <2>1, <2>2, <3>1, <3>3 DEF TypeOK, ReadsOK, Opened
    <3>4. QED BY <3>2, <3>3
  <2>3. ASSUME NEW q \in Requests, Amending(q), q # r
        PROVE  ticket'[call[q].ticket] = ticket[call[q].ticket]
    BY <2>1, <2>3 DEF TypeOK, WritesOK, Amending
  <2>4. \A q \in Requests : /\ pc'[q] # "idle" <=> pc[q] # "idle"
                            /\ pc'[q] \in {"loaded", "vetted"} => pc'[q] = pc[q]
                            /\ Amending(q)' => Amending(q) /\ q # r
    BY <2>1 DEF TypeOK, Amending
  <2>5. QED
    BY <2>1, <2>2, <2>3, <2>4 DEF ReadsOK, visibleTo, Admits
<1>7. ASSUME NEW r \in Requests, End(r)
      PROVE  ReadsOK'
  BY <1>7 DEF TypeOK, End, ReadsOK, Amending, visibleTo, Admits
<1>8. ASSUME NEW u \in Managed, EditUser(u)
      PROVE  ReadsOK'
  BY <1>8 DEF EditUser, slots, ReadsOK, Amending
<1>9. CASE UNCHANGED vars
  BY <1>9 DEF vars, ReadsOK, Amending
<1>10. QED
  BY <1>1, <1>2, <1>3, <1>4, <1>5, <1>6, <1>7, <1>8, <1>9
  DEF Next, Serve, Refuse, Conflict, Drain, Abort

LEMMA ReadInvInit == Init => ReadInv
BY RolesAssumption
DEF Init, ReadInv, ReadsOK, RowsInv, WriteInv, TypeInv, TypeOK, SlotsOK, Stages,
    WritesOK, Creating, Amending, KnownRowsArePast, OneRowPerVersion, KnownRows

\* A write replaces the row its checks were made on.
THEOREM NoLostUpdate ==
  ASSUME ~ClientsGuess
  PROVE  Spec => []WritesOverWhatItRead
<1>1. ReadInv => WritesOverWhatItRead
  BY DEF ReadInv, ReadsOK, Amending, WritesOverWhatItRead
<1>2. ReadInv /\ [Next]_vars => ReadInv'
  BY ReadInvStep
<1>3. QED
  BY <1>1, <1>2, ReadInvInit, PTL DEF Spec

\* Whoever changes a ticket is involved in it, or an ADMIN, as it changes.
THEOREM ChangesAreByTheInvolved ==
  ASSUME ~ClientsGuess
  PROVE  Spec => OnlyTheInvolvedChange
<1>1. ReadInv =>
        \A r \in Requests : Commit(r) /\ call[r].op # "create" =>
          LET row == ticket[call[r].ticket]
          IN  \/ call[r].role = "ADMIN"
              \/ call[r].actor \in {row.requester, row.assignee}
  BY DEF ReadInv, ReadsOK, Commit, Amending, visibleTo, seesEveryTicket,
         ticketsInvolving
<1>2. ReadInv /\ [Next]_vars => ReadInv'
  BY ReadInvStep
<1>3. QED
  BY <1>1, <1>2, ReadInvInit, PTL DEF Spec, OnlyTheInvolvedChange

\* Nobody is told of a conflict who was up to date: the version a 409 names lies between
\* the one that was sent and the one that is there, and the first is behind the last.
THEOREM ConflictsAreReal ==
  ASSUME ~ClientsGuess
  PROVE  Spec => [][\A r \in Requests :
                      LET row == ticket[call[r].ticket]
                      IN  Conflict(r) => /\ call[r].version <= before[r].version
                                         /\ before[r].version <= row.version
                                         /\ call[r].version < row.version]_vars
<1> DEFINE Real ==
      \A r \in Requests :
        LET row == ticket[call[r].ticket]
        IN  Conflict(r) => /\ call[r].version <= before[r].version
                           /\ before[r].version <= row.version
                           /\ call[r].version < row.version
<1>1. ASSUME ReadInv PROVE Real
  <2> SUFFICES ASSUME NEW r \in Requests, Conflict(r)
               PROVE  LET row == ticket[call[r].ticket]
                      IN  /\ call[r].version <= before[r].version
                          /\ before[r].version <= row.version
                          /\ call[r].version < row.version
    OBVIOUS
  <2>1. TypeOK /\ SlotsOK /\ KnownRowsArePast /\ ReadsOK
    BY <1>1 DEF ReadInv, RowsInv, WriteInv, TypeInv
  <2>2. /\ pc[r] \in {"loaded", "vetted"} /\ call[r] \in Call /\ before[r] \in Row
        /\ call[r].ticket \in Tickets /\ call[r].ticket \in Opened
        /\ ticket[call[r].ticket].version # call[r].version
    BY <2>1 DEF SlotsOK, Conflict, Updates, Matches, Opened
  <2>3. ticket[call[r].ticket] \in Row
    BY <2>1, <2>2, OpenedIsRow
  <2>4. before[r] # NoTicket
    BY <2>2, NoTicketAssumption DEF NoTicketIsNoRow
  <2>5. before[r] \in KnownRows(call[r].ticket)
    BY <2>2, <2>4 DEF KnownRows
  <2>6. before[r].version <= ticket[call[r].ticket].version
    BY <2>1, <2>2, <2>5 DEF KnownRowsArePast
  <2>7. call[r].version <= before[r].version
    BY <2>1, <2>2 DEF ReadsOK
  <2>8. /\ call[r].version \in Nat /\ before[r].version \in Nat
        /\ ticket[call[r].ticket].version \in Nat
    BY <2>2, <2>3 DEF Call, Row
  <2>9. QED BY <2>2, <2>6, <2>7, <2>8
<1>2. ReadInv /\ [Next]_vars => ReadInv'
  BY ReadInvStep
<1>3. QED BY <1>1, <1>2, ReadInvInit, PTL DEF Spec

\* A ticket stays as it is while a request holds the copy it has read.
LoadedStay ==
  \A r \in Requests :
    pc[r] \in {"loaded", "vetted"} => ticket'[call[r].ticket] = ticket[call[r].ticket]

CopiesOK ==
  \A r \in Requests :
    pc[r] \in {"loaded", "vetted"} => before[r] = ticket[call[r].ticket]

LEMMA CopiesStep ==
  ASSUME TypeInv, CopiesOK, [Next]_vars, [LoadedStay]_vars
  PROVE  CopiesOK'
<1>1. CASE UNCHANGED vars
  BY <1>1 DEF CopiesOK, vars
<1>2. CASE Next /\ LoadedStay
  <2>1. ASSUME NEW r \in Requests, pc'[r] \in {"loaded", "vetted"}
        PROVE  \/ /\ pc[r] \in {"loaded", "vetted"}
                  /\ call'[r] = call[r] /\ before'[r] = before[r]
               \/ Load(r)
    BY <1>2, <2>1
    DEF TypeInv, TypeOK, Next, Serve, AcceptCreate, AcceptUpdate, AcceptChangeStatus,
        AcceptAssign, Accept, TakeNumber, Insert, Load, Refuse, VetAssignee, Write,
        Conflict, Commit, Drain, Abort, End, EditUser, slots
  <2>2. ASSUME NEW r \in Requests, Load(r)
        PROVE  before'[r] = ticket'[call'[r].ticket]
    BY <2>2 DEF Load, TypeInv, TypeOK
  <2>3. QED BY <1>2, <2>1, <2>2 DEF CopiesOK, LoadedStay
<1>3. QED BY <1>1, <1>2

\* What a 409 would need to name the current version, whatever clients send: that no
\* commit falls between the read of the row and the UPDATE that misses it.
THEOREM ConflictsNameWhatStays ==
  Spec /\ [][LoadedStay]_vars => ConflictNamesCurrentVersion
<1>1. Init => TypeInv /\ CopiesOK
  BY ReadInvInit DEF Init, CopiesOK, ReadInv, RowsInv, WriteInv
<1>2. TypeInv /\ CopiesOK /\ [Next]_vars /\ [LoadedStay]_vars => TypeInv' /\ CopiesOK'
  BY TypeInvStep, CopiesStep
<1>3. CopiesOK => \A r \in Requests :
                    Conflict(r) => before[r].version = ticket[call[r].ticket].version
  BY DEF CopiesOK, Conflict, Updates
<1>4. QED
  BY <1>1, <1>2, <1>3, PTL DEF Spec, ConflictNamesCurrentVersion

----------------------------------------------------------------------------
(* Numbers. *)

HoldsNumber(r) == pc[r] = "numbered" \/ (pc[r] = "written" /\ call[r].op = "create")

\* The transaction holding the counter row is alone and is about to use the next
\* number; the committed tickets use all those before it.
NumbersOK ==
  /\ NumbersAreContiguous
  /\ \A r \in Requests :
       HoldsNumber(r) => /\ after[r] = NewRow(call[r], lastNumber + 1)
                         /\ \A q \in Requests : q # r => ~HoldsNumber(q)

NumberInv == WriteInv /\ NumbersOK

LEMMA SameTicketsSameNumbers ==
  ASSUME NumberInv, UNCHANGED <<ticket, lastNumber>>
  PROVE  NumbersAreContiguous'
BY DEF NumberInv, NumbersOK, NumbersAreContiguous, Opened

\* A step that draws no number and commits nothing keeps who holds one.
LEMMA NumbersKept ==
  ASSUME NumberInv, UNCHANGED <<ticket, lastNumber>>,
         \A r \in Requests :
           HoldsNumber(r)' => HoldsNumber(r) /\ call'[r] = call[r] /\ after'[r] = after[r]
  PROVE  NumbersOK'
<1>1. \A r \in Requests :
        HoldsNumber(r)' => /\ after'[r] = NewRow(call'[r], lastNumber' + 1)
                           /\ \A q \in Requests : q # r => ~HoldsNumber(q)'
  BY DEF NumberInv, NumbersOK
<1>2. QED
  BY <1>1, SameTicketsSameNumbers DEF NumbersOK

LEMMA NumberInvStep == NumberInv /\ [Next]_vars => NumberInv'
<1> SUFFICES ASSUME NumberInv, [Next]_vars
             PROVE  NumbersOK'
  BY WriteInvStep DEF NumberInv
<1> USE DEF NumberInv, WriteInv, TypeInv
<1>1. ASSUME NEW r \in Requests, NEW u \in Users, NEW roles, NEW c,
             Accept(r, u, roles, c)
      PROVE  NumbersOK'
  <2>1. UNCHANGED <<ticket, lastNumber>> /\ ~HoldsNumber(r)'
    BY <1>1 DEF Accept, TypeOK, HoldsNumber
  <2>2. \A q \in Requests : q # r => /\ HoldsNumber(q)' <=> HoldsNumber(q)
                                    /\ call'[q] = call[q] /\ after'[q] = after[q]
    BY <1>1 DEF Accept, TypeOK, HoldsNumber
  <2>3. QED BY <2>1, <2>2, NumbersKept
<1>2. ASSUME NEW r \in Requests, TakeNumber(r)
      PROVE  NumbersOK'
  BY <1>2, SameTicketsSameNumbers
  DEF TypeOK, TakeNumber, NumberLocked, NumbersOK, HoldsNumber, NewRow
<1>3. ASSUME NEW r \in Requests, Insert(r)
      PROVE  NumbersOK'
  <2>1. UNCHANGED <<ticket, lastNumber, call, after>> /\ HoldsNumber(r)
    BY <1>3 DEF Insert, HoldsNumber
  <2>2. \A q \in Requests : q # r => (HoldsNumber(q)' <=> HoldsNumber(q))
    BY <1>3 DEF Insert, TypeOK, HoldsNumber
  <2>3. QED BY <2>1, <2>2, NumbersKept
<1>4. ASSUME NEW r \in Requests, Load(r)
      PROVE  NumbersOK'
  <2>1. UNCHANGED <<ticket, lastNumber, call, after>> /\ ~HoldsNumber(r)'
    BY <1>4 DEF Load, TypeOK, HoldsNumber
  <2>2. \A q \in Requests : q # r => (HoldsNumber(q)' <=> HoldsNumber(q))
    BY <1>4 DEF Load, TypeOK, HoldsNumber
  <2>3. QED BY <2>1, <2>2, NumbersKept
<1>5. ASSUME NEW r \in Requests, VetAssignee(r), ~End(r)
      PROVE  NumbersOK'
  <2>1. UNCHANGED <<ticket, lastNumber, call, after>> /\ ~HoldsNumber(r)'
    BY <1>5 DEF VetAssignee, TypeOK, HoldsNumber
  <2>2. \A q \in Requests : q # r => (HoldsNumber(q)' <=> HoldsNumber(q))
    BY <1>5 DEF VetAssignee, TypeOK, HoldsNumber
  <2>3. QED BY <2>1, <2>2, NumbersKept
<1>6. ASSUME NEW r \in Requests, Write(r)
      PROVE  NumbersOK'
  <2>1. call[r].op # "create"
    BY <1>6 DEF SlotsOK, Write, Updates, Matches
  <2>2. UNCHANGED <<ticket, lastNumber, call>> /\ ~HoldsNumber(r)'
    BY <1>6, <2>1 DEF Write, TypeOK, HoldsNumber
  <2>3. \A q \in Requests : q # r => /\ HoldsNumber(q)' <=> HoldsNumber(q)
                                    /\ after'[q] = after[q]
    BY <1>6 DEF Write, TypeOK, HoldsNumber
  <2>4. QED BY <2>2, <2>3, NumbersKept
<1>7. ASSUME NEW r \in Requests, Commit(r)
      PROVE  NumbersOK'
  <2> DEFINE at == call[r].ticket
             new == after[r]
  <2>1. /\ at \in Tickets /\ new \in Row /\ new # NoTicket /\ pc[r] = "written"
        /\ pc' = [pc EXCEPT ![r] = "committed"] /\ UNCHANGED <<call, after>>
    BY <1>7, NoTicketAssumption DEF SlotsOK, Commit, Call, NoTicketIsNoRow
  <2>2. ticket' = [ticket EXCEPT ![at] = new]
    BY <1>7 DEF Commit
  <2>3. Opened' = Opened \cup {at}
    BY <2>1, <2>2 DEF TypeOK, Opened
  <2>4. CASE call[r].op = "create"
    <3>1. /\ at \notin Opened
          /\ new.number = lastNumber + 1
          /\ lastNumber' = lastNumber + 1
      <4>1. new = NewRow(call[r], lastNumber + 1)
        BY <2>1, <2>4 DEF NumbersOK, HoldsNumber
      <4>2. new.number = lastNumber + 1
        BY <4>1 DEF NewRow
      <4>3. ticket[at] = NoTicket
        BY <2>1, <2>4 DEF WritesOK, Creating
      <4>4. QED BY <1>7, <2>4, <4>2, <4>3 DEF Commit, Opened
    <3>2. \A t \in Opened : t # at /\ ticket'[t] = ticket[t]
      BY <2>1, <2>2, <3>1 DEF TypeOK, Opened
    <3>3. ticket'[at].number = lastNumber + 1
      BY <2>1, <2>2, <3>1 DEF TypeOK
    <3>4. \A t \in Opened : ticket[t].number \in 1 .. lastNumber
      <4>1. \A t \in Opened : ticket[t].number \in {ticket[s].number : s \in Opened}
        OBVIOUS
      <4>2. QED BY <4>1 DEF NumbersOK, NumbersAreContiguous
    <3>5. lastNumber \in Nat
      BY DEF TypeOK
    <3>6. {ticket'[t].number : t \in Opened'} = 1 .. lastNumber'
      <4>1. 1 .. lastNumber' = (1 .. lastNumber) \cup {lastNumber + 1}
        BY <3>1, <3>5
      <4>2. {ticket'[t].number : t \in Opened'}
              = {ticket[t].number : t \in Opened} \cup {lastNumber + 1}
        BY <2>3, <3>2, <3>3
      <4>3. QED BY <4>1, <4>2 DEF NumbersOK, NumbersAreContiguous
    <3>7. \A s, t \in Opened' : ticket'[s].number = ticket'[t].number => s = t
      <4>1. \A t \in Opened : ticket'[t].number # lastNumber + 1
        BY <3>2, <3>4, <3>5
      <4>2. QED
        BY <2>3, <3>2, <3>3, <4>1 DEF NumbersOK, NumbersAreContiguous
    <3>8. \A q \in Requests : ~HoldsNumber(q)'
      BY <2>1, <2>4 DEF TypeOK, NumbersOK, HoldsNumber
    <3>9. QED BY <3>6, <3>7, <3>8 DEF NumbersOK, NumbersAreContiguous
  <2>5. CASE call[r].op # "create"
    <3>1. /\ at \in Opened /\ ticket[at] \in Row
          /\ new = Amended(call[r], ticket[at]) /\ call[r] \in Call
      BY <1>7, <2>5, AmendingCommit
    <3>2. new.number = ticket[at].number
      BY <2>5, <3>1 DEF Amended, Row, Call, Ops
    <3>3. Opened' = Opened /\ lastNumber' = lastNumber
      BY <1>7, <2>3, <2>5, <3>1 DEF Commit
    <3>4. \A t \in Opened : ticket'[t].number = ticket[t].number
      BY <2>1, <2>2, <3>2 DEF TypeOK, Opened
    <3>5. NumbersAreContiguous'
      BY <3>3, <3>4 DEF NumbersOK, NumbersAreContiguous
    <3>6. \A q \in Requests : HoldsNumber(q)' <=> HoldsNumber(q)
      BY <2>1, <2>5 DEF TypeOK, HoldsNumber
    <3>7. QED BY <2>1, <3>3, <3>5, <3>6 DEF NumbersOK, NewRow
  <2>6. QED BY <2>4, <2>5
<1>8. ASSUME NEW r \in Requests, End(r)
      PROVE  NumbersOK'
  <2>1. UNCHANGED <<ticket, lastNumber>> /\ ~HoldsNumber(r)'
    BY <1>8 DEF End, TypeOK, HoldsNumber
  <2>2. \A q \in Requests : q # r => /\ HoldsNumber(q)' <=> HoldsNumber(q)
                                    /\ call'[q] = call[q] /\ after'[q] = after[q]
    BY <1>8 DEF End, TypeOK, HoldsNumber
  <2>3. QED BY <2>1, <2>2, NumbersKept
<1>9. ASSUME NEW u \in Managed, EditUser(u)
      PROVE  NumbersOK'
  <2>1. UNCHANGED <<ticket, lastNumber, pc, call, after>>
    BY <1>9 DEF EditUser, slots
  <2>2. QED BY <2>1, NumbersKept DEF HoldsNumber
<1>10. CASE UNCHANGED vars
  <2>1. UNCHANGED <<ticket, lastNumber, pc, call, after>>
    BY <1>10 DEF vars
  <2>2. QED BY <2>1, NumbersKept DEF HoldsNumber
<1>11. QED
  <2>1. ASSUME NEW r \in Requests,
               \/ AcceptCreate(r) \/ AcceptUpdate(r)
               \/ AcceptChangeStatus(r) \/ AcceptAssign(r)
        PROVE  NumbersOK'
    BY <1>1, <2>1 DEF AcceptCreate, AcceptUpdate, AcceptChangeStatus, AcceptAssign,
                      Opened
  <2>2. QED
    BY <1>2, <1>3, <1>4, <1>5, <1>6, <1>7, <1>8, <1>9, <1>10, <2>1
    DEF Next, Serve, Refuse, Conflict, Drain, Abort

LEMMA NumberInvInit == Init => NumberInv
BY RolesAssumption
DEF Init, NumberInv, NumbersOK, NumbersAreContiguous, HoldsNumber, Opened, WriteInv,
    TypeInv, TypeOK, SlotsOK, Stages, WritesOK, Creating, Amending

\* The company's tickets are numbered 1 to last_number, each once.
THEOREM Numbering == Spec => []NumbersAreContiguous
<1>1. NumberInv => NumbersAreContiguous
  BY DEF NumberInv, NumbersOK
<1>2. QED
  BY <1>1, NumberInvInit, NumberInvStep, PTL DEF Spec

----------------------------------------------------------------------------
(* The protocol implements the ledger. *)

StampsOK == \A t \in Opened : Ledger!StampsAgree(ticket[t])

LedgerInv == ReadInv /\ NumbersOK /\ StampsOK

\* A change the checks admit is a change the ledger allows.
LEMMA AdmittedIsAllowed ==
  ASSUME NEW c \in Call, NEW row \in Row, c.op # "create",
         Admits(c, row), Ledger!StampsAgree(row)
  PROVE  Ledger!Changes(row, Amended(c, row))
<1> USE NullsAssumption DEF Ledger!Changes, Ledger!StampsAgree
<1>1. row.status \in Statuses /\ row.resolved \in BOOLEAN
  BY DEF Row
<1>2. CASE c.op = "update"
  <2>1. Amended(c, row) = [row EXCEPT !.text = c.text, !.version = row.version + 1]
    BY <1>2 DEF Amended
  <2>2. row.status # "CLOSED" /\ c.text \in Texts
    BY <1>2 DEF Admits, assertOpenForEditing, Call
  <2>3. Ledger!StampsAgree(Amended(c, row))
    BY <2>1 DEF Row
  <2>4. QED BY <2>1, <2>2, <2>3
<1>3. CASE c.op = "assign"
  <2>1. Amended(c, row)
          = [row EXCEPT !.assignee = c.assignee, !.version = row.version + 1]
    BY <1>3 DEF Amended
  <2>2. row.status # "CLOSED" /\ c.assignee \in Users \cup {NoOne}
    BY <1>3 DEF Admits, assertOpenForEditing, Call, Person
  <2>3. Ledger!StampsAgree(Amended(c, row))
    BY <2>1 DEF Row
  <2>4. QED BY <2>1, <2>2, <2>3
<1>4. CASE c.op = "changeStatus"
  <2> DEFINE res == CASE c.status = "RESOLVED" -> TRUE
                      [] c.status = "OPEN"     -> FALSE
                      [] OTHER                 -> row.resolved
             by == IF c.status = "CLOSED" THEN c.actor ELSE row.closedBy
  <2>1. Amended(c, row) = [row EXCEPT !.status = c.status, !.resolved = res,
                                      !.closedBy = by, !.version = row.version + 1]
    BY <1>4 DEF Amended
  <2>2. canTransition(row.status, c.status)
    BY <1>4 DEF Admits
  <2>3. <<row.status, c.status>> \in Ledger!Moves /\ row.status # "CLOSED"
    BY <1>1, <2>2 DEF canTransition, TICKET_TRANSITIONS, Ledger!Moves, Statuses
  <2>4. /\ res <=> c.status \in {"RESOLVED", "CLOSED"}
        /\ by # NoOne <=> c.status = "CLOSED"
    BY <1>1, <2>2, NullsAssumption
    DEF canTransition, TICKET_TRANSITIONS, Statuses, Call
  <2> HIDE DEF res, by
  <2>5. /\ Amended(c, row).status = c.status
        /\ Amended(c, row).resolved = res
        /\ Amended(c, row).closedBy = by
    BY <2>1 DEF Row
  <2>6. QED BY <2>1, <2>3, <2>4, <2>5
<1>5. QED BY <1>2, <1>3, <1>4 DEF Call, Ops

LEMMA NewIsNew ==
  ASSUME NEW c \in Call, NEW n
  PROVE  Ledger!IsNew(NewRow(c, n), n)
BY DEF Ledger!IsNew, Ledger!StampsAgree, NewRow, Call

\* A commit is a step of the ledger ...
LEMMA CommitIsLedgerStep ==
  ASSUME LedgerInv, NEW r \in Requests, Commit(r)
  PROVE  Ledger!Next
<1> USE DEF LedgerInv, ReadInv, RowsInv, WriteInv, TypeInv
<1> DEFINE at == call[r].ticket
           new == after[r]
<1>1. /\ call[r] \in Call /\ at \in Tickets /\ new \in Row /\ new # NoTicket
      /\ ticket' = [ticket EXCEPT ![at] = new] /\ pc[r] = "written"
  BY NoTicketAssumption DEF SlotsOK, Commit, Call, NoTicketIsNoRow
<1>2. ticket'[at] = new
  BY <1>1 DEF TypeOK
<1>3. ticket' = [ticket EXCEPT ![at] = ticket'[at]]
  BY <1>1, <1>2
<1>4. CASE call[r].op = "create"
  <2>1. new = NewRow(call[r], lastNumber + 1) /\ ticket[at] = NoTicket
    BY <1>1, <1>4 DEF NumbersOK, HoldsNumber, WritesOK, Creating
  <2>2. lastNumber' = lastNumber + 1
    BY <1>4, <2>1 DEF Commit, NewRow
  <2>3. Ledger!Open(at)
    BY <1>1, <1>2, <1>3, <2>1, <2>2, NewIsNew DEF Ledger!Open
  <2>4. QED BY <1>1, <2>3 DEF Ledger!Next
<1>5. CASE call[r].op # "create"
  <2>1. /\ ticket[at] \in Row /\ at \in Opened
        /\ new = Amended(call[r], ticket[at])
    BY <1>5, AmendingCommit
  <2>2. Admits(call[r], ticket[at])
    BY <1>1, <1>5 DEF ReadsOK, Amending
  <2>3. Ledger!Changes(ticket[at], new)
    BY <1>1, <1>5, <2>1, <2>2, AdmittedIsAllowed DEF StampsOK
  <2>4. Ledger!Change(at)
    BY <1>2, <1>3, <1>5, <2>1, <2>3 DEF Ledger!Change, Commit, Opened
  <2>5. QED BY <1>1, <2>4 DEF Ledger!Next
<1>6. QED BY <1>4, <1>5

\* ... and every other step is none.
LEMMA StepIsLedgerStep ==
  ASSUME LedgerInv, [Next]_vars
  PROVE  [Ledger!Next]_(Ledger!vars)
<1>1. CASE \E r \in Requests : Commit(r)
  BY <1>1, CommitIsLedgerStep
<1>2. CASE ~\E r \in Requests : Commit(r)
  <2>1. UNCHANGED <<ticket, lastNumber>>
    BY <1>2
    DEF Next, Serve, AcceptCreate, AcceptUpdate, AcceptChangeStatus, AcceptAssign,
        Accept, TakeNumber, Insert, Load, Refuse, VetAssignee, Write, Conflict, Drain,
        Abort, End, EditUser, vars
  <2>2. QED BY <2>1 DEF Ledger!vars
<1>3. QED BY <1>1, <1>2

\* The ledger keeps its stamps.
LEMMA LedgerKeepsStamps ==
  ASSUME TypeOK, StampsOK, [Ledger!Next]_(Ledger!vars)
  PROVE  StampsOK'
<1>1. ASSUME NEW t \in Tickets, Ledger!Open(t)
      PROVE  StampsOK'
  BY <1>1 DEF TypeOK, StampsOK, Opened, Ledger!Open, Ledger!IsNew
<1>2. ASSUME NEW t \in Tickets, Ledger!Change(t)
      PROVE  StampsOK'
  BY <1>2 DEF TypeOK, StampsOK, Opened, Ledger!Change, Ledger!Changes
<1>3. CASE UNCHANGED Ledger!vars
  BY <1>3 DEF StampsOK, Opened, Ledger!vars
<1>4. QED BY <1>1, <1>2, <1>3 DEF Ledger!Next

LEMMA LedgerInvStep ==
  ASSUME ~ClientsGuess
  PROVE  LedgerInv /\ [Next]_vars => LedgerInv' /\ [Ledger!Next]_(Ledger!vars)
<1> SUFFICES ASSUME LedgerInv, [Next]_vars
             PROVE  LedgerInv' /\ [Ledger!Next]_(Ledger!vars)
  OBVIOUS
<1>1. ReadInv'
  BY ReadInvStep DEF LedgerInv
<1>2. NumbersOK'
  BY NumberInvStep DEF LedgerInv, ReadInv, RowsInv, NumberInv
<1>3. [Ledger!Next]_(Ledger!vars)
  BY StepIsLedgerStep
<1>4. StampsOK'
  BY <1>3, LedgerKeepsStamps DEF LedgerInv, ReadInv, RowsInv, WriteInv, TypeInv
<1>5. QED BY <1>1, <1>2, <1>3, <1>4 DEF LedgerInv

LEMMA LedgerInvInit == Init => LedgerInv
BY ReadInvInit, NumberInvInit DEF LedgerInv, NumberInv, StampsOK, Init, Opened

\* Statement by statement and request by request, tickets behave like a ledger that
\* changes by one whole legal step at a time.
THEOREM Refinement ==
  ASSUME ~ClientsGuess
  PROVE  Spec => ImplementsLedger
<1>1. Init => Ledger!Init
  BY DEF Init, Ledger!Init
<1>2. LedgerInv /\ [Next]_vars => LedgerInv' /\ [Ledger!Next]_(Ledger!vars)
  BY LedgerInvStep
<1>3. QED
  BY <1>1, <1>2, LedgerInvInit, PTL DEF Spec, ImplementsLedger, Ledger!Spec

\* A closed ticket never changes.
THEOREM ClosedStaysClosed ==
  ASSUME ~ClientsGuess
  PROVE  Spec => ClosedIsFinal
<1>1. LedgerInv /\ [Ledger!Next]_(Ledger!vars)
        => \A t \in Opened : ticket[t].status = "CLOSED" => ticket'[t] = ticket[t]
  <2> SUFFICES ASSUME LedgerInv, [Ledger!Next]_(Ledger!vars),
                      NEW t \in Opened, ticket[t].status = "CLOSED"
               PROVE  ticket'[t] = ticket[t]
    OBVIOUS
  <2>1. ticket \in [Tickets -> Row \cup {NoTicket}] /\ t \in Tickets
        /\ ticket[t] # NoTicket
    BY DEF LedgerInv, ReadInv, RowsInv, WriteInv, TypeInv, TypeOK, Opened
  <2>2. ASSUME NEW o \in Tickets, Ledger!Open(o) \/ Ledger!Change(o)
        PROVE  o # t /\ ticket' = [ticket EXCEPT ![o] = ticket'[o]]
    BY <2>1, <2>2 DEF Ledger!Open, Ledger!Change, Ledger!Changes
  <2>3. QED BY <2>1, <2>2 DEF Ledger!Next, Ledger!vars
<1>2. LedgerInv /\ [Next]_vars => LedgerInv' /\ [Ledger!Next]_(Ledger!vars)
  BY LedgerInvStep
<1>3. QED
  BY <1>1, <1>2, LedgerInvInit, PTL DEF Spec, ClosedIsFinal

----------------------------------------------------------------------------
(* What the other modules see of it. *)

Sight(t, row) ==
  [id |-> t, requester |-> row.requester, assignee |-> row.assignee,
   closed |-> row.status = "CLOSED", version |-> row.version]
Seen == {Sight(t, ticket[t]) : t \in Opened}
View == INSTANCE TicketView WITH view <- Seen

LEMMA OpeningIsSeen ==
  ASSUME TypeOK, NEW t \in Tickets, Ledger!Open(t)
  PROVE  View!Next
<1> DEFINE new == ticket'[t]
<1>1. /\ ticket[t] = NoTicket /\ new # NoTicket
      /\ \A s \in Tickets : s # t => ticket'[s] = ticket[s]
  BY DEF Ledger!Open, TypeOK
<1>2. Sight(t, new) = [id |-> t, requester |-> new.requester, assignee |-> NoOne,
                       closed |-> FALSE, version |-> 1] /\ new.requester \in Users
  BY DEF Sight, Ledger!Open, Ledger!IsNew
<1>3. Opened' = Opened \cup {t} /\ t \notin Opened
  BY <1>1 DEF Opened
<1>4. Seen' = Seen \cup {Sight(t, new)}
  BY <1>1, <1>3 DEF Seen, Opened
<1>5. \A row \in Seen : row.id # t
  BY <1>3 DEF Seen, Sight
<1>6. View!Open(t, new.requester)
  BY <1>2, <1>4, <1>5 DEF View!Open
<1>7. QED BY <1>2, <1>6 DEF View!Next

\* What a change of the ledger makes of a row is one of the changes that are seen.
LEMMA ChangedSight ==
  ASSUME NEW t, NEW old \in Row, NEW new, Ledger!Changes(old, new)
  PROVE  \E assignee \in Users \cup {NoOne}, closed \in BOOLEAN :
           /\ assignee # old.assignee => ~closed
           /\ Sight(t, new) = View!Changed(Sight(t, old), assignee, closed)
<1>1. old.assignee \in Users \cup {NoOne} /\ old.status # "CLOSED"
  BY DEF Ledger!Changes, Row, Person
<1>2. \A assignee, closed :
        /\ new.requester = old.requester /\ new.version = old.version + 1
        /\ new.assignee = assignee /\ closed = (new.status = "CLOSED")
        => Sight(t, new) = View!Changed(Sight(t, old), assignee, closed)
  BY DEF Sight, View!Changed
<1>3. CASE \E x \in Texts : new = [old EXCEPT !.text = x, !.version = @ + 1]
  <2>1. /\ new.requester = old.requester /\ new.version = old.version + 1
        /\ new.assignee = old.assignee /\ new.status = old.status
    BY <1>3 DEF Row
  <2>2. Sight(t, new) = View!Changed(Sight(t, old), old.assignee, FALSE)
    BY <1>1, <1>2, <2>1
  <2>3. QED BY <1>1, <2>2
<1>4. CASE \E a \in Users \cup {NoOne} :
             new = [old EXCEPT !.assignee = a, !.version = @ + 1]
  <2>1. PICK a \in Users \cup {NoOne} :
          new = [old EXCEPT !.assignee = a, !.version = @ + 1]
    BY <1>4
  <2>2. /\ new.requester = old.requester /\ new.version = old.version + 1
        /\ new.assignee = a /\ new.status = old.status
    BY <2>1 DEF Row
  <2>3. Sight(t, new) = View!Changed(Sight(t, old), a, FALSE)
    BY <1>1, <1>2, <2>2
  <2>4. QED BY <2>3
<1>5. CASE new = [old EXCEPT !.status = new.status, !.resolved = new.resolved,
                             !.closedBy = new.closedBy, !.version = @ + 1]
  <2> DEFINE closed == new.status = "CLOSED"
  <2>1. /\ new.requester = old.requester /\ new.version = old.version + 1
        /\ new.assignee = old.assignee
    BY <1>5 DEF Row
  <2> HIDE DEF closed
  <2>2. closed = (new.status = "CLOSED") /\ closed \in BOOLEAN
    BY DEF closed
  <2>3. Sight(t, new) = View!Changed(Sight(t, old), old.assignee, closed)
    BY <1>2, <2>1, <2>2
  <2>4. QED BY <1>1, <2>2, <2>3
<1>6. QED BY <1>3, <1>4, <1>5 DEF Ledger!Changes

LEMMA ChangeIsSeen ==
  ASSUME TypeOK, NEW t \in Tickets, Ledger!Change(t), ticket'[t] # NoTicket
  PROVE  View!Next
<1> DEFINE old == ticket[t]
           new == ticket'[t]
<1>1. /\ old # NoTicket /\ old \in Row /\ Ledger!Changes(old, new)
      /\ \A s \in Tickets : s # t => ticket'[s] = ticket[s]
      /\ ticket' = [ticket EXCEPT ![t] = new]
  BY DEF Ledger!Change, TypeOK
<1>2. /\ Opened' = Opened /\ t \in Opened
      /\ \A s \in Opened : s # t => ticket'[s] = ticket[s]
  BY <1>1 DEF Opened
<1>3. \A s \in Opened : s # t => Sight(s, ticket[s]) # Sight(t, old)
  BY DEF Sight
<1> HIDE DEF old, new
<1>4. Seen' = (Seen \ {Sight(t, old)}) \cup {Sight(t, new)}
  <2>1. Seen' = {Sight(s, ticket'[s]) : s \in Opened} /\ ticket[t] = old /\ ticket'[t] = new
    BY <1>2 DEF Seen, old, new
  <2>2. QED BY <1>2, <1>3, <2>1 DEF Seen
<1>5. ~Sight(t, old).closed /\ Sight(t, old).assignee = old.assignee
  BY <1>1 DEF Ledger!Changes, Sight
<1>6. View!Change(Sight(t, old))
  BY <1>1, <1>4, <1>5, ChangedSight DEF View!Change
<1>7. Sight(t, old) \in Seen
  BY <1>2 DEF Seen, old
<1>8. QED BY <1>6, <1>7 DEF View!Next

\* A row that is there stays: a commit writes one that is no null.
LEMMA OpenedStays ==
  ASSUME LedgerInv, [Next]_vars
  PROVE  \A t \in Opened : ticket'[t] # NoTicket
<1>1. CASE \E r \in Requests : Commit(r)
  <2>1. PICK r \in Requests : Commit(r)
    BY <1>1
  <2>2. after[r] \in Row /\ ticket' = [ticket EXCEPT ![call[r].ticket] = after[r]]
    BY <2>1 DEF Commit, LedgerInv, ReadInv, RowsInv, WriteInv, TypeInv, SlotsOK
  <2>3. after[r] # NoTicket
    BY <2>2, NoTicketAssumption DEF NoTicketIsNoRow
  <2>4. QED
    BY <2>2, <2>3 DEF Opened, LedgerInv, ReadInv, RowsInv, WriteInv, TypeInv, TypeOK
<1>2. CASE ~\E r \in Requests : Commit(r)
  <2>1. UNCHANGED ticket
    BY <1>2
    DEF Next, Serve, AcceptCreate, AcceptUpdate, AcceptChangeStatus, AcceptAssign,
        Accept, TakeNumber, Insert, Load, Refuse, VetAssignee, Write, Conflict, Drain,
        Abort, End, EditUser, vars
  <2>2. QED BY <2>1 DEF Opened
<1>3. QED BY <1>1, <1>2

\* Whatever requests, locks and statements there are, the tickets are seen to open once
\* and to change by whole versions until they are closed: create() and mutate() do what
\* their events make the other modules believe.
THEOREM TicketsAreSeen ==
  ASSUME ~ClientsGuess
  PROVE  Spec => View!Spec
<1>1. Init => View!Init
  BY DEF Init, View!Init, Seen, Opened
<1>2. LedgerInv /\ [Next]_vars => LedgerInv' /\ [Ledger!Next]_(Ledger!vars)
  BY LedgerInvStep
<1>3. LedgerInv /\ [Next]_vars => [View!Next]_Seen
  <2> SUFFICES ASSUME LedgerInv, [Next]_vars
               PROVE  [View!Next]_Seen
    OBVIOUS
  <2>1. TypeOK
    BY DEF LedgerInv, ReadInv, RowsInv, WriteInv, TypeInv
  <2>2. CASE UNCHANGED Ledger!vars
    BY <2>2 DEF Ledger!vars, Seen, Opened
  <2>3. ASSUME NEW t \in Tickets, Ledger!Change(t)
        PROVE  View!Next
    <3>1. t \in Opened
      BY <2>3 DEF Ledger!Change, Opened
    <3>2. QED BY <2>1, <2>3, <3>1, OpenedStays, ChangeIsSeen
  <2>4. [Ledger!Next]_(Ledger!vars)
    BY StepIsLedgerStep
  <2>5. QED BY <2>1, <2>2, <2>3, <2>4, OpeningIsSeen DEF Ledger!Next
<1>4. QED
  BY <1>1, <1>2, <1>3, LedgerInvInit, PTL DEF Spec, View!Spec

----------------------------------------------------------------------------
(* A requester is never the assignee, if nobody is demoted. *)

NobodyIsDemoted ==
  \A u \in Users : user[u].role # "REQUESTER" => user'[u].role # "REQUESTER"

Works(a) == a # NoOne => user[a].role # "REQUESTER"

\* Whoever has a ticket, or is about to have one, is staff.
AssigneesOK ==
  /\ \A t \in Opened : Works(ticket[t].assignee)
  /\ \A r \in Requests :
       /\ pc[r] \in {"numbered", "written", "committed"} => Works(after[r].assignee)
       /\ pc[r] = "vetted" => NamesAnAssignee(call[r]) /\ Works(call[r].assignee)

StaffInv == TypeInv /\ AssigneesOK

LEMMA AmendedAssignee ==
  ASSUME NEW c \in Call, NEW row \in Row, c.op # "create"
  PROVE  Amended(c, row).assignee = IF c.op = "assign" THEN c.assignee ELSE row.assignee
BY DEF Amended, Row, Call, Ops

\* A step that edits nobody leaves open whom the new row, or the vetted call, names.
LEMMA AssigneesAlone ==
  ASSUME StaffInv, UNCHANGED <<user, ticket>>,
         \A r \in Requests :
           /\ \/ pc'[r] \in {"idle", "opened", "loaded"}
              \/ pc'[r] = "vetted" /\ NamesAnAssignee(call'[r]) /\ Works(call'[r].assignee)
              \/ pc'[r] \in {"numbered", "written", "committed"} /\ Works(after'[r].assignee)
              \/ pc'[r] = pc[r] /\ call'[r] = call[r] /\ after'[r] = after[r]
  PROVE  AssigneesOK'
BY DEF StaffInv, AssigneesOK, Opened, Works, NamesAnAssignee

LEMMA StaffStep ==
  ASSUME StaffInv, [Next]_vars, [NobodyIsDemoted]_vars
  PROVE  AssigneesOK'
<1> USE DEF StaffInv, TypeInv
<1>1. ASSUME NEW r \in Requests, NEW u \in Users, NEW roles, NEW c, Accept(r, u, roles, c)
      PROVE  AssigneesOK'
  <2>1. UNCHANGED <<user, ticket>>
    BY <1>1 DEF Accept
  <2>2. \A q \in Requests : \/ pc'[q] = "opened"
                            \/ pc'[q] = pc[q] /\ call'[q] = call[q] /\ after'[q] = after[q]
    BY <1>1 DEF Accept, TypeOK
  <2>3. QED BY <2>1, <2>2, AssigneesAlone
<1>2. ASSUME NEW r \in Requests,
             AcceptCreate(r) \/ AcceptUpdate(r) \/ AcceptChangeStatus(r) \/ AcceptAssign(r)
      PROVE  AssigneesOK'
  <2>1. \E u \in Users : \E roles, c : Accept(r, u, roles, c)
    BY <1>2 DEF AcceptCreate, AcceptUpdate, AcceptChangeStatus, AcceptAssign
  <2>2. QED BY <1>1, <2>1
<1>3. ASSUME NEW r \in Requests, TakeNumber(r)
      PROVE  AssigneesOK'
  <2>1. UNCHANGED <<user, ticket>> /\ pc'[r] = "numbered" /\ after'[r].assignee = NoOne
    BY <1>3 DEF TakeNumber, TypeOK, NewRow
  <2>2. \A q \in Requests : q # r => pc'[q] = pc[q] /\ call'[q] = call[q] /\ after'[q] = after[q]
    BY <1>3 DEF TakeNumber, TypeOK
  <2>3. QED BY <2>1, <2>2, AssigneesAlone DEF Works
<1>4. ASSUME NEW r \in Requests, Insert(r)
      PROVE  AssigneesOK'
  <2>1. UNCHANGED <<user, ticket>> /\ pc'[r] = "written" /\ Works(after'[r].assignee)
    BY <1>4 DEF Insert, TypeOK, AssigneesOK
  <2>2. \A q \in Requests : q # r => pc'[q] = pc[q] /\ call'[q] = call[q] /\ after'[q] = after[q]
    BY <1>4 DEF Insert, TypeOK
  <2>3. QED BY <2>1, <2>2, AssigneesAlone
<1>5. ASSUME NEW r \in Requests, Load(r)
      PROVE  AssigneesOK'
  <2>1. UNCHANGED <<user, ticket>> /\ pc'[r] = "loaded"
    BY <1>5 DEF Load, TypeOK
  <2>2. \A q \in Requests : q # r => pc'[q] = pc[q] /\ call'[q] = call[q] /\ after'[q] = after[q]
    BY <1>5 DEF Load, TypeOK
  <2>3. QED BY <2>1, <2>2, AssigneesAlone
<1>6. ASSUME NEW r \in Requests, VetAssignee(r), ~End(r)
      PROVE  AssigneesOK'
  <2>1. /\ UNCHANGED <<user, ticket>> /\ pc'[r] = "vetted"
        /\ NamesAnAssignee(call'[r]) /\ Works(call'[r].assignee)
    BY <1>6 DEF VetAssignee, TypeOK, assertAssignable, Works, NamesAnAssignee
  <2>2. \A q \in Requests : q # r => pc'[q] = pc[q] /\ call'[q] = call[q] /\ after'[q] = after[q]
    BY <1>6 DEF VetAssignee, TypeOK
  <2>3. QED BY <2>1, <2>2, AssigneesAlone
<1>7. ASSUME NEW r \in Requests, Write(r)
      PROVE  AssigneesOK'
  <2>1. call[r] \in Call /\ call[r].op # "create" /\ call[r].ticket \in Opened
    BY <1>7 DEF SlotsOK, Write, Updates
  <2>2. ticket[call[r].ticket] \in Row
    BY <2>1, OpenedIsRow DEF Opened
  <2>3. after'[r] = Amended(call[r], ticket[call[r].ticket])
    BY <1>7 DEF Write, TypeOK
  <2>4. after'[r].assignee = IF call[r].op = "assign" THEN call[r].assignee
                                                       ELSE ticket[call[r].ticket].assignee
    BY <2>1, <2>2, <2>3, AmendedAssignee
  <2>5. call[r].op = "assign" => Works(call[r].assignee)
    BY <1>7 DEF Write, Updates, NamesAnAssignee, AssigneesOK, Works
  <2>6. Works(ticket[call[r].ticket].assignee)
    BY <2>1 DEF AssigneesOK
  <2>7. UNCHANGED <<user, ticket>> /\ pc'[r] = "written" /\ Works(after'[r].assignee)
    BY <1>7, <2>4, <2>5, <2>6 DEF Write, TypeOK, Works
  <2>8. \A q \in Requests : q # r => pc'[q] = pc[q] /\ call'[q] = call[q] /\ after'[q] = after[q]
    BY <1>7 DEF Write, TypeOK
  <2>9. QED BY <2>7, <2>8, AssigneesAlone
<1>8. ASSUME NEW r \in Requests, Commit(r)
      PROVE  AssigneesOK'
  <2>1. Works(after[r].assignee) /\ after[r] \in Row /\ call[r] \in Call
    BY <1>8 DEF Commit, AssigneesOK, SlotsOK
  <2>2. \A t \in Opened' : Works(ticket'[t].assignee)
    BY <1>8, <2>1 DEF Commit, AssigneesOK, Opened, TypeOK
  <2>3. QED BY <1>8, <2>1, <2>2 DEF Commit, AssigneesOK, TypeOK, Works
<1>9. ASSUME NEW r \in Requests, End(r)
      PROVE  AssigneesOK'
  <2>1. UNCHANGED <<user, ticket>>
    BY <1>9 DEF End
  <2>2. \A q \in Requests : \/ pc'[q] = "idle"
                            \/ pc'[q] = pc[q] /\ call'[q] = call[q] /\ after'[q] = after[q]
    BY <1>9 DEF End, TypeOK
  <2>3. QED BY <2>1, <2>2, AssigneesAlone
<1>10. ASSUME NEW u \in Managed, EditUser(u)
       PROVE  AssigneesOK'
  <2>1. \A a \in Person : Works(a) => (a # NoOne => user'[a].role # "REQUESTER")
    BY <1>10 DEF NobodyIsDemoted, Works, Person, vars
  <2>2. UNCHANGED <<ticket, pc, call, before, after>>
    BY <1>10 DEF EditUser, slots
  <2>3. \A t \in Opened : ticket[t].assignee \in Person
    BY OpenedIsRow DEF Opened, Row
  <2>4. \A r \in Requests :
          /\ pc[r] \in {"numbered", "written", "committed"} => after[r].assignee \in Person
          /\ pc[r] = "vetted" => call[r].assignee \in Person
    BY DEF SlotsOK, Row, Call
  <2>5. QED BY <2>1, <2>2, <2>3, <2>4 DEF AssigneesOK, Works, Opened, NamesAnAssignee
<1>11. CASE UNCHANGED vars
  BY <1>11 DEF AssigneesOK, Works, Opened, NamesAnAssignee, vars
<1>12. QED
  BY <1>2, <1>3, <1>4, <1>5, <1>6, <1>7, <1>8, <1>9, <1>10, <1>11
  DEF Next, Serve, Refuse, Conflict, Drain, Abort

\* assertAssignable() and the UPDATE that follows it may be as far apart as they like: a
\* demotion, before the assignment or at any time after it, is the only way to
\* a requester who is an assignee (RequesterIsNeverAssignee).
THEOREM OnlyDemotionsMakeRequestersAssignees ==
  Spec /\ [][NobodyIsDemoted]_vars => []RequesterIsNeverAssignee
<1>1. Init => StaffInv
  BY RolesAssumption DEF Init, StaffInv, TypeInv, TypeOK, SlotsOK, Stages, AssigneesOK, Opened
<1>2. StaffInv /\ [Next]_vars /\ [NobodyIsDemoted]_vars => StaffInv'
  BY TypeInvStep, StaffStep DEF StaffInv
<1>3. StaffInv => RequesterIsNeverAssignee
  BY DEF StaffInv, AssigneesOK, Works, RequesterIsNeverAssignee
<1>4. QED BY <1>1, <1>2, <1>3, PTL DEF Spec
============================================================================
