---------------------------- MODULE UsersProofs ----------------------------
(***************************************************************************)
(* What holds of Users for every set of requests, ids and emails.          *)
(***************************************************************************)
EXTENDS Users, TLAPS

\* What a slot holds at each stage.
SlotsOK ==
  \A r \in Requests :
    /\ pc[r] # "idle" => call[r] \in Call
    /\ pc[r] # "idle" /\ call[r].op # "create" => call[r].id \in Known
    /\ pc[r] # "idle" /\ call[r].op = "create" =>
         call[r].email \in Emails /\ call[r].role \in Roles
    /\ pc[r] \in {"loaded", "cleared"} => call[r].op # "create" /\ loaded[r] \in Row
    /\ pc[r] = "written" => written[r] \in Row

TypeInv == TypeOK /\ SlotsOK

LEMMA KnownIsRow ==
  ASSUME TypeOK, NEW i \in Ids
  PROVE  i \in Known <=> user[i] \in Row
BY NoUserAssumption DEF TypeOK, Known, NoUserIsNoRow

\* What the row becomes is a row, that differs where the operation says.
LEMMA AmendedIsRow ==
  ASSUME TypeInv, NEW r \in Requests, pc[r] # "idle", call[r].op # "create"
  PROVE  /\ Amended(r) \in Row
         /\ call[r].op # "update" => Amended(r).email = user[call[r].id].email
         /\ Amended(r).active # user[call[r].id].active =>
              call[r].op = IF user[call[r].id].active THEN "remove" ELSE "restore"
         /\ Amended(r).role # user[call[r].id].role => call[r].role = Amended(r).role
         /\ call[r].op # "remove" /\ user[call[r].id].active => Amended(r).active
<1> DEFINE row == user[call[r].id]
           c == call[r]
<1>1. row \in Row /\ c \in Call
  BY KnownIsRow DEF TypeInv, SlotsOK, Known
<1>2. CASE c.op = "update"
  <2>1. Amended(r) = [row EXCEPT !.email = Or(c.email, row.email),
                                 !.role = Or(c.role, row.role)]
    BY <1>2 DEF Amended
  <2>2. Or(c.email, row.email) \in Emails /\ Or(c.role, row.role) \in Roles
        /\ (Or(c.role, row.role) # row.role => Or(c.role, row.role) = c.role)
    BY <1>1 DEF Or, Call, Row
  <2>3. QED BY <1>1, <1>2, <2>1, <2>2 DEF Row
<1>3. CASE c.op = "remove"
  BY <1>1, <1>3 DEF Amended, Row
<1>4. CASE c.op = "restore"
  BY <1>1, <1>4 DEF Amended, Row
<1>5. QED BY <1>1, <1>2, <1>3, <1>4 DEF Call, Ops

LEMMA NewRowIsRow ==
  ASSUME TypeInv, NEW r \in Requests, pc[r] # "idle", call[r].op = "create"
  PROVE  NewRow(call[r]) \in Row
BY DEF TypeInv, SlotsOK, NewRow, Row

LEMMA AskingIsCall ==
  ASSUME NEW op \in Ops, NEW i \in Ids, NEW self \in BOOLEAN,
         NEW e \in Emails \cup {Same}, NEW role \in Roles \cup {Same}
  PROVE  /\ Asking(op, i, self, e, role) \in Call
         /\ Asking(op, i, self, e, role).op = op
         /\ Asking(op, i, self, e, role).id = i
         /\ Asking(op, i, self, e, role).email = e
         /\ Asking(op, i, self, e, role).role = role
BY DEF Asking, Call

LEMMA AcceptKeepsTypes ==
  ASSUME TypeInv, NEW r \in Requests, NEW c \in Call, Accept(r, c),
         c.op # "create" => c.id \in Known,
         c.op = "create" => c.email \in Emails /\ c.role \in Roles
  PROVE  TypeInv'
BY DEF TypeInv, TypeOK, SlotsOK, Accept, Known, Stages

LEMMA EndKeepsTypes ==
  ASSUME TypeInv, NEW r \in Requests, End(r)
  PROVE  TypeInv'
BY DEF TypeInv, TypeOK, SlotsOK, End, Known, Stages

\* The statement that writes leaves a slot with a row, or ends the request.
LEMMA WritesKeepsTypes ==
  ASSUME TypeInv, NEW r \in Requests, NEW row \in Row, pc[r] # "idle", Writes(r, row)
  PROVE  TypeInv'
<1>1. CASE End(r)
  BY <1>1, EndKeepsTypes
<1>2. CASE /\ written' = [written EXCEPT ![r] = row]
           /\ pc' = [pc EXCEPT ![r] = "written"]
           /\ UNCHANGED <<user, call, loaded>>
  BY <1>2 DEF TypeInv, TypeOK, SlotsOK, Known, Stages
<1>3. QED BY <1>1, <1>2 DEF Writes

LEMMA TypeInvStep == TypeInv /\ [Next]_vars => TypeInv'
<1> SUFFICES ASSUME TypeInv, [Next]_vars
             PROVE  TypeInv'
  OBVIOUS
<1>1. ASSUME NEW r \in Requests,
             AcceptCreate(r) \/ AcceptUpdate(r) \/ AcceptRemove(r) \/ AcceptRestore(r)
      PROVE  TypeInv'
  <2>1. PICK c \in Call : /\ Accept(r, c)
                          /\ c.op # "create" => c.id \in Known
                          /\ c.op = "create" => c.email \in Emails /\ c.role \in Roles
    <3>1. CASE AcceptCreate(r)
      <4>1. PICK i \in Ids, e \in Emails, role \in Roles :
              Accept(r, Asking("create", i, FALSE, e, role))
        BY <3>1 DEF AcceptCreate
      <4> DEFINE c == Asking("create", i, FALSE, e, role)
      <4>2. c \in Call
        BY AskingIsCall DEF Ops
      <4>3. c.op = "create" /\ c.id = i /\ c.email = e /\ c.role = role
        BY DEF Asking
      <4> HIDE DEF c
      <4>4. QED BY <4>1, <4>2, <4>3 DEF c
    <3>2. CASE AcceptUpdate(r)
      <4>1. PICK i \in Known, e \in Emails \cup {Same}, role \in Roles \cup {Same} :
              Accept(r, Asking("update", i, FALSE, e, role))
        BY <3>2 DEF AcceptUpdate
      <4> DEFINE c == Asking("update", i, FALSE, e, role)
      <4>2. c \in Call
        BY AskingIsCall DEF Ops, Known
      <4>3. c.op = "update" /\ c.id = i /\ c.email = e /\ c.role = role
        BY DEF Asking
      <4> HIDE DEF c
      <4>4. QED BY <4>1, <4>2, <4>3 DEF c
    <3>3. CASE AcceptRemove(r)
      <4>1. PICK i \in Known, self \in BOOLEAN :
              Accept(r, Asking("remove", i, self, Same, Same))
        BY <3>3 DEF AcceptRemove
      <4> DEFINE c == Asking("remove", i, self, Same, Same)
      <4>2. c \in Call
        BY AskingIsCall DEF Ops, Known
      <4>3. c.op = "remove" /\ c.id = i /\ c.email = Same /\ c.role = Same
        BY DEF Asking
      <4> HIDE DEF c
      <4>4. QED BY <4>1, <4>2, <4>3 DEF c
    <3>4. CASE AcceptRestore(r)
      <4>1. PICK i \in Known : Accept(r, Asking("restore", i, FALSE, Same, Same))
        BY <3>4 DEF AcceptRestore
      <4> DEFINE c == Asking("restore", i, FALSE, Same, Same)
      <4>2. c \in Call
        BY AskingIsCall DEF Ops, Known
      <4>3. c.op = "restore" /\ c.id = i /\ c.email = Same /\ c.role = Same
        BY DEF Asking
      <4> HIDE DEF c
      <4>4. QED BY <4>1, <4>2, <4>3 DEF c
    <3>5. QED BY <1>1, <3>1, <3>2, <3>3, <3>4
  <2>2. QED BY <2>1, AcceptKeepsTypes
<1>2. ASSUME NEW r \in Requests, Load(r)
      PROVE  TypeInv'
  <2>1. CASE End(r)
    BY <2>1, EndKeepsTypes
  <2>2. CASE ~End(r)
    <3>1. user[call[r].id] \in Row
      BY <1>2, KnownIsRow DEF Load, TypeInv, SlotsOK, Known
    <3>2. QED BY <1>2, <2>2, <3>1 DEF Load, TypeInv, TypeOK, SlotsOK, Known, Stages
  <2>3. QED BY <2>1, <2>2
<1>3. ASSUME NEW r \in Requests, assertNotLastAdmin(r)
      PROVE  TypeInv'
  <2>1. CASE End(r)
    BY <2>1, EndKeepsTypes
  <2>2. CASE ~End(r)
    BY <1>3, <2>2 DEF assertNotLastAdmin, TypeInv, TypeOK, SlotsOK, Known, Stages
  <2>3. QED BY <2>1, <2>2
<1>4. ASSUME NEW r \in Requests, Insert(r)
      PROVE  TypeInv'
  BY <1>4, NewRowIsRow, WritesKeepsTypes DEF Insert
<1>5. ASSUME NEW r \in Requests, Update(r)
      PROVE  TypeInv'
  <2>1. pc[r] # "idle" /\ call[r].op # "create"
    BY <1>5 DEF Update, TypeInv, SlotsOK
  <2>2. QED BY <1>5, <2>1, AmendedIsRow, WritesKeepsTypes DEF Update
<1>6. ASSUME NEW r \in Requests, Commit(r)
      PROVE  TypeInv'
  <2>1. written[r] \in Row /\ call[r].id \in Ids
    BY <1>6 DEF Commit, TypeInv, SlotsOK, Call
  <2>2. Known' = Known \cup {call[r].id}
    BY <1>6, <2>1, NoUserAssumption DEF Commit, Known, TypeInv, TypeOK, NoUserIsNoRow
  <2>3. QED BY <1>6, <2>1, <2>2 DEF Commit, TypeInv, TypeOK, SlotsOK, Stages
<1>7. ASSUME NEW r \in Requests, Abort(r)
      PROVE  TypeInv'
  BY <1>7, EndKeepsTypes DEF Abort
<1>8. CASE UNCHANGED vars
  BY <1>8 DEF vars, TypeInv, TypeOK, SlotsOK, Known
<1>9. QED
  BY <1>1, <1>2, <1>3, <1>4, <1>5, <1>6, <1>7, <1>8 DEF Next

LEMMA TypeInvInit == Init => TypeInv
BY InitialUsersAssumption DEF Init, TypeInv, TypeOK, SlotsOK, Stages

\* Every variable keeps its type: TypeOK for any slots, ids and emails.
THEOREM TypeCorrect == Spec => []TypeOK
<1>1. TypeInv => TypeOK
  BY DEF TypeInv
<1>2. QED BY <1>1, TypeInvInit, TypeInvStep, PTL DEF Spec

----------------------------------------------------------------------------
\* What a transaction has written is what the operation makes of the row it found,
\* which is locked; a new row has an id nobody else is about.
WriteInv ==
  \A r \in Requests :
    /\ pc[r] = "written" /\ call[r].op # "create" =>
         /\ written[r] = Amended(r)
         /\ \A q \in Requests : q # r /\ pc[q] = "written" => call[q].id # call[r].id
    /\ pc[r] # "idle" /\ call[r].op = "create" =>
         /\ call[r].id \notin Known
         /\ \A q \in Requests : q # r /\ pc[q] # "idle" => call[q].id # call[r].id

\* Of two open transactions no two hold an address, and none holds a taken one.
EmailInv ==
  /\ OneUserPerEmail
  /\ \A r \in Requests : pc[r] = "written" =>
       /\ ~Taken(written[r].email, call[r].id)
       /\ \A q \in Requests : q # r /\ pc[q] = "written" =>
            written[q].email # written[r].email

DirInv == TypeInv /\ WriteInv /\ EmailInv

\* Slots that end, begin, or move on without writing leave all of it as it was.
LEMMA NothingWritten ==
  ASSUME DirInv, UNCHANGED user,
         \A q \in Requests : pc'[q] = "written" =>
           pc[q] = "written" /\ call'[q] = call[q] /\ written'[q] = written[q],
         \A q \in Requests : pc'[q] # "idle" =>
           \/ pc[q] # "idle" /\ call'[q] = call[q]
           \/ /\ \A p \in Requests : pc[p] # "idle" /\ call[p].op = "create" =>
                   call'[q].id # call[p].id
              /\ \A p \in Requests : p # q /\ pc'[p] # "idle" =>
                   pc[p] # "idle" /\ call'[p] = call[p]
              /\ call'[q].op = "create" =>
                   /\ call'[q].id \notin Known
                   /\ \A p \in Requests : pc[p] # "idle" => call[p].id # call'[q].id
  PROVE  WriteInv' /\ EmailInv'
<1>1. Known' = Known
  BY DEF Known
<1>2. WriteInv'
  <2> SUFFICES ASSUME NEW r \in Requests
               PROVE  /\ pc'[r] = "written" /\ call'[r].op # "create" =>
                          /\ written'[r] = Amended(r)'
                          /\ \A q \in Requests : q # r /\ pc'[q] = "written" => call'[q].id # call'[r].id
                      /\ pc'[r] # "idle" /\ call'[r].op = "create" =>
                          /\ call'[r].id \notin Known'
                          /\ \A q \in Requests : q # r /\ pc'[q] # "idle" => call'[q].id # call'[r].id
    BY DEF WriteInv
  <2>1. ASSUME pc'[r] = "written", call'[r].op # "create"
        PROVE  /\ written'[r] = Amended(r)'
               /\ \A q \in Requests : q # r /\ pc'[q] = "written" => call'[q].id # call'[r].id
    <3>1. Amended(r)' = Amended(r)
      BY <2>1 DEF Amended
    <3>2. QED BY <2>1, <3>1 DEF DirInv, WriteInv
  <2>2. ASSUME pc'[r] # "idle", call'[r].op = "create"
        PROVE  /\ call'[r].id \notin Known'
               /\ \A q \in Requests : q # r /\ pc'[q] # "idle" => call'[q].id # call'[r].id
    BY <1>1, <2>2 DEF DirInv, WriteInv
  <2>3. QED BY <2>1, <2>2
<1>3. EmailInv'
  BY <1>1 DEF DirInv, EmailInv, OneUserPerEmail, Taken
<1>4. QED BY <1>2, <1>3

LEMMA AcceptKeepsDir ==
  ASSUME DirInv, NEW r \in Requests, NEW c \in Call, Accept(r, c),
         \A p \in Requests : pc[p] # "idle" /\ call[p].op = "create" =>
           c.id # call[p].id,
         c.op = "create" =>
           /\ c.id \notin Known
           /\ \A p \in Requests : pc[p] # "idle" => call[p].id # c.id
  PROVE  WriteInv' /\ EmailInv'
<1>1. \A q \in Requests : q # r => pc'[q] = pc[q] /\ call'[q] = call[q]
  BY DEF Accept, DirInv, TypeInv, TypeOK
<1>2. pc[r] = "idle" /\ pc'[r] = "opened" /\ call'[r] = c
  BY DEF Accept, DirInv, TypeInv, TypeOK
<1>3. UNCHANGED <<user, written>>
  BY DEF Accept
<1>4. \A q \in Requests : pc'[q] = "written" =>
        pc[q] = "written" /\ call'[q] = call[q] /\ written'[q] = written[q]
  BY <1>1, <1>2, <1>3
<1>5. \A q \in Requests : pc'[q] # "idle" =>
           \/ pc[q] # "idle" /\ call'[q] = call[q]
           \/ /\ \A p \in Requests : pc[p] # "idle" /\ call[p].op = "create" =>
                   call'[q].id # call[p].id
              /\ \A p \in Requests : p # q /\ pc'[p] # "idle" =>
                   pc[p] # "idle" /\ call'[p] = call[p]
              /\ call'[q].op = "create" =>
                   /\ call'[q].id \notin Known
                   /\ \A p \in Requests : pc[p] # "idle" => call[p].id # call'[q].id
  BY <1>1, <1>2
<1>6. QED BY <1>3, <1>4, <1>5, NothingWritten

LEMMA EndKeepsDir ==
  ASSUME DirInv, NEW r \in Requests, End(r)
  PROVE  WriteInv' /\ EmailInv'
<1>1. \A q \in Requests : pc'[q] # "idle" =>
        pc[q] = pc'[q] /\ call'[q] = call[q] /\ written'[q] = written[q]
  BY DEF End, DirInv, TypeInv, TypeOK
<1>2. UNCHANGED user
  BY DEF End
<1>3. QED BY <1>1, <1>2, NothingWritten

\* The row is written under its lock and with its address free.
LEMMA WritesKeepsDir ==
  ASSUME DirInv, NEW r \in Requests, NEW row \in Row,
         pc[r] \in {"opened", "cleared"},
         Writes(r, row), call[r].op # "create" => row = Amended(r)
  PROVE  WriteInv' /\ EmailInv'
<1>1. CASE End(r)
  BY <1>1, EndKeepsDir
<1>2. CASE ~End(r)
  <2>1. /\ written' = [written EXCEPT ![r] = row]
        /\ pc' = [pc EXCEPT ![r] = "written"]
        /\ UNCHANGED <<user, call, loaded>>
        /\ ~Taken(row.email, call[r].id)
        /\ ~RowLocked(call[r].id) /\ ~EmailPending(row.email, call[r].id)
    BY <1>2 DEF Writes
  <2>2. \A q \in Requests : q # r => pc'[q] = pc[q] /\ written'[q] = written[q]
    BY <2>1 DEF DirInv, TypeInv, TypeOK
  <2>3. pc'[r] = "written" /\ written'[r] = row
    BY <2>1 DEF DirInv, TypeInv, TypeOK
  <2>4. \A q \in Requests : pc[q] = "written" =>
          call[q].id # call[r].id /\ written[q].email # row.email
    BY <2>1 DEF RowLocked, EmailPending
  <2>5. Known' = Known /\ call' = call
    BY <2>1 DEF Known
  <2>6. \A q \in Requests : Amended(q)' = Amended(q)
    BY <2>1 DEF Amended
  <2>7. WriteInv'
    BY <2>2, <2>3, <2>4, <2>5, <2>6 DEF DirInv, WriteInv
  <2>8. \A e \in Emails, i \in Ids : Taken(e, i)' <=> Taken(e, i)
    BY <2>1, <2>5 DEF Taken
  <2>9. OneUserPerEmail'
    BY <2>1, <2>5 DEF DirInv, EmailInv, OneUserPerEmail
  <2>10. EmailInv'
    BY <2>1, <2>2, <2>3, <2>4, <2>5, <2>9 DEF DirInv, EmailInv, Taken
  <2>11. QED BY <2>7, <2>10
<1>3. QED BY <1>1, <1>2

LEMMA CommitSets ==
  ASSUME DirInv, NEW r \in Requests, Commit(r)
  PROVE  /\ call[r].id \in Ids /\ written[r] \in Row
         /\ Known' = Known \cup {call[r].id}
         /\ user'[call[r].id] = written[r]
         /\ \A i \in Ids \ {call[r].id} : user'[i] = user[i]
         /\ \A q \in Requests : pc'[q] # "idle" =>
              q # r /\ pc'[q] = pc[q] /\ call'[q] = call[q] /\ written'[q] = written[q]
<1>1. written[r] \in Row /\ call[r].id \in Ids
  BY DEF Commit, DirInv, TypeInv, SlotsOK, Call
<1>2. Known' = Known \cup {call[r].id}
  BY <1>1, NoUserAssumption DEF Commit, Known, DirInv, TypeInv, TypeOK, NoUserIsNoRow
<1>3. \A q \in Requests : pc'[q] # "idle" =>
        q # r /\ pc'[q] = pc[q] /\ call'[q] = call[q] /\ written'[q] = written[q]
  BY DEF Commit, DirInv, TypeInv, TypeOK
<1>4. QED BY <1>1, <1>2, <1>3 DEF Commit, DirInv, TypeInv, TypeOK

LEMMA CommitKeepsDir ==
  ASSUME DirInv, NEW r \in Requests, Commit(r)
  PROVE  WriteInv' /\ EmailInv'
<1> DEFINE i == call[r].id
<1>1. /\ i \in Ids /\ written[r] \in Row
      /\ Known' = Known \cup {i} /\ user'[i] = written[r]
      /\ \A j \in Ids \ {i} : user'[j] = user[j]
      /\ \A q \in Requests : pc'[q] # "idle" =>
           q # r /\ pc'[q] = pc[q] /\ call'[q] = call[q] /\ written'[q] = written[q]
  BY CommitSets
<1>2. pc[r] = "written"
  BY DEF Commit
<1>3. \A q \in Requests : q # r /\ pc[q] = "written" => call[q].id # i
  BY <1>2 DEF DirInv, WriteInv
<1>4. \A q \in Requests : q # r /\ pc[q] # "idle" /\ call[q].op = "create" => call[q].id # i
  BY <1>2 DEF DirInv, WriteInv
<1> HIDE DEF i
<1>5. \A q \in Requests : pc'[q] = "written" /\ call'[q].op # "create" =>
        written'[q] = Amended(q)'
  <2> SUFFICES ASSUME NEW q \in Requests, pc'[q] = "written", call'[q].op # "create"
               PROVE  written'[q] = Amended(q)'
    OBVIOUS
  <2>1. q # r /\ pc[q] = "written" /\ call'[q] = call[q] /\ written'[q] = written[q]
    BY <1>1
  <2>2. user'[call[q].id] = user[call[q].id]
    BY <1>1, <1>3, <2>1 DEF DirInv, TypeInv, SlotsOK, Call
  <2>3. Amended(q)' = Amended(q)
    BY <2>1, <2>2 DEF Amended
  <2>4. QED BY <2>1, <2>3 DEF DirInv, WriteInv
<1>6. WriteInv'
  BY <1>1, <1>4, <1>5 DEF DirInv, WriteInv
<1>7. ~Taken(written[r].email, i) /\ \A q \in Requests : q # r /\ pc[q] = "written" =>
        /\ ~Taken(written[q].email, call[q].id)
        /\ written[q].email # written[r].email
  BY <1>2 DEF DirInv, EmailInv, i
<1>8. \A j \in Known : j \in Ids
  BY DEF Known
<1>9. OneUserPerEmail'
  BY <1>1, <1>7, <1>8 DEF DirInv, EmailInv, OneUserPerEmail, Taken
<1>10. \A q \in Requests : pc'[q] = "written" => ~Taken(written[q].email, call[q].id)'
  BY <1>1, <1>7, <1>8 DEF Taken
<1>11. \A q \in Requests : pc'[q] = "written" =>
         \A p \in Requests : p # q /\ pc'[p] = "written" =>
            written'[p].email # written'[q].email
  BY <1>1 DEF DirInv, EmailInv
<1>12. EmailInv'
  BY <1>1, <1>9, <1>10, <1>11 DEF EmailInv, Taken
<1>13. QED BY <1>6, <1>12

LEMMA DirInvStep == DirInv /\ [Next]_vars => DirInv'
<1> SUFFICES ASSUME DirInv, [Next]_vars
             PROVE  WriteInv' /\ EmailInv'
  BY TypeInvStep DEF DirInv
<1>1. ASSUME NEW r \in Requests, AcceptCreate(r)
      PROVE  WriteInv' /\ EmailInv'
  <2>1. PICK i \in Ids \ Known, e \in Emails, role \in Roles :
          /\ \A q \in Requests : pc[q] # "idle" => call[q].id # i
          /\ Accept(r, Asking("create", i, FALSE, e, role))
    BY <1>1 DEF AcceptCreate
  <2> DEFINE c == Asking("create", i, FALSE, e, role)
  <2>2. c \in Call
    BY AskingIsCall DEF Ops
  <2>3. c.id = i
    BY DEF Asking
  <2> HIDE DEF c
  <2>4. QED BY <2>1, <2>2, <2>3, AcceptKeepsDir DEF c
<1>2. ASSUME NEW r \in Requests, AcceptUpdate(r) \/ AcceptRemove(r) \/ AcceptRestore(r)
      PROVE  WriteInv' /\ EmailInv'
  <2>1. PICK op \in {"update", "remove", "restore"}, i \in Known, self \in BOOLEAN,
             e \in Emails \cup {Same}, role \in Roles \cup {Same} :
          Accept(r, Asking(op, i, self, e, role))
    BY <1>2 DEF AcceptUpdate, AcceptRemove, AcceptRestore
  <2> DEFINE c == Asking(op, i, self, e, role)
  <2>2. c \in Call
    BY AskingIsCall DEF Ops, Known
  <2>3. c.id = i /\ c.op # "create"
    BY DEF Asking
  <2>4. \A p \in Requests : pc[p] # "idle" /\ call[p].op = "create" => i # call[p].id
    BY DEF DirInv, WriteInv
  <2> HIDE DEF c
  <2>5. QED BY <2>1, <2>2, <2>3, <2>4, AcceptKeepsDir DEF c
<1>3. ASSUME NEW r \in Requests, Load(r) \/ assertNotLastAdmin(r)
      PROVE  WriteInv' /\ EmailInv'
  <2>1. CASE End(r)
    BY <2>1, EndKeepsDir
  <2>2. CASE ~End(r)
    <3>1. /\ UNCHANGED <<user, call, written>>
          /\ \A q \in Requests : q # r => pc'[q] = pc[q]
          /\ pc[r] # "idle" /\ pc'[r] # "written"
      BY <1>3, <2>2 DEF Load, assertNotLastAdmin, DirInv, TypeInv, TypeOK
    <3>2. QED BY <3>1, NothingWritten
  <2>3. QED BY <2>1, <2>2
<1>4. ASSUME NEW r \in Requests, Insert(r)
      PROVE  WriteInv' /\ EmailInv'
  BY <1>4, NewRowIsRow, WritesKeepsDir DEF Insert, DirInv
<1>5. ASSUME NEW r \in Requests, Update(r)
      PROVE  WriteInv' /\ EmailInv'
  <2>1. pc[r] = "cleared" /\ call[r].op # "create"
    BY <1>5 DEF Update, DirInv, TypeInv, SlotsOK
  <2>2. Amended(r) \in Row
    BY <2>1, AmendedIsRow DEF DirInv
  <2>3. QED BY <1>5, <2>1, <2>2, WritesKeepsDir DEF Update
<1>6. ASSUME NEW r \in Requests, Commit(r)
      PROVE  WriteInv' /\ EmailInv'
  BY <1>6, CommitKeepsDir
<1>7. ASSUME NEW r \in Requests, Abort(r)
      PROVE  WriteInv' /\ EmailInv'
  BY <1>7, EndKeepsDir DEF Abort
<1>8. CASE UNCHANGED vars
  BY <1>8, NothingWritten DEF vars
<1>9. QED
  BY <1>1, <1>2, <1>3, <1>4, <1>5, <1>6, <1>7, <1>8 DEF Next

LEMMA DirInvInit == Init => DirInv
<1> SUFFICES ASSUME Init
             PROVE  WriteInv /\ EmailInv
  BY TypeInvInit DEF DirInv
<1>1. \A r \in Requests : pc[r] = "idle"
  BY DEF Init
<1>2. OneUserPerEmail
  BY InitialUsersAssumption DEF Init, OneUserPerEmail, Known
<1>3. QED BY <1>1, <1>2 DEF WriteInv, EmailInv

\* An address names one user, however creations, renames and restores race:
\* OneUserPerEmail.
THEOREM EmailsAreUnique == Spec => []OneUserPerEmail
<1>1. DirInv => OneUserPerEmail
  BY DEF DirInv, EmailInv
<1>2. QED BY <1>1, DirInvInit, DirInvStep, PTL DEF Spec

\* Nothing but its own operation changes whether a user is active or their role:
\* OnlyWhatWasAsked.
THEOREM NothingIsUndone == Spec => OnlyWhatWasAsked
<1> DEFINE Asked(i) ==
      /\ user'[i].active # user[i].active =>
           \E r \in Requests :
             /\ Commit(r) /\ call[r].id = i
             /\ call[r].op = IF user[i].active THEN "remove" ELSE "restore"
      /\ user'[i].role # user[i].role =>
           \E r \in Requests :
             Commit(r) /\ call[r].id = i /\ call[r].role = user'[i].role
<1>1. ASSUME DirInv, [Next]_vars, NEW i \in Known
      PROVE  Asked(i)
  <2>1. ASSUME NEW r \in Requests, Commit(r)
        PROVE  Asked(i)
    <3>1. CASE call[r].id = i
      <4>1. call[r].op # "create" /\ pc[r] = "written"
        BY <2>1, <3>1, <1>1 DEF DirInv, WriteInv, Commit
      <4>2. user'[i] = Amended(r)
        BY <2>1, <3>1, <4>1, <1>1, CommitSets DEF DirInv, WriteInv
      <4>3. QED BY <2>1, <3>1, <4>1, <4>2, <1>1, AmendedIsRow DEF DirInv
    <3>2. CASE call[r].id # i
      BY <2>1, <3>2, <1>1, CommitSets DEF Known
    <3>3. QED BY <3>1, <3>2
  <2>2. CASE \A r \in Requests : ~Commit(r)
    <3>1. UNCHANGED user
      BY <1>1, <2>2 DEF Next, vars, AcceptCreate, AcceptUpdate, AcceptRemove,
         AcceptRestore, Accept, Load, assertNotLastAdmin, Insert, Update, Writes,
         Abort, End
    <3>2. QED BY <3>1
  <2>3. QED BY <2>1, <2>2
<1>2. DirInv /\ [Next]_vars =>
        \A i \in Known :
          /\ user'[i].active # user[i].active =>
               \E r \in Requests :
                 /\ Commit(r) /\ call[r].id = i
                 /\ call[r].op = IF user[i].active THEN "remove" ELSE "restore"
          /\ user'[i].role # user[i].role =>
               \E r \in Requests :
                 Commit(r) /\ call[r].id = i /\ call[r].role = user'[i].role
  BY <1>1
<1>3. QED BY <1>2, DirInvInit, DirInvStep, PTL DEF Spec, OnlyWhatWasAsked

----------------------------------------------------------------------------
\* One request at a time: what it loaded and counted is still so when it writes.
OneAtATime == \A q, r \in Requests : q = r

AnAdmin(row) == row.role = "ADMIN" /\ row.active

SerialInv ==
  /\ DirInv
  /\ SomeoneAdministers
  /\ \A r \in Requests :
       /\ pc[r] \in {"loaded", "cleared"} => loaded[r] = user[call[r].id]
       /\ pc[r] = "cleared" /\ EndsAnAdmin(call[r], loaded[r]) =>
            \E i \in Admins : i # call[r].id
       /\ pc[r] = "written" =>
            (\E i \in Admins : i # call[r].id) \/ AnAdmin(written[r])

LEMMA SerialStep ==
  ASSUME OneAtATime
  PROVE  SerialInv /\ [Next]_vars => SerialInv'
<1> SUFFICES ASSUME SerialInv, [Next]_vars
             PROVE  SerialInv'
  OBVIOUS
<1>1. DirInv'
  BY DirInvStep DEF SerialInv
<1>2. ASSUME UNCHANGED user
      PROVE  Admins' = Admins
  BY <1>2 DEF Admins, Known
<1>3. ASSUME NEW r \in Requests, UNCHANGED user, pc'[r] \in {"idle", "opened"}
      PROVE  SerialInv'
  <2>1. \A q \in Requests : q = r
    BY DEF OneAtATime
  <2>2. QED BY <1>1, <1>2, <1>3, <2>1 DEF SerialInv, SomeoneAdministers
<1>4. ASSUME NEW r \in Requests,
             \/ AcceptCreate(r) \/ AcceptUpdate(r) \/ AcceptRemove(r) \/ AcceptRestore(r)
             \/ End(r)
      PROVE  SerialInv'
  <2>1. UNCHANGED user /\ pc'[r] \in {"idle", "opened"}
    BY <1>4 DEF AcceptCreate, AcceptUpdate, AcceptRemove, AcceptRestore, Accept, End,
       SerialInv, DirInv, TypeInv, TypeOK
  <2>2. QED BY <1>3, <2>1
<1>5. ASSUME NEW r \in Requests, Load(r)
      PROVE  SerialInv'
  <2>1. CASE End(r)
    BY <1>4, <2>1
  <2>2. CASE ~End(r)
    <3>1. /\ UNCHANGED <<user, call>> /\ pc'[r] = "loaded"
          /\ loaded'[r] = user[call[r].id]
      BY <1>5, <2>2 DEF Load, SerialInv, DirInv, TypeInv, TypeOK
    <3>2. \A q \in Requests : q = r
      BY DEF OneAtATime
    <3>3. QED BY <1>1, <1>2, <3>1, <3>2 DEF SerialInv, SomeoneAdministers
  <2>3. QED BY <2>1, <2>2
<1>6. ASSUME NEW r \in Requests, assertNotLastAdmin(r)
      PROVE  SerialInv'
  <2>1. CASE End(r)
    BY <1>4, <2>1
  <2>2. CASE ~End(r)
    <3>1. /\ UNCHANGED <<user, call, loaded>> /\ pc[r] = "loaded" /\ pc'[r] = "cleared"
          /\ EndsAnAdmin(call[r], loaded[r]) => ~AtMostOneCounted
      BY <1>6, <2>2 DEF assertNotLastAdmin, SerialInv, DirInv, TypeInv, TypeOK
    <3>2. ~AtMostOneCounted => \E i \in Admins : i # call[r].id
      BY DEF AtMostOneCounted, Counted, Admins
    <3>3. \A q \in Requests : q = r
      BY DEF OneAtATime
    <3>4. EndsAnAdmin(call[r], loaded[r])' <=> EndsAnAdmin(call[r], loaded[r])
      BY <3>1 DEF EndsAnAdmin
    <3>5. loaded'[r] = user'[call'[r].id]
      BY <3>1 DEF SerialInv
    <3>6. QED
      BY <1>1, <1>2, <3>1, <3>2, <3>3, <3>4, <3>5 DEF SerialInv, SomeoneAdministers
  <2>3. QED BY <2>1, <2>2
<1>7. ASSUME NEW r \in Requests, NEW row \in Row, Writes(r, row),
             (\E i \in Admins : i # call[r].id) \/ AnAdmin(row)
      PROVE  SerialInv'
  <2>1. CASE End(r)
    BY <1>4, <2>1
  <2>2. CASE ~End(r)
    <3>1. UNCHANGED <<user, call>> /\ pc'[r] = "written" /\ written'[r] = row
      BY <1>7, <2>2 DEF Writes, SerialInv, DirInv, TypeInv, TypeOK
    <3>2. \A q \in Requests : q = r
      BY DEF OneAtATime
    <3>3. QED BY <1>1, <1>2, <1>7, <3>1, <3>2 DEF SerialInv, SomeoneAdministers
  <2>3. QED BY <2>1, <2>2
<1>8. ASSUME NEW r \in Requests, Insert(r)
      PROVE  SerialInv'
  <2>1. pc[r] = "opened" /\ call[r].op = "create" /\ Writes(r, NewRow(call[r]))
    BY <1>8 DEF Insert
  <2>2. NewRow(call[r]) \in Row
    BY <2>1, NewRowIsRow DEF SerialInv, DirInv
  <2>3. call[r].id \notin Known
    BY <2>1 DEF SerialInv, DirInv, WriteInv
  <2>4. \E i \in Admins : i # call[r].id
    BY <2>3 DEF SerialInv, SomeoneAdministers, Admins
  <2>5. QED BY <1>7, <2>1, <2>2, <2>4
<1>9. ASSUME NEW r \in Requests, Update(r)
      PROVE  SerialInv'
  <2> DEFINE i == call[r].id
  <2>1. /\ pc[r] = "cleared" /\ call[r].op # "create" /\ Writes(r, Amended(r))
        /\ call[r] \in Call /\ i \in Known
    BY <1>9 DEF Update, SerialInv, DirInv, TypeInv, SlotsOK
  <2>2. Amended(r) \in Row
    BY <2>1, AmendedIsRow DEF SerialInv, DirInv
  <2>3. (\E j \in Admins : j # i) \/ AnAdmin(Amended(r))
    <3>1. CASE EndsAnAdmin(call[r], loaded[r])
      BY <2>1, <3>1 DEF SerialInv
    <3>2. CASE ~EndsAnAdmin(call[r], loaded[r]) /\ i \in Admins
      <4>1. AnAdmin(user[i]) /\ loaded[r] = user[i] /\ user[i] \in Row
        BY <2>1, <3>2, KnownIsRow
           DEF SerialInv, DirInv, TypeInv, Admins, AnAdmin, Known
      <4>2. call[r].op # "remove"
            /\ (call[r].op = "update" => call[r].role \in {"ADMIN", Same})
        BY <3>2, <4>1 DEF EndsAnAdmin, AnAdmin
      <4>3. Amended(r).active
        BY <2>1, <4>1, <4>2, AmendedIsRow DEF SerialInv, DirInv, AnAdmin
      <4>4. Amended(r).role # user[i].role => call[r].role = Amended(r).role
        BY <2>1, AmendedIsRow DEF SerialInv, DirInv
      <4>5. CASE call[r].op = "update"
        <5>1. Amended(r).role \in Roles
          BY <2>2 DEF Row
        <5>2. QED
          BY <4>1, <4>2, <4>3, <4>4, <4>5, <5>1, NullsAssumption DEF AnAdmin
      <4>6. CASE call[r].op = "restore"
        <5>1. Amended(r) = [user[i] EXCEPT !.active = TRUE]
          BY <4>6 DEF Amended
        <5>2. QED BY <4>1, <5>1 DEF AnAdmin, Row
      <4>7. QED BY <2>1, <4>2, <4>5, <4>6 DEF Call, Ops
    <3>3. CASE i \notin Admins
      BY <3>3 DEF SerialInv, SomeoneAdministers
    <3>4. QED BY <3>1, <3>2, <3>3
  <2>4. QED BY <1>7, <2>1, <2>2, <2>3
<1>10. ASSUME NEW r \in Requests, Commit(r)
       PROVE  SerialInv'
  <2>1. /\ call[r].id \in Ids
        /\ Known' = Known \cup {call[r].id}
        /\ user'[call[r].id] = written[r]
        /\ \A j \in Ids \ {call[r].id} : user'[j] = user[j]
    BY <1>10, CommitSets DEF SerialInv
  <2>2. (\E j \in Admins : j # call[r].id) \/ AnAdmin(written[r])
    BY <1>10 DEF SerialInv, Commit
  <2>3. SomeoneAdministers'
    BY <2>1, <2>2 DEF SomeoneAdministers, Admins, AnAdmin, Known
  <2>4. \A q \in Requests : pc'[q] = "idle"
    BY <1>10 DEF OneAtATime, Commit, SerialInv, DirInv, TypeInv, TypeOK
  <2>5. QED BY <1>1, <2>3, <2>4 DEF SerialInv
<1>11. CASE UNCHANGED vars
  BY <1>1, <1>2, <1>11 DEF vars, SerialInv, SomeoneAdministers
<1>12. QED
  BY <1>4, <1>5, <1>6, <1>8, <1>9, <1>10, <1>11 DEF Next, Abort

\* As long as requests are served one at a time there is an active ADMIN:
\* SomeoneAdministers.  (Two at a time, there may be none.)
THEOREM SerialAdmins ==
  ASSUME OneAtATime
  PROVE  Spec => []SomeoneAdministers
<1>1. Init => SerialInv
  BY DirInvInit, InitialUsersAssumption
     DEF Init, SerialInv, SomeoneAdministers, Admins, Known
<1>2. SerialInv => SomeoneAdministers
  BY DEF SerialInv
<1>3. QED BY <1>1, <1>2, SerialStep, PTL DEF Spec
============================================================================
