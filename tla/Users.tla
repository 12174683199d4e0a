------------------------------- MODULE Users -------------------------------
(***************************************************************************)
(* The user directory of one company: UsersService, reached by the         *)
(* company's own ADMINs and by the ADMIN_MASTER through                    *)
(* CompanyUsersController.                                                 *)
(*                                                                         *)
(* A request is one READ COMMITTED transaction; its statements are the     *)
(* actions.  `user` holds the committed rows; the row an open transaction  *)
(* has written is in `written` until it commits, and locked.  Passwords    *)
(* and sessions are the Sessions module's.                                 *)
(***************************************************************************)

CONSTANTS
  Requests,      \* slots for concurrent requests; a slot is reused when it ends
  Ids,           \* the ids a user may be given
  Emails,
  InitialUsers,  \* the rows the company starts with
  Same,          \* a field the DTO leaves out
  NoUser, NoCall

VARIABLES
  user,     \* committed user rows, or NoUser
  pc,       \* where each request stands
  call,     \* what it asked for
  loaded,   \* the row its load() returned
  written   \* the row its transaction wrote

vars == <<user, pc, call, loaded, written>>

Roles == {"ADMIN", "AGENT", "REQUESTER"}
Ops == {"create", "update", "remove", "restore"}
Stages == {"idle", "opened", "loaded", "cleared", "written"}

Row == [email: Emails, role: Roles, active: BOOLEAN]
\* `self`: the caller is the user the call is about.
Call == [op: Ops, id: Ids, self: BOOLEAN, email: Emails \cup {Same},
         role: Roles \cup {Same}]

NoUserIsNoRow == NoUser \notin Row
ASSUME NoUserAssumption == NoUserIsNoRow
NoCallIsNoCall == NoCall \notin Call
ASSUME NoCallAssumption == NoCallIsNoCall
ASSUME NullsAssumption == Same \notin Emails /\ Same \notin Roles

Known == {i \in Ids : user[i] # NoUser}
Admins == {i \in Known : user[i].role = "ADMIN" /\ user[i].active}

\* CompaniesService.create gives the company its first ADMIN.
ASSUME InitialUsersAssumption ==
  /\ InitialUsers \in [Ids -> Row \cup {NoUser}]
  /\ \E i \in Ids : /\ InitialUsers[i] # NoUser
                    /\ InitialUsers[i].role = "ADMIN" /\ InitialUsers[i].active
  /\ \A i, j \in Ids :
       /\ InitialUsers[i] # NoUser /\ InitialUsers[j] # NoUser
       /\ InitialUsers[i].email = InitialUsers[j].email
       => i = j

Init ==
  /\ user = InitialUsers
  /\ pc = [r \in Requests |-> "idle"]
  /\ call = [r \in Requests |-> NoCall]
  /\ loaded = [r \in Requests |-> NoUser]
  /\ written = [r \in Requests |-> NoUser]

Accept(r, c) ==
  /\ pc[r] = "idle"
  /\ pc' = [pc EXCEPT ![r] = "opened"]
  /\ call' = [call EXCEPT ![r] = c]
  /\ UNCHANGED <<user, loaded, written>>

Asking(op, i, self, e, role) ==
  [op |-> op, id |-> i, self |-> self, email |-> e, role |-> role]

\* JwtStrategy and RolesGuard: the caller is an ADMIN of the company who is active, or
\* the ADMIN_MASTER, who is nobody's colleague and can always call.
MayCall(i, self) == self => i \in Admins

\* The id is a fresh uuid.
AcceptCreate(r) ==
  \E i \in Ids \ Known, e \in Emails, role \in Roles :
    /\ \A q \in Requests : pc[q] # "idle" => call[q].id # i
    /\ Accept(r, Asking("create", i, FALSE, e, role))

AcceptUpdate(r) ==
  \E i \in Known, e \in Emails \cup {Same}, role \in Roles \cup {Same} :
    Accept(r, Asking("update", i, FALSE, e, role))

AcceptRemove(r) ==
  \E i \in Known, self \in BOOLEAN :
    MayCall(i, self) /\ Accept(r, Asking("remove", i, self, Same, Same))

AcceptRestore(r) ==
  \E i \in Known : Accept(r, Asking("restore", i, FALSE, Same, Same))

End(r) ==
  /\ pc' = [pc EXCEPT ![r] = "idle"]
  /\ call' = [call EXCEPT ![r] = NoCall]
  /\ loaded' = [loaded EXCEPT ![r] = NoUser]
  /\ written' = [written EXCEPT ![r] = NoUser]
  /\ UNCHANGED user

----------------------------------------------------------------------------
\* load(), and what each operation refuses on the row it returns.
Refused(c, row) ==
  \/ c.op = "remove" /\ (c.self \/ ~row.active)
  \/ c.op = "restore" /\ row.active

Load(r) ==
  /\ pc[r] = "opened"
  /\ call[r].op # "create"
  /\ LET row == user[call[r].id]
     IN  \/ /\ ~Refused(call[r], row)
            /\ pc' = [pc EXCEPT ![r] = "loaded"]
            /\ loaded' = [loaded EXCEPT ![r] = row]
            /\ UNCHANGED <<user, call, written>>
         \/ Refused(call[r], row) /\ End(r)

\* Which calls ask assertNotLastAdmin, and of which rows it asks the database.
EndsAnAdmin(c, row) ==
  /\ \/ c.op = "remove"
     \/ c.op = "update" /\ c.role \notin {"ADMIN", Same}
  /\ row.role = "ADMIN" /\ row.active

Counted == {i \in Known : user[i].role = "ADMIN" /\ user[i].active}

\* count() <= 1.
AtMostOneCounted == \A i, j \in Counted : i = j

assertNotLastAdmin(r) ==
  /\ pc[r] = "loaded"
  /\ \/ /\ EndsAnAdmin(call[r], loaded[r]) => ~AtMostOneCounted
        /\ pc' = [pc EXCEPT ![r] = "cleared"]
        /\ UNCHANGED <<user, call, loaded, written>>
     \/ EndsAnAdmin(call[r], loaded[r]) /\ AtMostOneCounted /\ End(r)

----------------------------------------------------------------------------
\* The UPDATE names the columns the operation is about; the rest of the row is what
\* the statement finds.
\* Mutant: a column left out is written all the same.
Overwritten(new, old) == new
Or(new, old) == IF new = Same THEN old ELSE new

\* Mutant: the whole row goes back as it was loaded.
WroteBack(r) == [loaded[r] EXCEPT !.email = Or(call[r].email, @),
                                  !.role = Or(call[r].role, @),
                                  !.active = CASE call[r].op = "remove"  -> FALSE
                                               [] call[r].op = "restore" -> TRUE
                                               [] OTHER                  -> @]
Amended(r) ==
  LET row == user[call[r].id]
  IN  CASE call[r].op = "update"  -> [row EXCEPT !.email = Or(call[r].email, @),
                                                 !.role = Or(call[r].role, @)]
        [] call[r].op = "remove"  -> [row EXCEPT !.active = FALSE]
        [] call[r].op = "restore" -> [row EXCEPT !.active = TRUE]

NewRow(c) == [email |-> c.email, role |-> c.role, active |-> TRUE]

RowLocked(i) == \E q \in Requests : pc[q] = "written" /\ call[q].id = i

\* Mutant: the unique index leaves deactivated users out.
TakenByTheActive(e, i) ==
  \E j \in Known \ {i} : user[j].email = e /\ user[j].active
\* The unique index on (tenant_id, email), for the row of user i ...
Taken(e, i) == \E j \in Known \ {i} : user[j].email = e

\* ... which makes a statement wait for a transaction that may free or take e.
EmailPending(e, i) ==
  \E q \in Requests : /\ pc[q] = "written" /\ call[q].id # i
                      /\ \/ written[q].email = e
                         \/ call[q].op # "create" /\ user[call[q].id].email = e

Writes(r, row) ==
  LET i == call[r].id
  IN  /\ ~RowLocked(i)
      /\ ~EmailPending(row.email, i)
      /\ \/ /\ ~Taken(row.email, i)
            /\ written' = [written EXCEPT ![r] = row]
            /\ pc' = [pc EXCEPT ![r] = "written"]
            /\ UNCHANGED <<user, call, loaded>>
         \/ Taken(row.email, i) /\ End(r)

\* create(): the INSERT; on a violation the savepoint is restored, the row that is in
\* the way is read to word the 409, and the transaction ends without a change.
Insert(r) ==
  /\ pc[r] = "opened"
  /\ call[r].op = "create"
  /\ Writes(r, NewRow(call[r]))

Update(r) == pc[r] = "cleared" /\ Writes(r, Amended(r))

Commit(r) ==
  /\ pc[r] = "written"
  /\ user' = [user EXCEPT ![call[r].id] = written[r]]
  /\ pc' = [pc EXCEPT ![r] = "idle"]
  /\ call' = [call EXCEPT ![r] = NoCall]
  /\ loaded' = [loaded EXCEPT ![r] = NoUser]
  /\ written' = [written EXCEPT ![r] = NoUser]

Abort(r) == pc[r] # "idle" /\ End(r)

Next ==
  \E r \in Requests :
    \/ AcceptCreate(r) \/ AcceptUpdate(r) \/ AcceptRemove(r) \/ AcceptRestore(r)
    \/ Load(r) \/ assertNotLastAdmin(r)
    \/ Insert(r) \/ Update(r) \/ Commit(r) \/ Abort(r)

Spec == Init /\ [][Next]_vars

----------------------------------------------------------------------------
TypeOK ==
  /\ user \in [Ids -> Row \cup {NoUser}]
  /\ pc \in [Requests -> Stages]
  /\ call \in [Requests -> Call \cup {NoCall}]
  /\ loaded \in [Requests -> Row \cup {NoUser}]
  /\ written \in [Requests -> Row \cup {NoUser}]

\* An address names one person of the company, deactivated ones included, so a
\* restore can never collide.  create(), update(), restore() and the unique index.
OneUserPerEmail ==
  \A i, j \in Known : user[i].email = user[j].email => i = j

\* Being active and having a role change only by the operation that is about it: a
\* rename that was loaded before a deactivation does not bring its user back, nor
\* undo a promotion.
OnlyWhatWasAsked ==
  [][\A i \in Known :
       /\ user'[i].active # user[i].active =>
            \E r \in Requests :
              /\ Commit(r) /\ call[r].id = i
              /\ call[r].op = IF user[i].active THEN "remove" ELSE "restore"
       /\ user'[i].role # user[i].role =>
            \E r \in Requests :
              Commit(r) /\ call[r].id = i /\ call[r].role = user'[i].role]_vars

\* "A tenant with no active ADMIN is a tenant nobody can administer":
\* assertNotLastAdmin is there to keep one.
SomeoneAdministers == Admins # {}
============================================================================
