------------------------------ MODULE Tickets ------------------------------
(***************************************************************************)
(* The ticket aggregate of one company: TicketsService running inside the  *)
(* transaction TenantContextInterceptor opens around every handler.        *)
(*                                                                         *)
(* A request is one READ COMMITTED transaction.  Its statements are the    *)
(* actions below, so the statements of concurrent requests interleave.     *)
(* `ticket` and `lastNumber` are the committed rows; what an open          *)
(* transaction has written is in `after` until it commits.  A row lock is  *)
(* not a variable: a transaction holds one exactly while it has written    *)
(* and not ended (NumberLocked, RowLocked).                                *)
(***************************************************************************)
EXTENDS Naturals

CONSTANTS
  Requests,      \* slots for concurrent requests; a slot is reused when it ends
  Tickets,       \* the ids a ticket may be given
  Users,         \* the users of the company
  Texts,         \* values of the editable fields (title, description, ...)
  InitialRole,   \* [Users -> Roles]
  Managed,       \* the users an admin edits during a behaviour (a bound)
  Edits,         \* what an edit may make of them: [role, active] (a bound)
  MaxVersion,    \* no call is sent that could take a ticket past it (a bound)
  ClientsGuess,  \* TRUE: a client may send any version, not only one it has read
  NoOne,         \* a null user reference
  NoTicket,      \* an id with no row, an empty snapshot
  NoCall         \* the call of an idle slot

VARIABLES
  user,        \* committed user rows: [role, active]
  ticket,      \* committed ticket rows, or NoTicket
  lastNumber,  \* committed ticket_counters.last_number
  pc,          \* where each request stands
  call,        \* what it asked for, with the identity JwtStrategy gave it
  before,      \* the row its transaction loaded
  after        \* the row its transaction wrote, as it re-read it

vars == <<user, ticket, lastNumber, pc, call, before, after>>
slots == <<pc, call, before, after>>

----------------------------------------------------------------------------
Roles == {"ADMIN", "AGENT", "REQUESTER"}
Statuses == {"OPEN", "IN_PROGRESS", "RESOLVED", "CLOSED"}
Ops == {"create", "update", "changeStatus", "assign"}
Stages == {"idle", "opened", "loaded", "vetted", "numbered", "written",
           "committed"}

ASSUME NullsAssumption ==
  /\ NoOne \notin Users
  /\ NoTicket \notin Tickets
ASSUME RolesAssumption == InitialRole \in [Users -> Roles]
ASSUME BoundsAssumption ==
  /\ MaxVersion \in Nat
  /\ ClientsGuess \in BOOLEAN
  /\ Managed \subseteq Users
  /\ Edits \subseteq [role: Roles, active: BOOLEAN]

Person == Users \cup {NoOne}

\* `resolved` is resolvedAt # null, `closedBy` stands for closedAt and closedById
\* (one assignment sets both), `text` for the fields PATCH may edit.
Row == [number: Nat, requester: Users, status: Statuses, assignee: Person,
        text: Texts, resolved: BOOLEAN, closedBy: Person, version: Nat]

Call == [op: Ops, actor: Users, role: Roles, ticket: Tickets, version: Nat,
         status: Statuses, text: Texts, assignee: Person]

NoTicketIsNoRow == NoTicket \notin Row
ASSUME NoTicketAssumption == NoTicketIsNoRow
ASSUME NoCallAssumption == NoCall \notin Call

----------------------------------------------------------------------------
TICKET_TRANSITIONS ==
  [OPEN        |-> {"IN_PROGRESS", "RESOLVED"},
   IN_PROGRESS |-> {"RESOLVED", "OPEN"},
   RESOLVED    |-> {"CLOSED", "OPEN"},
   CLOSED      |-> {}]

\* Mutant: any move but none.
anyTransition(from, to) == to # from
canTransition(from, to) == to \in TICKET_TRANSITIONS[from]

seesEveryTicket(role) == role = "ADMIN"
ticketsInvolving(u, row) == u \in {row.requester, row.assignee}
visibleTo(c, row) == seesEveryTicket(c.role) \/ ticketsInvolving(c.actor, row)

\* Mutant: the wrong status is the frozen one.
assertNotResolved(row) == row.status # "RESOLVED"
assertOpenForEditing(row) == row.status # "CLOSED"
assertAssignable(u) == user[u].active /\ user[u].role \in {"AGENT", "ADMIN"}

\* What the `change` callbacks of update, changeStatus and assign demand of the
\* row they were handed, before any other query.
Admits(c, row) ==
  \/ c.op \in {"update", "assign"} /\ assertOpenForEditing(row)
  \/ c.op = "changeStatus" /\ canTransition(row.status, c.status)

NamesAnAssignee(c) == c.op = "assign" /\ c.assignee # NoOne

\* Mutant: the role where the id belongs.
AmendedByRole(c, row) == [row EXCEPT !.closedBy = c.role, !.version = @ + 1]

\* The UPDATE: the columns the callback returned, merged into the row the
\* statement finds, and the version it bumps.
Amended(c, row) ==
  CASE c.op = "update"       -> [row EXCEPT !.text = c.text, !.version = @ + 1]
    [] c.op = "assign"       -> [row EXCEPT !.assignee = c.assignee,
                                            !.version = @ + 1]
    [] c.op = "changeStatus" ->
         [row EXCEPT
            !.status = c.status,
            !.resolved = CASE c.status = "RESOLVED" -> TRUE
                           [] c.status = "OPEN"     -> FALSE
                           [] OTHER                 -> @,
            !.closedBy = IF c.status = "CLOSED" THEN c.actor ELSE @,
            !.version = @ + 1]

NewRow(c, number) ==
  [number |-> number, requester |-> c.actor, status |-> "OPEN",
   assignee |-> NoOne, text |-> c.text, resolved |-> FALSE,
   closedBy |-> NoOne, version |-> 1]

----------------------------------------------------------------------------
Opened == {t \in Tickets : ticket[t] # NoTicket}

InTransaction(r) == pc[r] \notin {"idle", "committed"}

\* Mutant: the counter's lock goes with the INSERT, not with the commit.
NumberLockedUntilInsert == \E r \in Requests : pc[r] = "numbered"
NumberLocked ==
  \E r \in Requests :
    \/ pc[r] = "numbered"
    \/ pc[r] = "written" /\ call[r].op = "create"

\* Mutant: nobody waits for the row.
NeverLocked(t) == FALSE
RowLocked(t) == \E r \in Requests : pc[r] = "written" /\ call[r].ticket = t

\* The versions a client may send for t: those some response carried, or any the
\* DTO lets through (an integer of at least 1).
SentVersions(t) ==
  {v \in 1 .. (MaxVersion - 1) : ClientsGuess \/ v <= ticket[t].version}

Init ==
  /\ user = [u \in Users |-> [role |-> InitialRole[u], active |-> TRUE]]
  /\ ticket = [t \in Tickets |-> NoTicket]
  /\ lastNumber = 0
  /\ pc = [r \in Requests |-> "idle"]
  /\ call = [r \in Requests |-> NoCall]
  /\ before = [r \in Requests |-> NoTicket]
  /\ after = [r \in Requests |-> NoTicket]

\* The request's transaction opens: JwtStrategy has read the user, RolesGuard has
\* let the role through, the DTO is valid.
Accept(r, u, roles, c) ==
  /\ pc[r] = "idle"
  /\ user[u].active
  /\ user[u].role \in roles
  /\ pc' = [pc EXCEPT ![r] = "opened"]
  /\ call' = [call EXCEPT ![r] = c]
  /\ UNCHANGED <<user, ticket, lastNumber, before, after>>

Asking(u, op, t, v, status, text, assignee) ==
  [op |-> op, actor |-> u, role |-> user[u].role, ticket |-> t, version |-> v,
   status |-> status, text |-> text, assignee |-> assignee]

\* The id is a fresh uuid; drawing it here rather than at the INSERT changes nothing
\* anybody can see.
AcceptCreate(r) ==
  \E u \in Users, t \in Tickets \ Opened, x \in Texts :
    /\ \A q \in Requests : pc[q] # "idle" => call[q].ticket # t
    /\ Accept(r, u, {"ADMIN", "REQUESTER"},
              Asking(u, "create", t, 0, "OPEN", x, NoOne))

AcceptUpdate(r) ==
  \E u \in Users, t \in Opened, x \in Texts : \E v \in SentVersions(t) :
    Accept(r, u, Roles, Asking(u, "update", t, v, "OPEN", x, NoOne))

AcceptChangeStatus(r) ==
  \E u \in Users, t \in Opened, s \in Statuses : \E v \in SentVersions(t) :
    Accept(r, u, {"ADMIN", "AGENT"},
           Asking(u, "changeStatus", t, v, s, ticket[t].text, NoOne))

AcceptAssign(r) ==
  \E u \in Users, t \in Opened, a \in Person : \E v \in SentVersions(t) :
    Accept(r, u, {"ADMIN"},
           Asking(u, "assign", t, v, "OPEN", ticket[t].text, a))

\* The request is over and its slot free; the committed rows are as they were.
End(r) ==
  /\ pc' = [pc EXCEPT ![r] = "idle"]
  /\ call' = [call EXCEPT ![r] = NoCall]
  /\ before' = [before EXCEPT ![r] = NoTicket]
  /\ after' = [after EXCEPT ![r] = NoTicket]
  /\ UNCHANGED <<user, ticket, lastNumber>>

----------------------------------------------------------------------------
\* create(): the counter's UPDATE .. RETURNING, which waits for any transaction
\* holding the counter row, then the INSERT.
TakeNumber(r) ==
  /\ pc[r] = "opened"
  /\ call[r].op = "create"
  /\ ~NumberLocked
  /\ pc' = [pc EXCEPT ![r] = "numbered"]
  /\ after' = [after EXCEPT ![r] = NewRow(call[r], lastNumber + 1)]
  /\ UNCHANGED <<user, ticket, lastNumber, call, before>>

Insert(r) ==
  /\ pc[r] = "numbered"
  /\ pc' = [pc EXCEPT ![r] = "written"]
  /\ UNCHANGED <<user, ticket, lastNumber, call, before, after>>

----------------------------------------------------------------------------
\* mutate(): load() and the checks of the callback ...
Loads(r) == pc[r] = "opened" /\ call[r].op # "create"

Load(r) ==
  /\ Loads(r)
  /\ LET row == ticket[call[r].ticket]
     IN  /\ visibleTo(call[r], row)
         /\ Admits(call[r], row)
         /\ before' = [before EXCEPT ![r] = row]
  /\ pc' = [pc EXCEPT ![r] = "loaded"]
  /\ UNCHANGED <<user, ticket, lastNumber, call, after>>

\* ... 404 for a ticket the caller may not see, 409 for a change it cannot take ...
Refuse(r) ==
  /\ Loads(r)
  /\ LET row == ticket[call[r].ticket]
     IN  ~(visibleTo(call[r], row) /\ Admits(call[r], row))
  /\ End(r)

\* ... assign() alone reads the assignee, in a statement of its own ...
VetAssignee(r) ==
  /\ pc[r] = "loaded"
  /\ NamesAnAssignee(call[r])
  /\ \/ /\ assertAssignable(call[r].assignee)
        /\ pc' = [pc EXCEPT ![r] = "vetted"]
        /\ UNCHANGED <<user, ticket, lastNumber, call, before, after>>
     \/ /\ ~assertAssignable(call[r].assignee)
        /\ End(r)

Updates(r) == \/ pc[r] = "vetted"
              \/ pc[r] = "loaded" /\ ~NamesAnAssignee(call[r])

\* Mutant: UPDATE .. WHERE id.
MatchesById(r) == TRUE
\* WHERE id AND version.
Matches(r) == ticket[call[r].ticket].version = call[r].version

\* ... the UPDATE.  A row that matches and is locked makes it
\* wait; the condition is evaluated again on the row the other one commits ...
Write(r) ==
  /\ Updates(r)
  /\ Matches(r)
  /\ ~RowLocked(call[r].ticket)
  /\ after' = [after EXCEPT ![r] = Amended(call[r], ticket[call[r].ticket])]
  /\ pc' = [pc EXCEPT ![r] = "written"]
  /\ UNCHANGED <<user, ticket, lastNumber, call, before>>

\* Mutant: a lost race is tried again in a new transaction, with the version it was sent.
ConflictRetried(r) ==
  /\ Updates(r)
  /\ ~Matches(r)
  /\ pc' = [pc EXCEPT ![r] = "opened"]
  /\ before' = [before EXCEPT ![r] = NoTicket]
  /\ UNCHANGED <<user, ticket, lastNumber, call, after>>

\* ... and a count of zero is the 409 of the loser.
Conflict(r) == Updates(r) /\ ~Matches(r) /\ End(r)

----------------------------------------------------------------------------
\* The handler has returned: the transaction commits, its locks go.
Commit(r) ==
  /\ pc[r] = "written"
  /\ ticket' = [ticket EXCEPT ![call[r].ticket] = after[r]]
  /\ lastNumber' = IF call[r].op = "create" THEN after[r].number ELSE lastNumber
  /\ pc' = [pc EXCEPT ![r] = "committed"]
  /\ UNCHANGED <<user, call, before, after>>

\* TenantScopeService.run drains the queue: the event, which is `before` and
\* `after`, goes to its listeners - or is lost, when the process dies first.
Drain(r) == pc[r] = "committed" /\ End(r)

\* The transaction times out, its connection breaks or the process dies.
Abort(r) == InTransaction(r) /\ End(r)

----------------------------------------------------------------------------
\* UsersService.update, remove and restore, as the tickets see them.  Whether the
\* last ADMIN may go is the Users module's question.
EditUser(u) ==
  /\ \E row \in Edits : user' = [user EXCEPT ![u] = row]
  /\ UNCHANGED <<ticket, lastNumber, slots>>

Serve(r) ==
  \/ TakeNumber(r) \/ Insert(r)
  \/ Load(r) \/ Refuse(r) \/ VetAssignee(r) \/ Write(r) \/ Conflict(r)
  \/ Commit(r) \/ Drain(r)

Next ==
  \/ \E r \in Requests :
       \/ AcceptCreate(r) \/ AcceptUpdate(r)
       \/ AcceptChangeStatus(r) \/ AcceptAssign(r)
       \/ Serve(r)
       \/ Abort(r)
  \/ \E u \in Managed : EditUser(u)

Spec == Init /\ [][Next]_vars

\* A handler that can go on does: the event loop runs it, Postgres serves lock
\* waiters in order, and a transaction ends at the latest at SCOPE_TIMEOUT_MS.
FairSpec == Spec /\ \A r \in Requests : SF_vars(Serve(r))

----------------------------------------------------------------------------
TypeOK ==
  /\ user \in [Users -> [role: Roles, active: BOOLEAN]]
  /\ ticket \in [Tickets -> Row \cup {NoTicket}]
  /\ lastNumber \in Nat
  /\ pc \in [Requests -> Stages]
  /\ call \in [Requests -> Call \cup {NoCall}]
  /\ before \in [Requests -> Row \cup {NoTicket}]
  /\ after \in [Requests -> Row \cup {NoTicket}]

\* Every row of t somebody holds: the committed one, the snapshots open requests
\* decided on, and both sides of the events about to be released.
KnownRows(t) ==
  (   {ticket[t]}
   \cup {before[r] : r \in {q \in Requests : pc[q] # "idle" /\ call[q].ticket = t}}
   \cup {after[r] : r \in {q \in Requests : pc[q] = "committed" /\ call[q].ticket = t}}) \ {NoTicket}

\* A version names one state of a ticket, for everybody and for good: two requests
\* never both change it from the same version (the loser's write matches nothing),
\* and what an event says the ticket was and became is what it was and became.
\* mutate(): UPDATE .. WHERE version, and the emit after it.
OneRowPerVersion ==
  \A t \in Tickets : \A x, y \in KnownRows(t) :
    x.version = y.version => x = y

\* A write lands on the very row its checks were made on and its audit entry calls
\* "before": nothing happened to the ticket between load() and updateMany.
WritesOverWhatItRead ==
  \A r \in Requests :
    pc[r] = "written" /\ call[r].op # "create"
      => before[r] = ticket[call[r].ticket]

\* The company's tickets are numbered 1 to last_number, each number once, however
\* many creations run at once or roll back.  create() and its counter row.
NumbersAreContiguous ==
  /\ {ticket[t].number : t \in Opened} = 1 .. lastNumber
  /\ \A s, t \in Opened : ticket[s].number = ticket[t].number => s = t

\* A closed ticket is a record: no request, however it raced with the close, ever
\* changes one.  assertOpenForEditing() and the empty CLOSED entry of the
\* transitions are checked on a read; this is about the row.
ClosedIsFinal ==
  [][\A t \in Opened : ticket[t].status = "CLOSED" => ticket'[t] = ticket[t]]_vars

\* Whoever changes a ticket is an ADMIN or is, at the moment of the change, its
\* requester or its assignee; visibleTo() looked at an earlier moment.
OnlyTheInvolvedChange ==
  [][\A r \in Requests : Commit(r) /\ call[r].op # "create" =>
       LET row == ticket[call[r].ticket]
       IN  \/ call[r].role = "ADMIN"
           \/ call[r].actor \in {row.requester, row.assignee}]_vars

\* The detailed protocol keeps the promise of TicketLedger, step by step.
Ledger == INSTANCE TicketLedger
ImplementsLedger == Ledger!Spec

\* No request waits for ever, on the counter, on a ticket or on a lost race.
EveryRequestEnds == \A r \in Requests : pc[r] # "idle" ~> pc[r] = "idle"

----------------------------------------------------------------------------
\* Claims of the repository about this code.

\* ticket-visibility.ts: "A REQUESTER can never be an assignee".
RequesterIsNeverAssignee ==
  \A t \in Opened :
    ticket[t].assignee # NoOne => user[ticket[t].assignee].role # "REQUESTER"

\* HELPDESK.md: the 409 of a lost race names the version to reload.
ConflictNamesCurrentVersion ==
  [][\A r \in Requests :
       Conflict(r) => before[r].version = ticket[call[r].ticket].version]_vars
============================================================================
