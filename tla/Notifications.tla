---------------------------- MODULE Notifications ----------------------------
(***************************************************************************)
(* What follows a change: CommentsService, the events of tickets and       *)
(* comments, and their two listeners - NotificationsGateway, which wakes   *)
(* the sockets of the people concerned, and AuditListener, which records   *)
(* the change in a transaction of its own.                                 *)
(*                                                                         *)
(* A change to a ticket row is one step here: the Tickets module shows     *)
(* that the protocol of mutate() amounts to that.  A comment is not: it    *)
(* goes by the ticket it read and locks nothing, so the ticket may have    *)
(* changed when it is committed.                                           *)
(*                                                                         *)
(* There is one process (the rooms of socket.io are in its memory).  The   *)
(* client is external: HELPDESK.md has it refetch what it shows when it    *)
(* hears ready or ticket.changed.                                          *)
(***************************************************************************)
EXTENDS Naturals, FiniteSets

CONSTANTS
  Requests,     \* slots for concurrent requests; a slot is reused when it ends
  Users,        \* the users of the company
  Sockets,      \* those with a tab open (a bound)
  Tickets,
  InitialRole,  \* [Users -> Roles]
  Managed,      \* the users an admin edits during a behaviour (a bound)
  Edits,        \* what an edit may make of them: [role, active] (a bound)
  MaxVersion,   \* how often a ticket changes (a bound)
  MaxPosts,     \* how many comments and notes a ticket gets (a bound)
  NoOne, NoTicket, NoEvent

VARIABLES
  user,       \* committed user rows: [role, active]
  ticket,     \* committed ticket rows, or NoTicket
  thread,     \* committed comments of each ticket: [comments, notes]
  pc, event,  \* where each request stands; the event it holds back
  socket,     \* [stage, role] of each tab: the role its handshake read
  woken,      \* has the tab heard something since it last fetched?
  screen,     \* the tickets it shows
  recording,  \* events of each ticket AuditListener is writing down
  trail,      \* audit_logs rows of each ticket
  lost        \* events of each ticket that will never be recorded

rows == <<user, ticket, thread>>
requests == <<pc, event>>
tabs == <<socket, woken, screen>>
audit == <<recording, trail, lost>>
vars == <<rows, requests, tabs, audit>>

Roles == {"ADMIN", "AGENT", "REQUESTER"}
AUDIT_ACTIONS == {"created", "updated", "status_changed", "assigned",
                  "commented", "internal_note_added"}
STAFF_ONLY_ACTIONS == {"internal_note_added"}

Person == Users \cup {NoOne}
Row == [requester: Users, assignee: Person, closed: BOOLEAN, version: Nat]
TicketEvent == [ticket: Tickets, action: AUDIT_ACTIONS, requester: Users,
                assignees: SUBSET Users]
Stages == {"idle", "loaded", "committed"}
SocketStages == {"off", "verified", "own", "rooms", "ready"}

ASSUME RequestsAssumption == IsFiniteSet(Requests)
ASSUME RolesAssumption == InitialRole \in [Users -> Roles]
ASSUME BoundsAssumption ==
  /\ Sockets \subseteq Users /\ Managed \subseteq Users
  /\ Edits \subseteq [role: Roles, active: BOOLEAN]
  /\ MaxVersion \in Nat /\ MaxPosts \in Nat
ASSUME NoOneAssumption == NoOne \notin Users
NoTicketIsNoRow == NoTicket \notin Row
ASSUME NoTicketAssumption == NoTicketIsNoRow
NoEventIsNoEvent == NoEvent \notin TicketEvent
ASSUME NoEventAssumption == NoEventIsNoEvent

seesEveryTicket(role) == role = "ADMIN"
handlesInternalNotes(role) == role \in {"ADMIN", "AGENT"}
joinsAdminRoom(role) == role = "ADMIN"

Opened == {t \in Tickets : ticket[t] # NoTicket}
visibleTo(u, row) ==
  seesEveryTicket(user[u].role) \/ u \in {row.requester, row.assignee}

\* What a client shows: nothing yet, or what GET /tickets answered.
Blank == [t \in Tickets |-> NoTicket]
Shown(u) ==
  [t \in Tickets |->
     IF t \in Opened /\ visibleTo(u, ticket[t]) THEN ticket[t] ELSE NoTicket]

Off == [stage |-> "off", role |-> "REQUESTER"]

Init ==
  /\ user = [u \in Users |-> [role |-> InitialRole[u], active |-> TRUE]]
  /\ ticket = [t \in Tickets |-> NoTicket]
  /\ thread = [t \in Tickets |-> [comments |-> 0, notes |-> 0]]
  /\ pc = [r \in Requests |-> "idle"]
  /\ event = [r \in Requests |-> NoEvent]
  /\ socket = [u \in Sockets |-> Off]
  /\ woken = [u \in Sockets |-> FALSE]
  /\ screen = [u \in Sockets |-> Blank]
  /\ recording = [t \in Tickets |-> 0]
  /\ trail = [t \in Tickets |-> 0]
  /\ lost = [t \in Tickets |-> 0]

----------------------------------------------------------------------------
\* Mutant: the agent a reassignment leaves is forgotten ...
ConcernedAfter(old, new) == {new.assignee} \ {NoOne}
\* ... or the nulls are not dropped.
ConcernedOrNull(old, new) == {old.assignee, new.assignee}
\* Both sides of the assignee.
Concerned(old, new) == {old.assignee, new.assignee} \ {NoOne}

\* The commit of a TicketsService call, with the event its scope releases.
Changes(r, t, row, action, assignees) ==
  /\ pc[r] = "idle"
  /\ row.version <= MaxVersion
  /\ ticket' = [ticket EXCEPT ![t] = row]
  /\ pc' = [pc EXCEPT ![r] = "committed"]
  /\ event' = [event EXCEPT ![r] =
       [ticket |-> t, action |-> action, requester |-> row.requester,
        assignees |-> assignees]]
  /\ UNCHANGED <<user, thread, tabs, audit>>

Create(r) ==
  \E u \in Users, t \in Tickets \ Opened :
    /\ user[u].active /\ user[u].role \in {"ADMIN", "REQUESTER"}
    /\ Changes(r, t, [requester |-> u, assignee |-> NoOne, closed |-> FALSE,
                      version |-> 1], "created", {})

Mutates(r, u, t, row, action) ==
  /\ user[u].active /\ visibleTo(u, ticket[t]) /\ ~ticket[t].closed
  /\ Changes(r, t, row, action, Concerned(ticket[t], row))

Update(r) ==
  \E u \in Users, t \in Opened :
    Mutates(r, u, t, [ticket[t] EXCEPT !.version = @ + 1], "updated")

ChangeStatus(r) ==
  \E u \in Users, t \in Opened, close \in BOOLEAN :
    /\ user[u].role \in {"ADMIN", "AGENT"}
    /\ Mutates(r, u, t, [ticket[t] EXCEPT !.closed = close, !.version = @ + 1],
               "status_changed")

Assign(r) ==
  \E u \in Users, t \in Opened, a \in Person :
    /\ user[u].role = "ADMIN"
    /\ a # NoOne => user[a].active /\ user[a].role \in {"AGENT", "ADMIN"}
    /\ Mutates(r, u, t, [ticket[t] EXCEPT !.assignee = a, !.version = @ + 1],
               "assigned")

----------------------------------------------------------------------------
\* CommentsService.create(): requireTicket() and the refusals; the event names the
\* people of the row that was read.
Load(r) ==
  /\ pc[r] = "idle"
  /\ \E u \in Users, t \in Opened, internal \in BOOLEAN :
       /\ user[u].active /\ visibleTo(u, ticket[t]) /\ ~ticket[t].closed
       /\ internal => handlesInternalNotes(user[u].role)
       /\ event' = [event EXCEPT ![r] =
            [ticket |-> t,
             action |-> IF internal THEN "internal_note_added" ELSE "commented",
             requester |-> ticket[t].requester,
             assignees |-> {ticket[t].assignee} \ {NoOne}]]
  /\ pc' = [pc EXCEPT ![r] = "loaded"]
  /\ UNCHANGED <<rows, tabs, audit>>

\* The INSERT and the emit, which nobody sees before the commit, with that commit.
Post(r) ==
  /\ pc[r] = "loaded"
  /\ LET t == event[r].ticket
     IN  /\ thread[t].comments + thread[t].notes < MaxPosts
         /\ thread' = IF event[r].action = "commented"
                        THEN [thread EXCEPT ![t].comments = @ + 1]
                        ELSE [thread EXCEPT ![t].notes = @ + 1]
  /\ pc' = [pc EXCEPT ![r] = "committed"]
  /\ UNCHANGED <<user, ticket, event, tabs, audit>>

\* Mutant: the event does not wait for the commit.
RecordedAnyway(r) == [recording EXCEPT ![event[r].ticket] = @ + 1]
DiscardedOnRollback(r) == recording

\* Before or after the INSERT.
Abort(r) ==
  /\ pc[r] = "loaded"
  /\ recording' = DiscardedOnRollback(r)
  /\ pc' = [pc EXCEPT ![r] = "idle"]
  /\ event' = [event EXCEPT ![r] = NoEvent]
  /\ UNCHANGED <<rows, tabs, trail, lost>>

----------------------------------------------------------------------------
\* handleConnection(), between its awaits.  A token that does not verify, and a user
\* who is not active, are turned away and leave no trace.
Verify(u) ==
  /\ socket[u].stage = "off"
  /\ user[u].active
  /\ socket' = [socket EXCEPT ![u] = [stage |-> "verified", role |-> user[u].role]]
  /\ UNCHANGED <<rows, requests, woken, screen, audit>>

Goes(u, from, to) ==
  /\ socket[u].stage = from
  /\ socket' = [socket EXCEPT ![u].stage = to]
  /\ UNCHANGED <<rows, requests, screen, audit>>

JoinUserRoom(u) == Goes(u, "verified", "own") /\ UNCHANGED woken
JoinAdminRoom(u) == Goes(u, "own", "rooms") /\ UNCHANGED woken
EmitReady(u) == Goes(u, "rooms", "ready") /\ woken' = [woken EXCEPT ![u] = TRUE]

InUserRoom(u) == socket[u].stage \in {"own", "rooms", "ready"}
InAdminRoom(u) ==
  joinsAdminRoom(socket[u].role) /\ socket[u].stage \in {"rooms", "ready"}

Disconnect(u) ==
  /\ socket[u].stage # "off"
  /\ socket' = [socket EXCEPT ![u] = Off]
  /\ woken' = [woken EXCEPT ![u] = FALSE]
  /\ screen' = [screen EXCEPT ![u] = Blank]
  /\ UNCHANGED <<rows, requests, audit>>

\* The client's GET: JwtStrategy reads who it is now.
Refetch(u) ==
  /\ socket[u].stage # "off" /\ woken[u] /\ user[u].active
  /\ screen' = [screen EXCEPT ![u] = Shown(u)]
  /\ woken' = [woken EXCEPT ![u] = FALSE]
  /\ UNCHANGED <<rows, requests, socket, audit>>

\* Mutant: the requester hears of everything.
AddressedToAll(e) == e.assignees \cup {e.requester}
Addressed(e) ==
  e.assignees \cup (IF e.action \in STAFF_ONLY_ACTIONS THEN {} ELSE {e.requester})

\* onTicketEvent(): the tabs in any of the rooms.
Reached(e) ==
  {u \in Sockets :
     \/ InAdminRoom(u)
     \/ InUserRoom(u) /\ u \in Addressed(e)}

\* The scope releases its event and does not wait for the listeners: the gateway has
\* sent it on, AuditListener has begun.
Drain(r) ==
  /\ pc[r] = "committed"
  /\ woken' = [u \in Sockets |-> woken[u] \/ u \in Reached(event[r])]
  /\ recording' = [recording EXCEPT ![event[r].ticket] = @ + 1]
  /\ pc' = [pc EXCEPT ![r] = "idle"]
  /\ event' = [event EXCEPT ![r] = NoEvent]
  /\ UNCHANGED <<rows, socket, screen, trail, lost>>

\* AuditListener.handle(): the entry is committed, or its failure is logged.
Handle(t) ==
  /\ recording[t] > 0
  /\ recording' = [recording EXCEPT ![t] = @ - 1]
  /\ \/ trail' = [trail EXCEPT ![t] = @ + 1] /\ UNCHANGED lost
     \/ lost' = [lost EXCEPT ![t] = @ + 1] /\ UNCHANGED trail
  /\ UNCHANGED <<rows, requests, tabs>>

Undrained(t) == {r \in Requests : pc[r] = "committed" /\ event[r].ticket = t}

\* The process dies: its queues and its sockets go with it.
Crash ==
  /\ pc' = [r \in Requests |-> "idle"]
  /\ event' = [r \in Requests |-> NoEvent]
  /\ lost' = [t \in Tickets |->
       lost[t] + recording[t] + Cardinality(Undrained(t))]
  /\ recording' = [t \in Tickets |-> 0]
  /\ socket' = [u \in Sockets |-> Off]
  /\ woken' = [u \in Sockets |-> FALSE]
  /\ screen' = [u \in Sockets |-> Blank]
  /\ UNCHANGED <<rows, trail>>

\* UsersService.update, remove and restore, as the sockets see them.
EditUser(u) ==
  /\ \E row \in Edits : user' = [user EXCEPT ![u] = row]
  /\ UNCHANGED <<ticket, thread, requests, tabs, audit>>

Next ==
  \/ \E r \in Requests :
       \/ Create(r) \/ Update(r) \/ ChangeStatus(r) \/ Assign(r)
       \/ Load(r) \/ Post(r) \/ Abort(r) \/ Drain(r)
  \/ \E u \in Sockets :
       \/ Verify(u) \/ JoinUserRoom(u) \/ JoinAdminRoom(u) \/ EmitReady(u)
       \/ Disconnect(u) \/ Refetch(u)
  \/ \E t \in Tickets : Handle(t)
  \/ \E u \in Managed : EditUser(u)
  \/ Crash

Spec == Init /\ [][Next]_vars

----------------------------------------------------------------------------
TypeOK ==
  /\ user \in [Users -> [role: Roles, active: BOOLEAN]]
  /\ ticket \in [Tickets -> Row \cup {NoTicket}]
  /\ thread \in [Tickets -> [comments: Nat, notes: Nat]]
  /\ pc \in [Requests -> Stages]
  /\ event \in [Requests -> TicketEvent \cup {NoEvent}]
  /\ socket \in [Sockets -> [stage: SocketStages, role: Roles]]
  /\ woken \in [Sockets -> BOOLEAN]
  /\ screen \in [Sockets -> [Tickets -> Row \cup {NoTicket}]]
  /\ recording \in [Tickets -> Nat]
  /\ trail \in [Tickets -> Nat]
  /\ lost \in [Tickets -> Nat]

\* A tab whose user nobody edits shows, of every ticket without an event on its way,
\* the row as it is - the one that was taken from it included - or is about to fetch
\* it: whoever can see a change, or could before it, is woken by it, and a tab that
\* connects in between fetches after it joined its rooms.
ScreensCatchUp ==
  \A u \in Sockets \ Managed : socket[u].stage = "ready" /\ ~woken[u] =>
    \A t \in Tickets : Undrained(t) = {} => screen[u][t] = Shown(u)[t]

\* The customer never learns that a note exists: it reaches nobody but staff, however
\* the ticket is reassigned while the note is written.  (A user an admin edits may be
\* in a room since before.)
NotesStayWithStaff ==
  [][\A r \in Requests :
       Drain(r) /\ event[r].action = "internal_note_added" =>
         \A u \in Reached(event[r]) \ Managed :
           handlesInternalNotes(user[u].role)]_vars

\* The trail has no entry of a change that was rolled back, and misses none but those
\* being written and those lost with the process or a failed insert, which it counts.
TrailAccountsForAll ==
  \A t \in Tickets :
    trail[t] + recording[t] + lost[t] + Cardinality(Undrained(t))
      = (IF t \in Opened THEN ticket[t].version ELSE 0)
        + thread[t].comments + thread[t].notes

----------------------------------------------------------------------------
\* Claims of the repository about this code.

\* HELPDESK.md: "A closed ticket takes no new comments".
ClosedTakesNoComment ==
  [][\A r \in Requests : Post(r) => ~ticket[event[r].ticket].closed]_vars

\* HELPDESK.md: a note "still reaches the company's admins and the agent working the
\* ticket".
NoteReachesTheAssignee ==
  [][\A r \in Requests :
       Post(r) /\ event[r].action = "internal_note_added" =>
         {ticket[event[r].ticket].assignee} \ {NoOne} \subseteq event[r].assignees]_vars

\* notifications.gateway.ts: a user who is demoted or deactivated after connecting does
\* not sit in the admin room.
AdminRoomIsAdmins ==
  \A u \in Sockets : InAdminRoom(u) => user[u].active /\ user[u].role = "ADMIN"
=============================================================================
