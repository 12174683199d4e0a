------------------------- MODULE NotificationsProofs -------------------------
(***************************************************************************)
(* Theorems about Notifications, for any users, sockets, tickets, requests *)
(* and bounds.                                                             *)
(***************************************************************************)
EXTENDS Notifications, FiniteSetTheorems, TLAPS

Unmanaged == Sockets \ Managed
Note(r) == pc[r] # "idle" /\ event[r].action = "internal_note_added"

\* A request that is under way holds an event.
HeldOK == \A r \in Requests : pc[r] # "idle" => event[r] \in TicketEvent

\* A user nobody edits is in the rooms of the role they have.
RolesOK == \A u \in Unmanaged : socket[u].stage # "off" => socket[u].role = user[u].role

\* Whom a ticket or a note is assigned to was staff, and is if nobody edited them.
StaffOK ==
  /\ \A t \in Opened :
       ticket[t].assignee \in Users \ Managed =>
         handlesInternalNotes(user[ticket[t].assignee].role)
  /\ \A r \in Requests : Note(r) =>
       \A u \in event[r].assignees \ Managed : handlesInternalNotes(user[u].role)

Pending(u, t) == \E r \in Undrained(t) : u \in Reached(event[r])

\* A tab that will not be woken by what is on its way shows the row as it is already.
ScreensOK ==
  \A u \in Unmanaged, t \in Tickets :
    socket[u].stage = "ready" /\ ~woken[u] /\ ~Pending(u, t) =>
      screen[u][t] = Shown(u)[t]

TypeInv == TypeOK /\ HeldOK
Inv == TypeInv /\ RolesOK /\ StaffOK /\ ScreensOK

----------------------------------------------------------------------------
LEMMA InitTypes == Init => TypeInv
<1> SUFFICES ASSUME Init PROVE TypeInv OBVIOUS
<1>1. user \in [Users -> [role: Roles, active: BOOLEAN]]
  BY RolesAssumption DEF Init
<1>2. Off \in [stage: SocketStages, role: Roles]
  BY DEF Off, SocketStages, Roles
<1>3. Blank \in [Tickets -> Row \cup {NoTicket}]
  BY DEF Blank
<1>4. QED
  BY <1>1, <1>2, <1>3 DEF Init, TypeInv, TypeOK, HeldOK, Stages

LEMMA ShownType ==
  ASSUME TypeOK, NEW u \in Users
  PROVE  Shown(u) \in [Tickets -> Row \cup {NoTicket}]
BY DEF TypeOK, Shown

LEMMA OpenedRow ==
  ASSUME TypeOK, NEW t \in Tickets
  PROVE  t \in Opened <=> ticket[t] \in Row
BY NoTicketAssumption DEF TypeOK, Opened, NoTicketIsNoRow

\* What a TicketsService call commits.
LEMMA ChangesTypes ==
  ASSUME TypeInv, NEW r \in Requests, NEW t \in Tickets, NEW row \in Row,
         NEW action \in AUDIT_ACTIONS, NEW assignees \in SUBSET Users,
         Changes(r, t, row, action, assignees)
  PROVE  TypeInv'
<1>1. [ticket |-> t, action |-> action, requester |-> row.requester,
       assignees |-> assignees] \in TicketEvent
  BY DEF TicketEvent, Row
<1>2. TypeOK'
  BY <1>1 DEF TypeInv, TypeOK, Changes, tabs, audit, Stages
<1>3. HeldOK'
  BY <1>1 DEF TypeInv, TypeOK, HeldOK, Changes
<1>4. QED BY <1>2, <1>3 DEF TypeInv

LEMMA ConcernedUsers ==
  ASSUME NEW old \in Row, NEW new \in Row
  PROVE  Concerned(old, new) \in SUBSET Users
BY DEF Concerned, Row, Person

\* A change of a ticket row: of a new ticket, or of one there is.
Births(t, row, assignees) ==
  t \notin Opened /\ row.version = 1 /\ row.assignee = NoOne /\ assignees = {}
Grows(t, row, assignees) ==
  /\ t \in Opened /\ row.version = ticket[t].version + 1
  /\ row.requester = ticket[t].requester
  /\ assignees = Concerned(ticket[t], row)
  /\ \/ row.assignee = ticket[t].assignee
     \/ row.assignee \in Users => handlesInternalNotes(user[row.assignee].role)
Alters(r, t, row, action, assignees) ==
  /\ Changes(r, t, row, action, assignees)
  /\ Births(t, row, assignees) \/ Grows(t, row, assignees)

LEMMA EditedRow ==
  \A old \in Row : LET row == [old EXCEPT !.version = @ + 1]
                  IN  /\ row \in Row /\ row.version = old.version + 1
                      /\ row.requester = old.requester /\ row.assignee = old.assignee
<1>1. \A old \in Row : old.version + 1 \in Nat
  BY DEF Row
<1>2. QED BY <1>1 DEF Row

LEMMA ClosedRow ==
  \A old \in Row, closed \in BOOLEAN :
    LET row == [old EXCEPT !.closed = closed, !.version = @ + 1]
    IN  /\ row \in Row /\ row.version = old.version + 1
        /\ row.requester = old.requester /\ row.assignee = old.assignee
<1>1. \A old \in Row : old.version + 1 \in Nat
  BY DEF Row
<1>2. QED BY <1>1 DEF Row

LEMMA AssignedRow ==
  \A old \in Row, a \in Person :
    LET row == [old EXCEPT !.assignee = a, !.version = @ + 1]
    IN  /\ row \in Row /\ row.version = old.version + 1
        /\ row.requester = old.requester /\ row.assignee = a
<1>1. \A old \in Row : old.version + 1 \in Nat
  BY DEF Row
<1>2. QED BY <1>1 DEF Row

LEMMA TicketChanges ==
  ASSUME TypeInv, NEW r \in Requests,
         Create(r) \/ Update(r) \/ ChangeStatus(r) \/ Assign(r)
  PROVE  \E t \in Tickets, row \in Row, action \in AUDIT_ACTIONS \ STAFF_ONLY_ACTIONS,
            assignees \in SUBSET Users : Alters(r, t, row, action, assignees)
<1>1. {"created", "updated", "status_changed", "assigned"}
        \subseteq AUDIT_ACTIONS \ STAFF_ONLY_ACTIONS
  BY DEF AUDIT_ACTIONS, STAFF_ONLY_ACTIONS
<1>2. CASE Create(r)
  <2>1. PICK u \in Users, t \in Tickets \ Opened :
          Changes(r, t, [requester |-> u, assignee |-> NoOne, closed |-> FALSE,
                         version |-> 1], "created", {})
    BY <1>2 DEF Create
  <2>2. [requester |-> u, assignee |-> NoOne, closed |-> FALSE, version |-> 1] \in Row
    BY DEF Row, Person
  <2>3. QED BY <1>1, <2>1, <2>2 DEF Alters, Births
<1>3. ASSUME NEW u \in Users, NEW t \in Opened, NEW row \in Row,
             NEW action \in {"updated", "status_changed", "assigned"},
             Mutates(r, u, t, row, action),
             row.version = ticket[t].version + 1, row.requester = ticket[t].requester,
             \/ row.assignee = ticket[t].assignee
             \/ row.assignee \in Users => handlesInternalNotes(user[row.assignee].role)
      PROVE  /\ t \in Tickets /\ action \in AUDIT_ACTIONS \ STAFF_ONLY_ACTIONS
             /\ Concerned(ticket[t], row) \in SUBSET Users
             /\ Alters(r, t, row, action, Concerned(ticket[t], row))
  <2>1. t \in Tickets /\ ticket[t] \in Row
    BY OpenedRow DEF TypeInv, Opened
  <2>2. Changes(r, t, row, action, Concerned(ticket[t], row))
    BY <1>3 DEF Mutates
  <2>3. Alters(r, t, row, action, Concerned(ticket[t], row))
    BY <1>3, <2>2 DEF Alters, Grows
  <2>4. QED BY <1>1, <2>1, <2>3, ConcernedUsers
<1>4. \A t \in Opened : t \in Tickets /\ ticket[t] \in Row /\ ticket[t].assignee \in Person
  BY OpenedRow DEF TypeInv, Opened, Row
<1>5. CASE Update(r)
  <2>1. PICK u \in Users, t \in Opened :
          Mutates(r, u, t, [ticket[t] EXCEPT !.version = @ + 1], "updated")
    BY <1>5 DEF Update
  <2> DEFINE row == [ticket[t] EXCEPT !.version = @ + 1]
  <2>2. /\ row \in Row /\ row.version = ticket[t].version + 1
        /\ row.requester = ticket[t].requester /\ row.assignee = ticket[t].assignee
    BY <1>4, EditedRow
  <2> HIDE DEF row
  <2>3. Mutates(r, u, t, row, "updated")
    BY <2>1 DEF row
  <2>4. QED BY <1>3, <2>2, <2>3
<1>6. CASE ChangeStatus(r)
  <2>1. PICK u \in Users, t \in Opened, close \in BOOLEAN :
          Mutates(r, u, t, [ticket[t] EXCEPT !.closed = close, !.version = @ + 1],
                  "status_changed")
    BY <1>6 DEF ChangeStatus
  <2> DEFINE row == [ticket[t] EXCEPT !.closed = close, !.version = @ + 1]
  <2>2. /\ row \in Row /\ row.version = ticket[t].version + 1
        /\ row.requester = ticket[t].requester /\ row.assignee = ticket[t].assignee
    BY <1>4, ClosedRow
  <2> HIDE DEF row
  <2>3. Mutates(r, u, t, row, "status_changed")
    BY <2>1 DEF row
  <2>4. QED BY <1>3, <2>2, <2>3
<1>7. CASE Assign(r)
  <2>1. PICK u \in Users, t \in Opened, a \in Person :
          /\ a # NoOne => user[a].active /\ user[a].role \in {"AGENT", "ADMIN"}
          /\ Mutates(r, u, t, [ticket[t] EXCEPT !.assignee = a, !.version = @ + 1],
                     "assigned")
    BY <1>7 DEF Assign
  <2> DEFINE row == [ticket[t] EXCEPT !.assignee = a, !.version = @ + 1]
  <2>2. /\ row \in Row /\ row.version = ticket[t].version + 1
        /\ row.requester = ticket[t].requester /\ row.assignee = a
    BY <1>4, AssignedRow
  <2>3. a \in Users => handlesInternalNotes(user[a].role)
    BY <2>1, NoOneAssumption DEF handlesInternalNotes
  <2> HIDE DEF row
  <2>4. Mutates(r, u, t, row, "assigned")
    BY <2>1 DEF row
  <2>5. QED BY <1>3, <2>2, <2>3, <2>4
<1>8. QED BY <1>2, <1>5, <1>6, <1>7

----------------------------------------------------------------------------
LEMMA UndrainedFinite ==
  ASSUME NEW t
  PROVE  IsFiniteSet(Undrained(t)) /\ Cardinality(Undrained(t)) \in Nat
<1>1. Undrained(t) \in SUBSET Requests
  BY DEF Undrained
<1>2. IsFiniteSet(Undrained(t))
  BY <1>1, RequestsAssumption, FS_Subset
<1>3. QED BY <1>2, FS_CardinalityType

LEMMA LoadTypes ==
  ASSUME TypeInv, NEW r \in Requests, Load(r)
  PROVE  TypeInv'
<1>1. PICK u \in Users, t \in Opened, internal \in BOOLEAN :
        event' = [event EXCEPT ![r] =
            [ticket |-> t,
             action |-> IF internal THEN "internal_note_added" ELSE "commented",
             requester |-> ticket[t].requester,
             assignees |-> {ticket[t].assignee} \ {NoOne}]]
  BY DEF Load
<1> DEFINE e == [ticket |-> t,
                 action |-> IF internal THEN "internal_note_added" ELSE "commented",
                 requester |-> ticket[t].requester,
                 assignees |-> {ticket[t].assignee} \ {NoOne}]
<1>2. t \in Tickets /\ ticket[t].requester \in Users /\ ticket[t].assignee \in Person
  BY OpenedRow DEF TypeInv, Opened, Row
<1>3. e \in TicketEvent
  BY <1>2 DEF TicketEvent, AUDIT_ACTIONS, Person
<1> HIDE DEF e
<1>4. event' = [event EXCEPT ![r] = e]
  BY <1>1 DEF e
<1>5. TypeOK'
  BY <1>3, <1>4 DEF TypeInv, TypeOK, Load, Stages, rows, tabs, audit
<1>6. HeldOK'
  BY <1>3, <1>4 DEF TypeInv, TypeOK, HeldOK, Load
<1>7. QED BY <1>5, <1>6 DEF TypeInv

LEMMA PostTypes ==
  ASSUME TypeInv, NEW r \in Requests, Post(r)
  PROVE  TypeInv'
<1> DEFINE t == event[r].ticket
<1>1. t \in Tickets
  BY DEF TypeInv, HeldOK, Post, TicketEvent
<1>2. /\ thread[t] \in [comments: Nat, notes: Nat]
      /\ thread[t].comments + 1 \in Nat /\ thread[t].notes + 1 \in Nat
  BY <1>1 DEF TypeInv, TypeOK
<1>3. thread' \in [Tickets -> [comments: Nat, notes: Nat]]
  <2>1. \/ thread' = [thread EXCEPT ![t].comments = @ + 1]
        \/ thread' = [thread EXCEPT ![t].notes = @ + 1]
    BY DEF Post
  <2>2. \/ thread' = [thread EXCEPT ![t] = [thread[t] EXCEPT !.comments = thread[t].comments + 1]]
        \/ thread' = [thread EXCEPT ![t] = [thread[t] EXCEPT !.notes = thread[t].notes + 1]]
    BY <1>1, <2>1 DEF TypeInv, TypeOK
  <2>3. /\ [thread[t] EXCEPT !.comments = thread[t].comments + 1] \in [comments: Nat, notes: Nat]
        /\ [thread[t] EXCEPT !.notes = thread[t].notes + 1] \in [comments: Nat, notes: Nat]
    BY <1>2
  <2>4. QED BY <1>1, <2>2, <2>3 DEF TypeInv, TypeOK
<1>5. TypeOK'
  BY <1>3 DEF TypeInv, TypeOK, Post, Stages, tabs, audit
<1>6. HeldOK'
  BY DEF TypeInv, TypeOK, HeldOK, Post
<1>7. QED BY <1>5, <1>6 DEF TypeInv

LEMMA EndTypes ==
  ASSUME TypeInv, NEW r \in Requests, Abort(r) \/ Drain(r)
  PROVE  TypeInv'
<1>1. pc' = [pc EXCEPT ![r] = "idle"] /\ event' = [event EXCEPT ![r] = NoEvent]
  BY DEF Abort, Drain
<1>2. HeldOK'
  BY <1>1 DEF TypeInv, TypeOK, HeldOK
<1>3. CASE Abort(r)
  BY <1>1, <1>2, <1>3
     DEF TypeInv, TypeOK, Abort, DiscardedOnRollback, Stages, rows, tabs
<1>4. CASE Drain(r)
  <2>1. event[r].ticket \in Tickets
    BY <1>4 DEF TypeInv, HeldOK, Drain, TicketEvent
  <2>2. recording' \in [Tickets -> Nat]
    BY <1>4, <2>1 DEF TypeInv, TypeOK, Drain
  <2>3. woken' \in [Sockets -> BOOLEAN]
    BY <1>4 DEF TypeInv, TypeOK, Drain
  <2>4. QED
    BY <1>1, <1>2, <1>4, <2>2, <2>3 DEF TypeInv, TypeOK, Drain, Stages, rows
<1>5. QED BY <1>3, <1>4

LEMMA SocketTypes ==
  ASSUME TypeInv, NEW u \in Sockets,
         Verify(u) \/ JoinUserRoom(u) \/ JoinAdminRoom(u) \/ EmitReady(u)
           \/ Disconnect(u) \/ Refetch(u)
  PROVE  TypeInv'
<1>1. u \in Users
  BY BoundsAssumption
<1>2. HeldOK' /\ pc' = pc /\ event' = event
  BY DEF TypeInv, HeldOK, Verify, JoinUserRoom, JoinAdminRoom, EmitReady, Goes, Disconnect,
         Refetch, requests
<1>3. CASE Verify(u)
  BY <1>1, <1>2, <1>3 DEF TypeInv, TypeOK, Verify, SocketStages, rows, audit
<1>4. CASE JoinUserRoom(u) \/ JoinAdminRoom(u) \/ EmitReady(u)
  <2>1. PICK from \in SocketStages, to \in SocketStages : Goes(u, from, to)
    BY <1>4 DEF JoinUserRoom, JoinAdminRoom, EmitReady, SocketStages
  <2>2. socket' \in [Sockets -> [stage: SocketStages, role: Roles]]
    BY <2>1, ZenonT(30) DEF TypeInv, TypeOK, Goes
  <2>3. woken' \in [Sockets -> BOOLEAN]
    BY <1>4 DEF TypeInv, TypeOK, JoinUserRoom, JoinAdminRoom, EmitReady
  <2>4. QED BY <1>2, <2>1, <2>2, <2>3 DEF TypeInv, TypeOK, Goes, rows, requests, audit
<1>5. CASE Disconnect(u)
  <2>1. Off \in [stage: SocketStages, role: Roles]
    BY DEF Off, SocketStages, Roles
  <2>2. Blank \in [Tickets -> Row \cup {NoTicket}]
    BY DEF Blank
  <2>3. QED BY <1>2, <1>5, <2>1, <2>2 DEF TypeInv, TypeOK, Disconnect, rows, audit
<1>6. CASE Refetch(u)
  BY <1>1, <1>2, <1>6, ShownType DEF TypeInv, TypeOK, Refetch, rows, audit
<1>7. QED BY <1>3, <1>4, <1>5, <1>6

LEMMA HandleTypes ==
  ASSUME TypeInv, NEW t \in Tickets, Handle(t)
  PROVE  TypeInv'
<1>1. recording[t] \in Nat /\ recording[t] > 0 /\ trail[t] \in Nat /\ lost[t] \in Nat
  BY DEF TypeInv, TypeOK, Handle
<1>2. recording[t] - 1 \in Nat /\ trail[t] + 1 \in Nat /\ lost[t] + 1 \in Nat
  BY <1>1
<1>3. TypeOK'
  BY <1>2, SMTT(30) DEF TypeInv, TypeOK, Handle, rows, requests, tabs
<1>4. HeldOK'
  BY DEF TypeInv, HeldOK, Handle, requests
<1>5. QED BY <1>3, <1>4 DEF TypeInv

LEMMA CrashTypes ==
  ASSUME TypeInv, Crash
  PROVE  TypeInv'
<1>1. \A t \in Tickets : lost[t] + recording[t] + Cardinality(Undrained(t)) \in Nat
  <2>1. ASSUME NEW t \in Tickets
        PROVE  lost[t] \in Nat /\ recording[t] \in Nat /\ Cardinality(Undrained(t)) \in Nat
    BY UndrainedFinite DEF TypeInv, TypeOK
  <2>2. QED BY <2>1
<1>2. lost' \in [Tickets -> Nat]
  BY <1>1 DEF Crash
<1>3. Off \in [stage: SocketStages, role: Roles]
  BY DEF Off, SocketStages, Roles
<1>4. Blank \in [Tickets -> Row \cup {NoTicket}]
  BY DEF Blank
<1>5. TypeOK'
  BY <1>2, <1>3, <1>4 DEF TypeInv, TypeOK, Crash, Stages, rows
<1>6. HeldOK'
  BY DEF HeldOK, Crash
<1>7. QED BY <1>5, <1>6 DEF TypeInv

LEMMA EditTypes ==
  ASSUME TypeInv, NEW u \in Managed, EditUser(u)
  PROVE  TypeInv'
BY BoundsAssumption DEF TypeInv, TypeOK, HeldOK, EditUser, requests, tabs, audit

LEMMA TypeInvStep == TypeInv /\ [Next]_vars => TypeInv'
<1> SUFFICES ASSUME TypeInv, [Next]_vars PROVE TypeInv' OBVIOUS
<1>1. ASSUME NEW r \in Requests, Create(r) \/ Update(r) \/ ChangeStatus(r) \/ Assign(r)
      PROVE  TypeInv'
  BY <1>1, TicketChanges, ChangesTypes DEF Alters
<1>2. CASE UNCHANGED vars
  BY <1>2 DEF vars, rows, requests, tabs, audit, TypeInv, TypeOK, HeldOK
<1>3. QED
  BY <1>1, <1>2, LoadTypes, PostTypes, EndTypes, SocketTypes, HandleTypes, CrashTypes,
     EditTypes DEF Next

----------------------------------------------------------------------------
\* The commits whose event is held back, as one request adds its own or drains it.
LEMMA UndrainedAdds ==
  ASSUME TypeInv, NEW r \in Requests, pc[r] # "committed",
         pc' = [pc EXCEPT ![r] = "committed"],
         \A q \in Requests \ {r} : event'[q] = event[q], NEW t
  PROVE  Cardinality(Undrained(t))' =
           IF event'[r].ticket = t THEN Cardinality(Undrained(t)) + 1
                                   ELSE Cardinality(Undrained(t))
<1>1. Undrained(t)' = IF event'[r].ticket = t THEN Undrained(t) \cup {r} ELSE Undrained(t)
  BY DEF TypeInv, TypeOK, Undrained
<1>2. r \notin Undrained(t)
  BY DEF Undrained
<1>3. QED BY <1>1, <1>2, UndrainedFinite, FS_AddElement

LEMMA UndrainedDrops ==
  ASSUME TypeInv, NEW r \in Requests, pc' = [pc EXCEPT ![r] = "idle"],
         \A q \in Requests \ {r} : event'[q] = event[q], NEW t
  PROVE  Cardinality(Undrained(t))' =
           IF pc[r] = "committed" /\ event[r].ticket = t
             THEN Cardinality(Undrained(t)) - 1 ELSE Cardinality(Undrained(t))
<1>1. Undrained(t)' = Undrained(t) \ {r}
  BY DEF TypeInv, TypeOK, Undrained
<1>2. r \in Undrained(t) <=> pc[r] = "committed" /\ event[r].ticket = t
  BY DEF Undrained
<1>3. QED BY <1>1, <1>2, UndrainedFinite, FS_RemoveElement

LEMMA UndrainedStays ==
  ASSUME TypeInv, NEW t,
         \A q \in Requests : /\ pc'[q] = "committed" <=> pc[q] = "committed"
                             /\ pc[q] = "committed" => event'[q] = event[q]
  PROVE  Undrained(t)' = Undrained(t)
BY DEF Undrained

\* The counters are numbers.
LEMMA Counters ==
  ASSUME TypeInv, NEW t \in Tickets
  PROVE  /\ trail[t] \in Nat /\ recording[t] \in Nat /\ lost[t] \in Nat
         /\ thread[t].comments \in Nat /\ thread[t].notes \in Nat
         /\ t \in Opened => ticket[t].version \in Nat
         /\ Cardinality(Undrained(t)) \in Nat
BY OpenedRow, UndrainedFinite DEF TypeInv, TypeOK, Row

\* How many changes there were, and how many are accounted for.
Changed(t) == IF t \in Opened THEN ticket[t].version ELSE 0
Accounted(t) == trail[t] + recording[t] + lost[t] + Cardinality(Undrained(t))

LEMMA ChangesCount ==
  ASSUME TypeInv, TrailAccountsForAll, NEW r \in Requests,
         Create(r) \/ Update(r) \/ ChangeStatus(r) \/ Assign(r), NEW t \in Tickets
  PROVE  Accounted(t)' = Changed(t)' + thread'[t].comments + thread'[t].notes
<1>1. PICK s \in Tickets, row \in Row, action \in AUDIT_ACTIONS, assignees \in SUBSET Users :
        Alters(r, s, row, action, assignees)
  BY TicketChanges
<1>2. /\ pc[r] # "committed" /\ pc' = [pc EXCEPT ![r] = "committed"]
      /\ ticket' = [ticket EXCEPT ![s] = row]
      /\ event'[r].ticket = s /\ \A q \in Requests \ {r} : event'[q] = event[q]
      /\ UNCHANGED <<thread, trail, recording, lost>>
  BY <1>1 DEF Alters, Changes, audit, TypeInv, TypeOK
<1>3. Cardinality(Undrained(t))' = IF s = t THEN Cardinality(Undrained(t)) + 1
                                            ELSE Cardinality(Undrained(t))
  BY <1>2, UndrainedAdds
<1>4. Changed(t)' = IF s = t THEN Changed(t) + 1 ELSE Changed(t)
  <2>1. row # NoTicket
    BY NoTicketAssumption DEF NoTicketIsNoRow
  <2>2. CASE s = t
    <3>1. t \in Opened' /\ ticket'[t] = row
      BY <1>2, <2>1, <2>2 DEF Opened, TypeInv, TypeOK
    <3>2. row.version = Changed(t) + 1
      BY <1>1, <2>2 DEF Alters, Births, Grows, Changed
    <3>3. QED BY <2>2, <3>1, <3>2 DEF Changed
  <2>3. CASE s # t
    BY <1>2, <2>3 DEF Changed, Opened, TypeInv, TypeOK
  <2>4. QED BY <2>2, <2>3
<1>5. Accounted(t) = Changed(t) + thread[t].comments + thread[t].notes
  BY DEF TrailAccountsForAll, Accounted, Changed
<1>6. Changed(t) \in Nat
  BY Counters DEF Changed
<1>7. QED BY <1>2, <1>3, <1>4, <1>5, <1>6, Counters DEF Accounted

\* A step that changes no ticket row: what is written down and what is said add up.
LEMMA PostCounts ==
  ASSUME TypeInv, TrailAccountsForAll, NEW r \in Requests, Post(r), NEW t \in Tickets
  PROVE  Accounted(t)' = Changed(t)' + thread'[t].comments + thread'[t].notes
<1> DEFINE s == event[r].ticket
<1>1. /\ pc[r] # "committed" /\ pc' = [pc EXCEPT ![r] = "committed"] /\ event' = event
      /\ ticket' = ticket /\ UNCHANGED <<trail, recording, lost>>
  BY DEF Post, audit
<1>2. Cardinality(Undrained(t))' = IF s = t THEN Cardinality(Undrained(t)) + 1
                                            ELSE Cardinality(Undrained(t))
  BY <1>1, UndrainedAdds
<1>3. thread'[t].comments + thread'[t].notes =
        IF s = t THEN thread[t].comments + thread[t].notes + 1
                 ELSE thread[t].comments + thread[t].notes
  <2>1. thread[t] \in [comments: Nat, notes: Nat]
    BY DEF TypeInv, TypeOK
  <2>2. CASE s # t
    BY <2>2 DEF Post, TypeInv, TypeOK
  <2>3. CASE s = t
    <3>1. \/ thread'[t] = [thread[t] EXCEPT !.comments = thread[t].comments + 1]
          \/ thread'[t] = [thread[t] EXCEPT !.notes = thread[t].notes + 1]
      BY <2>3 DEF Post, TypeInv, TypeOK
    <3>2. QED BY <2>1, <2>3, <3>1
  <2>4. QED BY <2>2, <2>3
<1>4. Changed(t)' = Changed(t)
  BY <1>1 DEF Changed, Opened
<1>5. Accounted(t) = Changed(t) + thread[t].comments + thread[t].notes
  BY DEF TrailAccountsForAll, Accounted, Changed
<1>6. thread'[t].comments \in Nat /\ thread'[t].notes \in Nat
  BY PostTypes DEF TypeInv, TypeOK
<1>7. Changed(t) \in Nat
  BY Counters DEF Changed
<1> HIDE DEF s
<1>8. Accounted(t)' = IF s = t THEN Accounted(t) + 1 ELSE Accounted(t)
  BY <1>1, <1>2, Counters DEF Accounted
<1>9. Accounted(t) = Changed(t) + (thread[t].comments + thread[t].notes)
  BY <1>5, <1>7, Counters
<1>10. Changed(t)' + thread'[t].comments + thread'[t].notes
         = Changed(t) + (thread'[t].comments + thread'[t].notes)
  BY <1>4, <1>6, <1>7
<1>11. thread[t].comments + thread[t].notes \in Nat
  BY Counters
<1>12. QED BY <1>3, <1>7, <1>8, <1>9, <1>10, <1>11

LEMMA OthersCount ==
  ASSUME TypeInv, TrailAccountsForAll, UNCHANGED <<ticket, thread>>, NEW t \in Tickets,
         \/ \E r \in Requests : Load(r) \/ Abort(r) \/ Drain(r)
         \/ \E s \in Tickets : Handle(s)
         \/ Crash
         \/ UNCHANGED <<requests, audit>>
  PROVE  Accounted(t)' = Changed(t)' + thread'[t].comments + thread'[t].notes
<1> SUFFICES Accounted(t)' = Accounted(t)
  BY DEF TrailAccountsForAll, Accounted, Changed, Opened
<1>1. ASSUME NEW r \in Requests, Load(r) PROVE Accounted(t)' = Accounted(t)
  <2>1. Undrained(t)' = Undrained(t)
    BY <1>1, UndrainedStays DEF Load, TypeInv, TypeOK
  <2>2. QED BY <1>1, <2>1 DEF Load, audit, Accounted
<1>2. ASSUME NEW r \in Requests, Abort(r) PROVE Accounted(t)' = Accounted(t)
  <2>1. Undrained(t)' = Undrained(t)
    BY <1>2, UndrainedStays DEF Abort, TypeInv, TypeOK
  <2>2. QED BY <1>2, <2>1 DEF Abort, DiscardedOnRollback, Accounted
<1>3. ASSUME NEW r \in Requests, Drain(r) PROVE Accounted(t)' = Accounted(t)
  <2>1. pc[r] = "committed" /\ event[r].ticket \in Tickets
    BY <1>3 DEF Drain, TypeInv, HeldOK, TicketEvent
  <2>2. Cardinality(Undrained(t))' =
          IF event[r].ticket = t THEN Cardinality(Undrained(t)) - 1
                                 ELSE Cardinality(Undrained(t))
    BY <1>3, <2>1, UndrainedDrops DEF Drain, TypeInv, TypeOK
  <2>3. recording'[t] = IF event[r].ticket = t THEN recording[t] + 1 ELSE recording[t]
    BY <1>3, <2>1 DEF Drain, TypeInv, TypeOK
  <2>4. QED BY <1>3, <2>2, <2>3, Counters DEF Drain, Accounted
<1>4. ASSUME NEW s \in Tickets, Handle(s) PROVE Accounted(t)' = Accounted(t)
  <2>1. Undrained(t)' = Undrained(t)
    BY <1>4, UndrainedStays DEF Handle, requests
  <2>2. CASE s = t
    <3>1. /\ recording'[t] = recording[t] - 1
          /\ \/ trail'[t] = trail[t] + 1 /\ lost'[t] = lost[t]
             \/ lost'[t] = lost[t] + 1 /\ trail'[t] = trail[t]
      BY <1>4, <2>2 DEF Handle, TypeInv, TypeOK
    <3>2. QED BY <2>1, <3>1, Counters DEF Accounted
  <2>3. CASE s # t
    <3>1. recording'[t] = recording[t] /\ trail'[t] = trail[t] /\ lost'[t] = lost[t]
      BY <1>4, <2>3 DEF Handle, TypeInv, TypeOK
    <3>2. QED BY <2>1, <3>1 DEF Accounted
  <2>4. QED BY <2>2, <2>3
<1>5. CASE Crash
  <2>1. Undrained(t)' = {}
    BY <1>5 DEF Crash, Undrained
  <2>2. Cardinality(Undrained(t))' = 0
    BY <2>1, FS_EmptySet
  <2>3. QED BY <1>5, <2>2, Counters DEF Crash, Accounted
<1>6. CASE UNCHANGED <<requests, audit>>
  BY <1>6 DEF requests, audit, Accounted, Undrained
<1>7. QED BY <1>1, <1>2, <1>3, <1>4, <1>5, <1>6

LEMMA TrailStep ==
  ASSUME TypeInv, TrailAccountsForAll, [Next]_vars
  PROVE  TrailAccountsForAll'
<1> SUFFICES ASSUME NEW t \in Tickets
             PROVE  Accounted(t)' = Changed(t)' + thread'[t].comments + thread'[t].notes
  BY DEF TrailAccountsForAll, Accounted, Changed
<1>1. ASSUME NEW r \in Requests, Create(r) \/ Update(r) \/ ChangeStatus(r) \/ Assign(r)
      PROVE  Accounted(t)' = Changed(t)' + thread'[t].comments + thread'[t].notes
  BY <1>1, ChangesCount
<1>2. ASSUME NEW r \in Requests, Post(r)
      PROVE  Accounted(t)' = Changed(t)' + thread'[t].comments + thread'[t].notes
  BY <1>2, PostCounts
<1>3. ASSUME NEW r \in Requests, Load(r) \/ Abort(r) \/ Drain(r)
      PROVE  UNCHANGED <<ticket, thread>>
  BY <1>3 DEF Load, Abort, Drain, rows
<1>4. ASSUME NEW u \in Sockets,
             Verify(u) \/ JoinUserRoom(u) \/ JoinAdminRoom(u) \/ EmitReady(u)
               \/ Disconnect(u) \/ Refetch(u)
      PROVE  UNCHANGED <<ticket, thread, requests, audit>>
  BY <1>4 DEF Verify, JoinUserRoom, JoinAdminRoom, EmitReady, Goes, Disconnect, Refetch, rows
<1>5. ASSUME NEW s \in Tickets, Handle(s) PROVE UNCHANGED <<ticket, thread>>
  BY <1>5 DEF Handle, rows
<1>6. ASSUME NEW u \in Managed, EditUser(u)
      PROVE  UNCHANGED <<ticket, thread, requests, audit>>
  BY <1>6 DEF EditUser
<1>7. Crash => UNCHANGED <<ticket, thread>>
  BY DEF Crash, rows
<1>8. CASE UNCHANGED vars
  BY <1>8, OthersCount DEF vars, rows
<1>9. QED BY <1>1, <1>2, <1>3, <1>4, <1>5, <1>6, <1>7, <1>8, OthersCount DEF Next

----------------------------------------------------------------------------
\* Nobody edits a user who is not managed.
LEMMA UsersStay ==
  ASSUME TypeInv, [Next]_vars, NEW u \in Users \ Managed
  PROVE  user'[u] = user[u]
<1>1. ASSUME NEW r \in Requests,
             Create(r) \/ Update(r) \/ ChangeStatus(r) \/ Assign(r) \/ Load(r)
               \/ Post(r) \/ Abort(r) \/ Drain(r)
      PROVE  user' = user
  <2>1. CASE Create(r) \/ Update(r) \/ ChangeStatus(r) \/ Assign(r)
    BY <2>1, TicketChanges DEF Alters, Changes
  <2>2. CASE Load(r) \/ Post(r) \/ Abort(r) \/ Drain(r)
    BY <2>2 DEF Load, Post, Abort, Drain, rows
  <2>3. QED BY <1>1, <2>1, <2>2
<1>2. ASSUME NEW s \in Sockets,
             Verify(s) \/ JoinUserRoom(s) \/ JoinAdminRoom(s) \/ EmitReady(s)
               \/ Disconnect(s) \/ Refetch(s)
      PROVE  user' = user
  BY <1>2 DEF Verify, JoinUserRoom, JoinAdminRoom, EmitReady, Goes, Disconnect, Refetch, rows
<1>3. ASSUME NEW m \in Managed, EditUser(m) PROVE user'[u] = user[u]
  BY <1>3, BoundsAssumption DEF EditUser, TypeInv, TypeOK
<1>4. (\E t \in Tickets : Handle(t)) \/ Crash \/ UNCHANGED vars => user' = user
  BY DEF Handle, Crash, rows, vars
<1>5. QED BY <1>1, <1>2, <1>3, <1>4 DEF Next

LEMMA UnmanagedUsers == Unmanaged \subseteq Users \ Managed
BY BoundsAssumption DEF Unmanaged

LEMMA RolesStep ==
  ASSUME TypeInv, RolesOK, [Next]_vars
  PROVE  RolesOK'
<1> SUFFICES ASSUME NEW u \in Unmanaged, socket'[u].stage # "off"
             PROVE  socket'[u].role = user'[u].role
  BY DEF RolesOK
<1>1. user'[u] = user[u]
  BY UsersStay, UnmanagedUsers
<1>2. u \in Sockets
  BY DEF Unmanaged
<1>3. socket'[u] = socket[u] => socket'[u].role = user'[u].role
  BY <1>1 DEF RolesOK
<1>4. ASSUME NEW r \in Requests,
             Create(r) \/ Update(r) \/ ChangeStatus(r) \/ Assign(r) \/ Load(r)
               \/ Post(r) \/ Abort(r) \/ Drain(r)
      PROVE  socket' = socket
  <2>1. CASE Create(r) \/ Update(r) \/ ChangeStatus(r) \/ Assign(r)
    BY <2>1, TicketChanges DEF Alters, Changes, tabs
  <2>2. CASE Load(r) \/ Post(r) \/ Abort(r) \/ Drain(r)
    BY <2>2 DEF Load, Post, Abort, Drain, tabs
  <2>3. QED BY <1>4, <2>1, <2>2
<1>5. ASSUME NEW s \in Sockets, Verify(s) PROVE socket'[u].role = user'[u].role
  BY <1>1, <1>2, <1>3, <1>5 DEF Verify, TypeInv, TypeOK
<1>6. ASSUME NEW s \in Sockets, JoinUserRoom(s) \/ JoinAdminRoom(s) \/ EmitReady(s)
      PROVE  socket'[u].role = user'[u].role
  <2>1. PICK from, to : Goes(s, from, to) /\ from # "off"
    BY <1>6 DEF JoinUserRoom, JoinAdminRoom, EmitReady
  <2>2. socket'[u].role = socket[u].role /\ socket[u].stage # "off"
    BY <1>2, <2>1 DEF Goes, TypeInv, TypeOK
  <2>3. QED BY <1>1, <2>2 DEF RolesOK
<1>7. ASSUME NEW s \in Sockets, Disconnect(s) \/ Refetch(s)
      PROVE  socket'[u] = socket[u]
  BY <1>2, <1>7 DEF Disconnect, Refetch, Off, TypeInv, TypeOK
<1>8. (\E t \in Tickets : Handle(t)) \/ (\E m \in Managed : EditUser(m)) \/ UNCHANGED vars
        => socket' = socket
  BY DEF Handle, EditUser, tabs, vars
<1>9. ~Crash
  BY <1>2 DEF Crash, Off
<1>10. QED BY <1>3, <1>4, <1>5, <1>6, <1>7, <1>8, <1>9 DEF Next

LEMMA StaffStep ==
  ASSUME TypeInv, StaffOK, [Next]_vars
  PROVE  StaffOK'
<1> DEFINE Handles(u) == handlesInternalNotes(user[u].role)
           TicketStaff == \A t \in Opened : ticket[t].assignee \in Users \ Managed =>
                            Handles(ticket[t].assignee)
           NoteStaff == \A r \in Requests : Note(r) =>
                          \A u \in event[r].assignees \ Managed : Handles(u)
<1>1. \A u \in Users \ Managed : user'[u] = user[u]
  BY UsersStay
<1>2. \A r \in Requests : Note(r) => event[r].assignees \subseteq Users
  BY DEF TypeInv, HeldOK, Note, TicketEvent
<1>3. UNCHANGED ticket => TicketStaff'
  BY <1>1 DEF StaffOK, Opened
<1>4. ASSUME \A q \in Requests : Note(q)' => Note(q) /\ event'[q] = event[q]
      PROVE  NoteStaff'
  BY <1>1, <1>2, <1>4 DEF StaffOK
<1>5. ASSUME NEW r \in Requests, Create(r) \/ Update(r) \/ ChangeStatus(r) \/ Assign(r)
      PROVE  StaffOK'
  <2>1. PICK s \in Tickets, row \in Row, action \in AUDIT_ACTIONS \ STAFF_ONLY_ACTIONS,
             assignees \in SUBSET Users : Alters(r, s, row, action, assignees)
    BY <1>5, TicketChanges
  <2>2. /\ ticket' = [ticket EXCEPT ![s] = row] /\ pc' = [pc EXCEPT ![r] = "committed"]
        /\ event'[r].action = action /\ \A q \in Requests \ {r} : event'[q] = event[q]
    BY <2>1 DEF Alters, Changes, TypeInv, TypeOK
  <2>3. NoteStaff'
    <3>1. ~Note(r)'
      BY <2>2 DEF Note, STAFF_ONLY_ACTIONS
    <3>2. \A q \in Requests : Note(q)' => Note(q) /\ event'[q] = event[q]
      BY <2>2, <3>1 DEF Note, TypeInv, TypeOK
    <3>3. QED BY <1>4, <3>2
  <2>4. row.assignee \in Users \ Managed => handlesInternalNotes(user'[row.assignee].role)
    BY <1>1, <2>1, NoOneAssumption DEF Alters, Births, Grows, StaffOK
  <2>5. TicketStaff'
    <3>1. ASSUME NEW t \in Opened', ticket'[t].assignee \in Users \ Managed
          PROVE  handlesInternalNotes(user'[ticket'[t].assignee].role)
      <4>1. t \in Tickets
        BY <3>1 DEF Opened
      <4>2. CASE t = s
        BY <2>2, <2>4, <3>1, <4>1, <4>2 DEF TypeInv, TypeOK
      <4>3. CASE t # s
        <5>1. ticket'[t] = ticket[t] /\ t \in Opened
          BY <2>2, <3>1, <4>1, <4>3 DEF Opened, TypeInv, TypeOK
        <5>2. QED BY <1>1, <3>1, <5>1 DEF StaffOK
      <4>4. QED BY <4>2, <4>3
    <3>2. QED BY <3>1
  <2>6. QED BY <2>3, <2>5 DEF StaffOK
<1>6. ASSUME NEW r \in Requests, Load(r) PROVE StaffOK'
  <2>1. PICK u \in Users, t \in Opened, internal \in BOOLEAN :
          event' = [event EXCEPT ![r] =
            [ticket |-> t,
             action |-> IF internal THEN "internal_note_added" ELSE "commented",
             requester |-> ticket[t].requester,
             assignees |-> {ticket[t].assignee} \ {NoOne}]]
    BY <1>6 DEF Load
  <2>2. /\ event'[r].assignees = {ticket[t].assignee} \ {NoOne}
        /\ \A q \in Requests \ {r} : event'[q] = event[q] /\ pc'[q] = pc[q]
        /\ UNCHANGED <<user, ticket>>
    BY <1>6, <2>1 DEF Load, rows, TypeInv, TypeOK
  <2>3. ticket[t].assignee \in Person
    BY OpenedRow DEF TypeInv, Opened, Row
  <2>4. \A x \in event'[r].assignees \ Managed : handlesInternalNotes(user'[x].role)
    BY <2>2, <2>3 DEF StaffOK, Person
  <2>5. NoteStaff'
    BY <2>2, <2>4 DEF StaffOK, Note
  <2>6. QED BY <1>3, <2>2, <2>5 DEF StaffOK
<1>7. ASSUME NEW r \in Requests, Post(r) \/ Abort(r) \/ Drain(r) PROVE StaffOK'
  <2>1. \A q \in Requests : Note(q)' => Note(q) /\ event'[q] = event[q]
    BY <1>7 DEF Post, Abort, Drain, Note, TypeInv, TypeOK
  <2>2. UNCHANGED ticket
    BY <1>7 DEF Post, Abort, Drain, rows
  <2>3. QED BY <1>3, <1>4, <2>1, <2>2 DEF StaffOK
<1>8. ASSUME NEW u \in Sockets,
             Verify(u) \/ JoinUserRoom(u) \/ JoinAdminRoom(u) \/ EmitReady(u)
               \/ Disconnect(u) \/ Refetch(u)
      PROVE  UNCHANGED <<ticket, pc, event>>
  BY <1>8 DEF Verify, JoinUserRoom, JoinAdminRoom, EmitReady, Goes, Disconnect, Refetch, rows,
              requests
<1>9. (\E t \in Tickets : Handle(t)) \/ (\E m \in Managed : EditUser(m)) \/ UNCHANGED vars
        => UNCHANGED <<ticket, pc, event>>
  BY DEF Handle, EditUser, rows, requests, vars
<1>10. UNCHANGED <<ticket, pc, event>> => StaffOK'
  BY <1>3, <1>4 DEF StaffOK, Note
<1>11. Crash => StaffOK'
  BY <1>3, <1>4 DEF Crash, rows, StaffOK, Note
<1>12. QED BY <1>5, <1>6, <1>7, <1>8, <1>9, <1>10, <1>11 DEF Next

\* Who sees a ticket, of the users nobody edits, is in a room that hears of it.
LEMMA SeeingIsHearing ==
  ASSUME TypeInv, RolesOK, NEW u \in Unmanaged, socket[u].stage = "ready",
         NEW e \in TicketEvent, e.action \notin STAFF_ONLY_ACTIONS,
         \/ seesEveryTicket(user[u].role)
         \/ u = e.requester \/ u \in e.assignees
  PROVE  u \in Reached(e)
BY DEF RolesOK, Unmanaged, Reached, InAdminRoom, InUserRoom, Addressed, seesEveryTicket,
       joinsAdminRoom

\* What a tab should show of a ticket depends on that row and on its user.
LEMMA ShownAlone ==
  ASSUME NEW u, NEW t \in Tickets, user'[u] = user[u], ticket'[t] = ticket[t]
  PROVE  Shown(u)'[t] = Shown(u)[t]
BY DEF Shown, visibleTo, Opened

\* A step that changes no tab and no ticket row, and only adds to what is on its way.
LEMMA ScreensAlone ==
  ASSUME TypeInv, ScreensOK, [Next]_vars, NEW u \in Unmanaged, NEW t \in Tickets,
         socket'[u].stage = "ready", ~woken'[u], ~Pending(u, t)',
         socket'[u] = socket[u], woken'[u] = woken[u], screen'[u] = screen[u],
         ticket'[t] = ticket[t],
         Pending(u, t) => Pending(u, t)'
  PROVE  screen'[u][t] = Shown(u)'[t]
<1>1. screen[u][t] = Shown(u)[t]
  BY DEF ScreensOK
<1>2. user'[u] = user[u]
  BY UsersStay, UnmanagedUsers
<1>3. Shown(u)'[t] = Shown(u)[t]
  BY <1>2, ShownAlone
<1>4. QED BY <1>1, <1>3

\* Who is reached by an event depends on the rooms, which only the socket changes.
LEMMA ReachedAlone ==
  ASSUME NEW e, NEW u \in Sockets, socket'[u] = socket[u]
  PROVE  u \in Reached(e)' <=> u \in Reached(e)
BY DEF Reached, InAdminRoom, InUserRoom, Addressed

\* An event that stays undrained stays pending.
LEMMA PendingStays ==
  ASSUME NEW u \in Sockets, NEW t, socket'[u] = socket[u],
         \A q \in Undrained(t) : u \in Reached(event[q]) =>
           pc'[q] = "committed" /\ event'[q] = event[q]
  PROVE  Pending(u, t) => Pending(u, t)'
<1> SUFFICES ASSUME NEW q \in Undrained(t), u \in Reached(event[q])
             PROVE  Pending(u, t)'
  BY DEF Pending
<1>1. q \in Undrained(t)' /\ event'[q] = event[q]
  BY DEF Undrained
<1>2. u \in Reached(event[q])'
  BY <1>1, ReachedAlone DEF Reached, InAdminRoom, InUserRoom, Addressed
<1>3. QED BY <1>1, <1>2 DEF Pending

LEMMA ScreensStep ==
  ASSUME TypeInv, RolesOK, ScreensOK, [Next]_vars
  PROVE  ScreensOK'
<1> SUFFICES ASSUME NEW u \in Unmanaged, NEW t \in Tickets,
                    socket'[u].stage = "ready", ~woken'[u], ~Pending(u, t)'
             PROVE  screen'[u][t] = Shown(u)'[t]
  BY DEF ScreensOK
<1> DEFINE Goal == screen'[u][t] = Shown(u)'[t]
<1>1. u \in Sockets /\ u \in Users \ Managed /\ user'[u] = user[u]
  BY UsersStay, UnmanagedUsers DEF Unmanaged
<1>2. ASSUME NEW r \in Requests, Create(r) \/ Update(r) \/ ChangeStatus(r) \/ Assign(r)
      PROVE  Goal
  <2>1. PICK s \in Tickets, row \in Row, action \in AUDIT_ACTIONS \ STAFF_ONLY_ACTIONS,
             assignees \in SUBSET Users : Alters(r, s, row, action, assignees)
    BY <1>2, TicketChanges
  <2> DEFINE e == [ticket |-> s, action |-> action, requester |-> row.requester,
                   assignees |-> assignees]
  <2>2. /\ pc[r] = "idle" /\ pc' = [pc EXCEPT ![r] = "committed"]
        /\ ticket' = [ticket EXCEPT ![s] = row] /\ event' = [event EXCEPT ![r] = e]
        /\ UNCHANGED <<socket, woken, screen>>
    BY <2>1 DEF Alters, Changes, tabs
  <2>3. Pending(u, t) => Pending(u, t)'
    <3>1. \A q \in Undrained(t) : pc'[q] = "committed" /\ event'[q] = event[q]
      BY <2>2 DEF Undrained, TypeInv, TypeOK
    <3>2. QED BY <1>1, <2>2, <3>1, PendingStays
  <2>4. CASE s # t
    BY <2>2, <2>3, <2>4, ScreensAlone DEF TypeInv, TypeOK
  <2>5. CASE s = t
    <3>1. e \in TicketEvent /\ e.action \notin STAFF_ONLY_ACTIONS
      BY DEF TicketEvent, Row
    <3>2. event'[r] = e /\ pc'[r] = "committed" /\ e.ticket = t /\ ticket'[t] = row
      BY <2>2, <2>5 DEF TypeInv, TypeOK
    <3>3. u \notin Reached(e)
      <4>1. r \in Undrained(t)'
        BY <3>2 DEF Undrained
      <4>2. u \notin Reached(event[r])'
        BY <4>1 DEF Pending
      <4>3. event'[r] = e /\ socket' = socket
        BY <2>2, <3>2
      <4>4. QED
        BY <4>2, <4>3 DEF Reached, InAdminRoom, InUserRoom, Addressed
    <3>4. /\ ~seesEveryTicket(user[u].role)
          /\ u # row.requester /\ u \notin assignees
      BY <2>2, <3>1, <3>3, SeeingIsHearing
    <3>5. u # row.assignee
          /\ (t \in Opened => u # ticket[t].assignee /\ u # ticket[t].requester)
      BY <1>1, <2>1, <2>5, <3>4, NoOneAssumption DEF Alters, Births, Grows, Concerned
    <3>6. Shown(u)'[t] = NoTicket
      BY <1>1, <3>2, <3>4, <3>5 DEF Shown, visibleTo
    <3>7. Shown(u)[t] = NoTicket
      BY <3>4, <3>5 DEF Shown, visibleTo
    <3>8. screen[u][t] = Shown(u)[t]
      BY <2>2, <2>3 DEF ScreensOK
    <3>9. QED BY <2>2, <3>6, <3>7, <3>8
  <2>6. QED BY <2>4, <2>5
<1>3. ASSUME NEW r \in Requests, Load(r) \/ Post(r) \/ Abort(r) PROVE Goal
  <2>1. /\ UNCHANGED <<socket, woken, screen, ticket>>
        /\ pc[r] # "committed"
        /\ \A q \in Requests \ {r} : pc'[q] = pc[q] /\ event'[q] = event[q]
    BY <1>3 DEF Load, Post, Abort, rows, tabs, TypeInv, TypeOK
  <2>2. \A q \in Undrained(t) : pc'[q] = "committed" /\ event'[q] = event[q]
    BY <2>1 DEF Undrained
  <2>3. QED BY <1>1, <2>1, <2>2, PendingStays, ScreensAlone
<1>4. ASSUME NEW r \in Requests, Drain(r) PROVE Goal
  <2>1. /\ woken'[u] = (woken[u] \/ u \in Reached(event[r]))
        /\ UNCHANGED <<socket, screen, ticket>>
        /\ \A q \in Requests \ {r} : pc'[q] = pc[q] /\ event'[q] = event[q]
    BY <1>1, <1>4 DEF Drain, rows, TypeInv, TypeOK
  <2>2. u \notin Reached(event[r]) /\ ~woken[u]
    BY <2>1
  <2>3. \A q \in Undrained(t) : u \in Reached(event[q]) =>
          pc'[q] = "committed" /\ event'[q] = event[q]
    BY <2>1, <2>2 DEF Undrained
  <2>4. woken'[u] = woken[u]
    <3>1. woken[u] \in BOOLEAN
      BY <1>1 DEF TypeInv, TypeOK
    <3> DEFINE reached == u \in Reached(event[r])
    <3>2. woken'[u] = (woken[u] \/ reached) /\ ~reached
      BY <2>1, <2>2
    <3> HIDE DEF reached
    <3>3. QED BY <3>1, <3>2
  <2>5. QED BY <1>1, <2>1, <2>3, <2>4, PendingStays, ScreensAlone
<1>5. ASSUME NEW s \in Sockets,
             Verify(s) \/ JoinUserRoom(s) \/ JoinAdminRoom(s) \/ EmitReady(s)
               \/ Disconnect(s) \/ Refetch(s)
      PROVE  Goal
  <2>1. UNCHANGED <<ticket, pc, event>>
    BY <1>5 DEF Verify, JoinUserRoom, JoinAdminRoom, EmitReady, Goes, Disconnect, Refetch,
                rows, requests
  <2>2. CASE s = u /\ Refetch(s)
    <3>1. screen'[u] = Shown(u)
      BY <1>1, <2>2 DEF Refetch, TypeInv, TypeOK
    <3>2. Shown(u)'[t] = Shown(u)[t]
      BY <1>1, <2>1, ShownAlone
    <3>3. QED BY <3>1, <3>2
  <2>3. CASE s = u /\ ~Refetch(s)
    <3>1. socket'[u].stage # "ready" \/ woken'[u]
      BY <1>1, <1>5, <2>3
         DEF Verify, JoinUserRoom, JoinAdminRoom, EmitReady, Goes, Disconnect, Off,
             TypeInv, TypeOK
    <3>2. QED BY <3>1
  <2>4. CASE s # u
    <3>1. socket'[u] = socket[u] /\ woken'[u] = woken[u] /\ screen'[u] = screen[u]
      BY <1>1, <1>5, <2>4
         DEF Verify, JoinUserRoom, JoinAdminRoom, EmitReady, Goes, Disconnect, Refetch,
             TypeInv, TypeOK
    <3>2. QED BY <1>1, <2>1, <3>1, PendingStays, ScreensAlone DEF Undrained
  <2>5. QED BY <2>2, <2>3, <2>4
<1>6. ASSUME UNCHANGED <<ticket, requests, tabs>> PROVE Goal
  BY <1>1, <1>6, PendingStays, ScreensAlone DEF Undrained, requests, tabs
<1>7. (\E s \in Tickets : Handle(s)) \/ (\E m \in Managed : EditUser(m)) \/ UNCHANGED vars
        => UNCHANGED <<ticket, requests, tabs>>
  BY DEF Handle, EditUser, rows, vars
<1>8. ~Crash
  BY <1>1 DEF Crash, Off
<1>9. QED BY <1>2, <1>3, <1>4, <1>5, <1>6, <1>7, <1>8 DEF Next

LEMMA InitInv == Init => Inv
<1> SUFFICES ASSUME Init PROVE Inv OBVIOUS
<1>1. \A u \in Unmanaged : socket[u].stage = "off"
  BY DEF Init, Off, Unmanaged
<1>2. \A r \in Requests : pc[r] = "idle"
  BY DEF Init
<1>3. Opened = {}
  BY DEF Init, Opened
<1>4. QED
  BY <1>1, <1>2, <1>3, InitTypes DEF Inv, RolesOK, StaffOK, ScreensOK, Note

LEMMA InvStep == Inv /\ [Next]_vars => Inv'
BY TypeInvStep, RolesStep, StaffStep, ScreensStep DEF Inv

----------------------------------------------------------------------------
\* Rows, events, sockets and audit entries keep their types, a crash included.
THEOREM TypeCorrect == Spec => []TypeOK
<1>1. TypeInv => TypeOK
  BY DEF TypeInv
<1>2. QED BY <1>1, InitTypes, TypeInvStep, PTL DEF Spec

\* The audit trail accounts for every change there was and for nothing else, whatever
\* aborts, fails or dies on the way from the commit to the entry.
THEOREM TrailAlwaysAccounts == Spec => []TrailAccountsForAll
<1>1. Init => TrailAccountsForAll
  <2> SUFFICES ASSUME Init, NEW t \in Tickets
               PROVE  Accounted(t) = Changed(t) + thread[t].comments + thread[t].notes
    BY DEF TrailAccountsForAll, Accounted, Changed
  <2>1. Undrained(t) = {} /\ t \notin Opened
    BY DEF Init, Undrained, Opened
  <2>2. Cardinality(Undrained(t)) = 0
    BY <2>1, FS_EmptySet
  <2>3. QED BY <2>1, <2>2 DEF Init, Accounted, Changed
<1>2. TypeInv /\ TrailAccountsForAll /\ [Next]_vars => TypeInv' /\ TrailAccountsForAll'
  BY TypeInvStep, TrailStep
<1>3. QED BY <1>1, <1>2, InitTypes, PTL DEF Spec

\* What a request holds back names people of its ticket, the role of a socket is that
\* of its user, and a screen is right or about to be fetched again.
THEOREM NotificationsInvariant == Spec => []Inv
BY InitInv, InvStep, PTL DEF Spec

\* A tab that has not been woken since it fetched shows what is there, however its
\* user's tickets were moved and whenever it connected.
THEOREM ScreensAlwaysCatchUp == Spec => []ScreensCatchUp
<1>1. Inv => ScreensCatchUp
  BY DEF Inv, ScreensOK, ScreensCatchUp, Unmanaged, Pending
<1>2. QED BY <1>1, NotificationsInvariant, PTL

\* The room of a requester never hears of an internal note, whoever the ticket goes to
\* while the note is on its way.
THEOREM NotesAlwaysStayWithStaff == Spec => NotesStayWithStaff
<1> DEFINE Stay ==
      \A r \in Requests :
       Drain(r) /\ event[r].action = "internal_note_added" =>
         \A u \in Reached(event[r]) \ Managed : handlesInternalNotes(user[u].role)
<1>1. ASSUME Inv PROVE Stay
  <2> SUFFICES ASSUME NEW r \in Requests, Drain(r),
                      event[r].action = "internal_note_added",
                      NEW u \in Reached(event[r]) \ Managed
               PROVE  handlesInternalNotes(user[u].role)
    OBVIOUS
  <2>1. u \in Unmanaged
    BY DEF Reached, Unmanaged
  <2>2. CASE InAdminRoom(u)
    BY <1>1, <2>1, <2>2
       DEF InAdminRoom, joinsAdminRoom, handlesInternalNotes, Inv, RolesOK
  <2>3. CASE ~InAdminRoom(u)
    <3>1. u \in event[r].assignees
      BY <2>3 DEF Reached, Addressed, STAFF_ONLY_ACTIONS
    <3>2. Note(r)
      BY DEF Drain, Note
    <3>3. QED BY <1>1, <3>1, <3>2 DEF Inv, StaffOK
  <2>4. QED BY <2>2, <2>3
<1>2. ASSUME Inv, [Next]_vars PROVE [Stay]_vars
  BY <1>1, <1>2
<1>3. QED BY <1>2, NotificationsInvariant, PTL DEF Spec, NotesStayWithStaff
----------------------------------------------------------------------------
(* What the refuted claims would need. *)

\* Whoever is connected as an ADMIN remains one, and active.
AdminsStayWhileConnected ==
  \A u \in Sockets :
    socket[u].stage # "off" /\ user[u].active /\ user[u].role = "ADMIN" =>
      user'[u].active /\ user'[u].role = "ADMIN"

\* A ticket is left alone from the moment a comment has read it until its commit.
TicketsStayWhileCommented ==
  \A r \in Requests :
    pc[r] = "loaded" => ticket'[event[r].ticket] = ticket[event[r].ticket]

\* The role of a handshake is that of an active user.
ConnectedOK ==
  \A u \in Sockets :
    socket[u].stage # "off" /\ joinsAdminRoom(socket[u].role) =>
      user[u].active /\ user[u].role = "ADMIN"

LEMMA TicketChangesAlone ==
  ASSUME TypeInv, NEW r \in Requests,
         Create(r) \/ Update(r) \/ ChangeStatus(r) \/ Assign(r)
  PROVE  UNCHANGED tabs /\ pc' = [pc EXCEPT ![r] = "committed"]
         /\ \A q \in Requests : q # r => event'[q] = event[q]
<1>1. PICK t \in Tickets, row \in Row, action \in AUDIT_ACTIONS \ STAFF_ONLY_ACTIONS,
            assignees \in SUBSET Users : Alters(r, t, row, action, assignees)
  BY TicketChanges
<1>2. QED BY <1>1 DEF Alters, Changes, TypeInv, TypeOK

LEMMA LoadAlone ==
  ASSUME TypeInv, NEW r \in Requests, Load(r)
  PROVE  UNCHANGED tabs /\ pc' = [pc EXCEPT ![r] = "loaded"]
         /\ \A q \in Requests : q # r => event'[q] = event[q]
<1>1. PICK u \in Users, t \in Opened, internal \in BOOLEAN :
        event' = [event EXCEPT ![r] =
            [ticket |-> t,
             action |-> IF internal THEN "internal_note_added" ELSE "commented",
             requester |-> ticket[t].requester,
             assignees |-> {ticket[t].assignee} \ {NoOne}]]
  BY DEF Load
<1> DEFINE e == [ticket |-> t,
                 action |-> IF internal THEN "internal_note_added" ELSE "commented",
                 requester |-> ticket[t].requester,
                 assignees |-> {ticket[t].assignee} \ {NoOne}]
<1>2. event' = [event EXCEPT ![r] = e]
  BY <1>1
<1> HIDE DEF e
<1>3. \A q \in Requests : q # r => event'[q] = event[q]
  BY <1>2 DEF TypeInv, TypeOK
<1>4. QED BY <1>3 DEF Load

LEMMA SocketsGo ==
  ASSUME TypeInv, [Next]_vars, NEW u \in Sockets, socket'[u].stage # "off"
  PROVE  \/ Verify(u)
         \/ socket[u].stage # "off" /\ socket'[u].role = socket[u].role
<1>1. CASE \E v \in Sockets : Verify(v)
  <2>1. PICK v \in Sockets : Verify(v)
    BY <1>1
  <2>2. v # u => socket'[u] = socket[u]
    BY <2>1 DEF TypeInv, TypeOK, Verify
  <2>3. QED BY <2>1, <2>2
<1>2. CASE \E v \in Sockets : JoinUserRoom(v) \/ JoinAdminRoom(v) \/ EmitReady(v)
  <2>1. PICK v \in Sockets, from \in SocketStages \ {"off"}, to \in SocketStages :
          Goes(v, from, to)
    BY <1>2 DEF JoinUserRoom, JoinAdminRoom, EmitReady, SocketStages
  <2>2. v # u => socket'[u] = socket[u]
    BY <2>1 DEF TypeInv, TypeOK, Goes
  <2>3. v = u => socket[u].stage # "off" /\ socket'[u].role = socket[u].role
    BY <2>1 DEF TypeInv, TypeOK, Goes
  <2>4. QED BY <2>2, <2>3
<1>3. CASE \E v \in Sockets : Disconnect(v)
  BY <1>3 DEF TypeInv, TypeOK, Disconnect, Off
<1>4. CASE Crash
  BY <1>4 DEF Crash, Off
<1>5. CASE socket' = socket
  BY <1>5
<1>6. CASE \E r \in Requests : Create(r) \/ Update(r) \/ ChangeStatus(r) \/ Assign(r) \/ Load(r)
  BY <1>5, <1>6, TicketChangesAlone, LoadAlone DEF tabs
<1>7. CASE \/ \E r \in Requests : Post(r) \/ Abort(r) \/ Drain(r)
           \/ \E v \in Sockets : Refetch(v)
           \/ \E t \in Tickets : Handle(t)
           \/ \E v \in Managed : EditUser(v)
           \/ UNCHANGED vars
  BY <1>5, <1>7 DEF vars, tabs, Post, Abort, Drain, Refetch, Handle, EditUser
<1>8. QED BY <1>1, <1>2, <1>3, <1>4, <1>6, <1>7 DEF Next

LEMMA ConnectedStep ==
  ASSUME TypeInv, ConnectedOK, [Next]_vars, [AdminsStayWhileConnected]_vars
  PROVE  ConnectedOK'
<1> SUFFICES ASSUME NEW u \in Sockets, socket'[u].stage # "off",
                    joinsAdminRoom(socket'[u].role)
             PROVE  user'[u].active /\ user'[u].role = "ADMIN"
  BY DEF ConnectedOK, joinsAdminRoom
<1>1. CASE Verify(u)
  BY <1>1 DEF TypeInv, TypeOK, Verify, rows, joinsAdminRoom
<1>2. CASE socket[u].stage # "off" /\ socket'[u].role = socket[u].role
  <2>1. user[u].active /\ user[u].role = "ADMIN"
    BY <1>2 DEF ConnectedOK, joinsAdminRoom
  <2>2. CASE AdminsStayWhileConnected
    BY <1>2, <2>1, <2>2 DEF AdminsStayWhileConnected
  <2>3. CASE UNCHANGED vars
    BY <2>1, <2>3 DEF vars, rows
  <2>4. QED BY <2>2, <2>3
<1>3. QED BY <1>1, <1>2, SocketsGo

\* The admin room is right as long as nobody stops being an active ADMIN while connected:
\* whatever was edited between connections, the handshake reads it (AdminRoomIsAdmins).
THEOREM AdminRoomAsConnected ==
  Spec /\ [][AdminsStayWhileConnected]_vars => []AdminRoomIsAdmins
<1>1. Init => ConnectedOK
  BY DEF Init, ConnectedOK, Off
<1>2. ConnectedOK => AdminRoomIsAdmins
  BY DEF ConnectedOK, AdminRoomIsAdmins, InAdminRoom
<1>3. QED
  BY <1>1, <1>2, InitTypes, TypeInvStep, ConnectedStep, PTL DEF Spec

\* What a comment has read is what it goes by.
CommentsOK ==
  \A r \in Requests : pc[r] = "loaded" =>
    /\ ~ticket[event[r].ticket].closed
    /\ {ticket[event[r].ticket].assignee} \ {NoOne} \subseteq event[r].assignees

LEMMA CommentsGo ==
  ASSUME TypeInv, [Next]_vars, NEW r \in Requests, pc'[r] = "loaded"
  PROVE  \/ Load(r)
         \/ pc[r] = "loaded" /\ event'[r] = event[r]
<1>1. CASE \E q \in Requests : Create(q) \/ Update(q) \/ ChangeStatus(q) \/ Assign(q)
  BY <1>1, TicketChangesAlone DEF TypeInv, TypeOK
<1>2. CASE \E q \in Requests : Load(q)
  <2>1. PICK q \in Requests : Load(q)
    BY <1>2
  <2>2. q # r => pc'[r] = pc[r] /\ event'[r] = event[r]
    BY <2>1, LoadAlone DEF TypeInv, TypeOK
  <2>3. QED BY <2>1, <2>2
<1>3. CASE \E q \in Requests : Post(q)
  BY <1>3 DEF TypeInv, TypeOK, Post
<1>4. CASE \E q \in Requests : Abort(q) \/ Drain(q)
  BY <1>4 DEF TypeInv, TypeOK, Abort, Drain
<1>5. CASE Crash
  BY <1>5 DEF Crash
<1>6. CASE UNCHANGED requests
  BY <1>6 DEF requests
<1>7. QED
  BY <1>1, <1>2, <1>3, <1>4, <1>5, <1>6
  DEF Next, vars, Verify, JoinUserRoom, JoinAdminRoom, EmitReady, Goes, Disconnect, Refetch,
      Handle, EditUser

LEMMA CommentsStep ==
  ASSUME TypeInv, CommentsOK, [Next]_vars, [TicketsStayWhileCommented]_vars
  PROVE  CommentsOK'
<1> SUFFICES ASSUME NEW r \in Requests, pc'[r] = "loaded"
             PROVE  LET t == event'[r].ticket
                    IN  /\ ~ticket'[t].closed
                        /\ {ticket'[t].assignee} \ {NoOne} \subseteq event'[r].assignees
  BY DEF CommentsOK
<1>1. CASE Load(r)
  BY <1>1 DEF TypeInv, TypeOK, Load, rows
<1>2. CASE pc[r] = "loaded" /\ event'[r] = event[r]
  <2>1. ticket'[event[r].ticket] = ticket[event[r].ticket]
    BY <1>2 DEF TicketsStayWhileCommented, vars, rows
  <2>2. QED BY <1>2, <2>1 DEF CommentsOK
<1>3. QED BY <1>1, <1>2, CommentsGo

\* If no change comes between the read of a ticket and the commit of a comment on it - as
\* under a lock of the row - a closed ticket takes no comment and a note reaches
\* the assignee (ClosedTakesNoComment, NoteReachesTheAssignee).
THEOREM CommentsGoByWhatIsThere ==
  Spec /\ [][TicketsStayWhileCommented]_vars
    => ClosedTakesNoComment /\ NoteReachesTheAssignee
<1> DEFINE Open == \A r \in Requests : Post(r) => ~ticket[event[r].ticket].closed
           Reaches ==
             \A r \in Requests :
               Post(r) /\ event[r].action = "internal_note_added" =>
                 {ticket[event[r].ticket].assignee} \ {NoOne} \subseteq event[r].assignees
<1>1. Init => CommentsOK
  BY DEF Init, CommentsOK
<1>2. TypeInv /\ CommentsOK => Open /\ Reaches
  BY DEF CommentsOK, Post
<1>3. TypeInv /\ CommentsOK /\ [Next]_vars /\ [TicketsStayWhileCommented]_vars
        => TypeInv' /\ CommentsOK' /\ [Open]_vars /\ [Reaches]_vars
  BY <1>2, TypeInvStep, CommentsStep
<1>4. QED
  BY <1>1, <1>3, InitTypes, PTL DEF Spec, ClosedTakesNoComment, NoteReachesTheAssignee

----------------------------------------------------------------------------
(* Its tickets are those of Tickets, as far as they are seen. *)

Sight(t, row) ==
  [id |-> t, requester |-> row.requester, assignee |-> row.assignee,
   closed |-> row.closed, version |-> row.version]
Seen == {Sight(t, ticket[t]) : t \in Opened}
View == INSTANCE TicketView WITH view <- Seen

LEMMA OpeningIsSeen ==
  ASSUME TypeInv, NEW r \in Requests, Create(r)
  PROVE  View!Next
<1>1. PICK u \in Users, t \in Tickets \ Opened :
        ticket' = [ticket EXCEPT ![t] = [requester |-> u, assignee |-> NoOne,
                                         closed |-> FALSE, version |-> 1]]
  BY DEF Create, Changes
<1> DEFINE new == [requester |-> u, assignee |-> NoOne, closed |-> FALSE, version |-> 1]
<1>2. /\ new \in Row
      /\ Sight(t, new) = [id |-> t, requester |-> u, assignee |-> NoOne,
                          closed |-> FALSE, version |-> 1]
  BY DEF Row, Person, Sight
<1>3. ticket' = [ticket EXCEPT ![t] = new]
  BY <1>1
<1> HIDE DEF new
<1>4. /\ ticket'[t] = new /\ new # NoTicket
      /\ \A s \in Tickets : s # t => ticket'[s] = ticket[s]
  BY <1>2, <1>3, NoTicketAssumption DEF TypeInv, TypeOK, NoTicketIsNoRow
<1>5. Opened' = Opened \cup {t} /\ t \notin Opened
  BY <1>4 DEF Opened
<1>6. Seen' = Seen \cup {Sight(t, new)}
  BY <1>4, <1>5 DEF Seen, Opened
<1>7. \A row \in Seen : row.id # t
  BY <1>5 DEF Seen, Sight
<1>8. View!Open(t, u)
  BY <1>2, <1>6, <1>7 DEF View!Open
<1>9. QED BY <1>8 DEF View!Next

LEMMA MutationIsSeen ==
  ASSUME TypeInv, NEW r, NEW u, NEW t \in Opened, NEW row \in Row, NEW action,
         Mutates(r, u, t, row, action),
         row.requester = ticket[t].requester, row.version = ticket[t].version + 1,
         row.assignee # ticket[t].assignee => ~row.closed
  PROVE  View!Next
<1> DEFINE old == ticket[t]
<1>1. ~old.closed /\ ticket' = [ticket EXCEPT ![t] = row]
  BY DEF Mutates, Changes
<1>2. row # NoTicket /\ t \in Tickets
  BY NoTicketAssumption DEF Opened, NoTicketIsNoRow
<1>3. /\ ticket'[t] = row
      /\ \A s \in Tickets : s # t => ticket'[s] = ticket[s]
  BY <1>1, <1>2 DEF TypeInv, TypeOK
<1>4. Opened' = Opened /\ \A s \in Opened : s # t => ticket'[s] = ticket[s]
  BY <1>2, <1>3 DEF Opened
<1>5. \A s \in Opened : s # t => Sight(s, ticket[s]) # Sight(t, old)
  BY DEF Sight
<1>6. /\ Sight(t, row) = View!Changed(Sight(t, old), row.assignee, row.closed)
      /\ ~Sight(t, old).closed /\ Sight(t, old).assignee = old.assignee
  BY <1>1 DEF Sight, View!Changed
<1> HIDE DEF old
<1>7. Seen' = (Seen \ {Sight(t, old)}) \cup {Sight(t, row)} /\ Sight(t, old) \in Seen
  <2>1. Seen' = {Sight(s, ticket'[s]) : s \in Opened} /\ ticket[t] = old
    BY <1>4 DEF Seen, old
  <2>2. QED BY <1>3, <1>4, <1>5, <2>1 DEF Seen
<1>8. row.assignee \in Users \cup {NoOne} /\ row.closed \in BOOLEAN
  BY DEF Row, Person
<1>9. row.assignee # Sight(t, old).assignee => ~row.closed
  BY <1>6 DEF old
<1>10. View!Change(Sight(t, old))
  BY <1>6, <1>7, <1>8, <1>9 DEF View!Change
<1>11. QED BY <1>7, <1>10 DEF View!Next

LEMMA TicketStepIsSeen ==
  ASSUME TypeInv, NEW r \in Requests,
         Create(r) \/ Update(r) \/ ChangeStatus(r) \/ Assign(r)
  PROVE  View!Next
<1>1. \A t \in Opened : ticket[t] \in Row
  BY OpenedRow DEF TypeInv, Opened
<1>2. CASE Update(r)
  <2>1. PICK u \in Users, t \in Opened :
          Mutates(r, u, t, [ticket[t] EXCEPT !.version = @ + 1], "updated")
    BY <1>2 DEF Update
  <2> DEFINE row == [ticket[t] EXCEPT !.version = @ + 1]
  <2>2. /\ row \in Row /\ row.version = ticket[t].version + 1
        /\ row.requester = ticket[t].requester /\ row.assignee = ticket[t].assignee
    BY <1>1, EditedRow
  <2> HIDE DEF row
  <2>3. Mutates(r, u, t, row, "updated")
    BY <2>1 DEF row
  <2>4. QED BY <2>2, <2>3, MutationIsSeen
<1>3. CASE ChangeStatus(r)
  <2>1. PICK u \in Users, t \in Opened, close \in BOOLEAN :
          Mutates(r, u, t, [ticket[t] EXCEPT !.closed = close, !.version = @ + 1],
                  "status_changed")
    BY <1>3 DEF ChangeStatus
  <2> DEFINE row == [ticket[t] EXCEPT !.closed = close, !.version = @ + 1]
  <2>2. /\ row \in Row /\ row.version = ticket[t].version + 1
        /\ row.requester = ticket[t].requester /\ row.assignee = ticket[t].assignee
    BY <1>1, ClosedRow
  <2> HIDE DEF row
  <2>3. Mutates(r, u, t, row, "status_changed")
    BY <2>1 DEF row
  <2>4. QED BY <2>2, <2>3, MutationIsSeen
<1>4. CASE Assign(r)
  <2>1. PICK u \in Users, t \in Opened, a \in Person :
          Mutates(r, u, t, [ticket[t] EXCEPT !.assignee = a, !.version = @ + 1],
                  "assigned")
    BY <1>4 DEF Assign
  <2> DEFINE row == [ticket[t] EXCEPT !.assignee = a, !.version = @ + 1]
  <2>2. /\ row \in Row /\ row.version = ticket[t].version + 1
        /\ row.requester = ticket[t].requester
    BY <1>1, AssignedRow
  <2>3. ~row.closed
    BY <1>1, <2>1 DEF Mutates, Row
  <2> HIDE DEF row
  <2>4. Mutates(r, u, t, row, "assigned")
    BY <2>1 DEF row
  <2>5. QED BY <2>2, <2>3, <2>4, MutationIsSeen
<1>5. QED BY <1>2, <1>3, <1>4, OpeningIsSeen

LEMMA StepIsSeen ==
  ASSUME TypeInv, [Next]_vars
  PROVE  [View!Next]_Seen
<1>1. CASE \E r \in Requests : Create(r) \/ Update(r) \/ ChangeStatus(r) \/ Assign(r)
  BY <1>1, TicketStepIsSeen
<1>2. CASE ~\E r \in Requests : Create(r) \/ Update(r) \/ ChangeStatus(r) \/ Assign(r)
  <2>1. ticket' = ticket
    BY <1>2
    DEF Next, Load, Post, Abort, Drain, Verify, JoinUserRoom, JoinAdminRoom, EmitReady,
        Goes, Disconnect, Refetch, Handle, EditUser, Crash, vars, rows
  <2>2. QED BY <2>1 DEF Seen, Opened
<1>3. QED BY <1>1, <1>2

\* The tickets whose events, comments and screens are modelled here open once and change
\* by whole versions until they are closed, as those of TicketsService do (TicketsAreSeen
\* of TicketsProofs): the same view of create() and mutate().
THEOREM TicketsAreSeen == Spec => View!Spec
<1>1. Init => View!Init
  BY DEF Init, View!Init, Seen, Opened
<1>2. TypeInv /\ [Next]_vars => TypeInv' /\ [View!Next]_Seen
  BY TypeInvStep, StepIsSeen
<1>3. QED
  BY <1>1, <1>2, InitTypes, PTL DEF Spec, View!Spec
=============================================================================
