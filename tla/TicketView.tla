----------------------------- MODULE TicketView -----------------------------
(***************************************************************************)
(* The tickets as the rest of the system sees them, whatever a request does *)
(* to bring a change about: a table that gains a row or has one row        *)
(* replaced.  It is what Tickets, statement by statement, and              *)
(* Notifications, one step a change, say of the same rows.                 *)
(***************************************************************************)
EXTENDS Naturals

CONSTANTS Tickets, Users, NoOne

VARIABLE view  \* rows [id, requester, assignee, closed, version]

Init == view = {}

Open(t, u) ==
  /\ \A row \in view : row.id # t
  /\ view' = view \cup {[id |-> t, requester |-> u, assignee |-> NoOne,
                         closed |-> FALSE, version |-> 1]}

\* The next version of a row: closed or not, or with another assignee.
Changed(row, assignee, closed) ==
  [id |-> row.id, requester |-> row.requester, assignee |-> assignee,
   closed |-> closed, version |-> row.version + 1]

Change(row) ==
  /\ ~row.closed
  /\ \E assignee \in Users \cup {NoOne}, closed \in BOOLEAN :
       /\ assignee # row.assignee => ~closed
       /\ view' = (view \ {row}) \cup {Changed(row, assignee, closed)}

Next ==
  \/ \E t \in Tickets, u \in Users : Open(t, u)
  \/ \E row \in view : Change(row)

Spec == Init /\ [][Next]_view
=============================================================================
