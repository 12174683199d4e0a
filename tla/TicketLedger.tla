---------------------------- MODULE TicketLedger ----------------------------
(***************************************************************************)
(* What a company's tickets promise, with no request, lock or statement in *)
(* sight: a ticket opens with the next number, and from then on changes    *)
(* one whole step at a time, each step of one kind, each counted by        *)
(* `version`, until it is closed and changes no more.                      *)
(***************************************************************************)
EXTENDS Naturals

CONSTANTS Tickets, Users, Texts, NoOne, NoTicket

VARIABLES ticket, lastNumber

vars == <<ticket, lastNumber>>

Moves == {<<"OPEN", "IN_PROGRESS">>, <<"OPEN", "RESOLVED">>,
          <<"IN_PROGRESS", "RESOLVED">>, <<"IN_PROGRESS", "OPEN">>,
          <<"RESOLVED", "CLOSED">>, <<"RESOLVED", "OPEN">>}

\* A resolution is stamped while the work stands as done, a closure when it ends.
StampsAgree(row) ==
  /\ row.resolved <=> row.status \in {"RESOLVED", "CLOSED"}
  /\ row.closedBy # NoOne <=> row.status = "CLOSED"

IsNew(row, number) ==
  /\ row.number = number
  /\ row.status = "OPEN"
  /\ row.assignee = NoOne
  /\ row.version = 1
  /\ row.requester \in Users
  /\ row.text \in Texts
  /\ StampsAgree(row)

\* One change of an open row: the text, the assignee, or the status.
Changes(old, new) ==
  /\ old.status # "CLOSED"
  /\ StampsAgree(new)
  /\ \/ \E x \in Texts : new = [old EXCEPT !.text = x, !.version = @ + 1]
     \/ \E a \in Users \cup {NoOne} :
          new = [old EXCEPT !.assignee = a, !.version = @ + 1]
     \/ /\ <<old.status, new.status>> \in Moves
        /\ new = [old EXCEPT !.status = new.status, !.resolved = new.resolved,
                             !.closedBy = new.closedBy, !.version = @ + 1]

Init ==
  /\ ticket = [t \in Tickets |-> NoTicket]
  /\ lastNumber = 0

Open(t) ==
  /\ ticket[t] = NoTicket /\ ticket'[t] # NoTicket
  /\ IsNew(ticket'[t], lastNumber + 1)
  /\ ticket' = [ticket EXCEPT ![t] = ticket'[t]]
  /\ lastNumber' = lastNumber + 1

Change(t) ==
  /\ ticket[t] # NoTicket
  /\ Changes(ticket[t], ticket'[t])
  /\ ticket' = [ticket EXCEPT ![t] = ticket'[t]]
  /\ UNCHANGED lastNumber

Next == \E t \in Tickets : Open(t) \/ Change(t)

Spec == Init /\ [][Next]_vars
=============================================================================
