----------------------------- MODULE MCTickets -----------------------------
(* Small instances of Tickets. *)
EXTENDS Tickets, FiniteSets, TLC

CONSTANTS adm, agt, rqr

\* At most one user per role.
MCRole == [u \in Users |-> CASE u = adm -> "ADMIN"
                             [] u = agt -> "AGENT"
                             [] OTHER   -> "REQUESTER"]

\* An AGENT may be demoted to REQUESTER, and stays active.
MCDemotion == {[role |-> "REQUESTER", active |-> TRUE]}

SlotSymmetry == Permutations(Requests)
============================================================================
