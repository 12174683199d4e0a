--------------------------- MODULE MCNotifications ---------------------------
(* Small instances of Notifications. *)
EXTENDS Notifications, TLC

CONSTANTS adm, agt, ag2, rqr

MCRole ==
  [u \in Users |-> CASE u = adm -> "ADMIN" [] u = rqr -> "REQUESTER" [] OTHER -> "AGENT"]

\* An ADMIN may be deactivated, or become anything.
MCDeactivation == {[role |-> "ADMIN", active |-> FALSE]}
MCAnyEdit == [role: Roles, active: BOOLEAN]

\* No step depends on whether an entry was written or lost, and TrailAccountsForAll
\* is about the two together.
TrailAndLostTogether ==
  <<rows, requests, tabs, recording, [t \in Tickets |-> trail[t] + lost[t]]>>

SlotSymmetry == Permutations(Requests)
=============================================================================
