------------------------------ MODULE MCUsers ------------------------------
(* Small instances of Users. *)
EXTENDS Users, TLC

CONSTANTS i1, i2, i3, e1, e2, e3

\* The first ADMIN alone.
MCOneAtFirst ==
  [i \in Ids |->
     IF i = i1 THEN [email |-> e1, role |-> "ADMIN", active |-> TRUE] ELSE NoUser]

\* Two ADMINs, and perhaps an id for a third user.
MCUsersAtFirst ==
  [i \in Ids |->
     CASE i = i1 -> [email |-> e1, role |-> "ADMIN", active |-> TRUE]
       [] i = i2 -> [email |-> e2, role |-> "ADMIN", active |-> TRUE]
       [] OTHER  -> NoUser]

SlotSymmetry == Permutations(Requests)
============================================================================
