---------------------------- MODULE MCPagedLists ----------------------------
(* Small instances of PagedLists. *)
EXTENDS PagedLists
=============================================================================
