----------------------------- MODULE MCCompanies -----------------------------
(* Small instances of Companies. *)
EXTENDS Companies, TLC

SlotSymmetry == Permutations(Requests) \cup Permutations(Domains)
=============================================================================
