--------------------------- MODULE CompanyRegistry ---------------------------
(***************************************************************************)
(* What the operator is promised: the companies are a register that each   *)
(* request changes in one step or not at all.  A company enters it with    *)
(* all it needs, under a domain of its own, and never returns once it has  *)
(* left.                                                                   *)
(***************************************************************************)
CONSTANTS Companies, Domains, NoDomain, Unborn, Removed

VARIABLE company

Init == company = [c \in Companies |-> Unborn]

Listed == {c \in Companies : company[c] \notin {Unborn, Removed}}
Free(d, c) == d = NoDomain \/ \A b \in Listed \ {c} : company[b].domain # d

Register(c, d) ==
  /\ company[c] = Unborn /\ Free(d, c)
  /\ company' = [company EXCEPT ![c] =
       [domain |-> d, active |-> TRUE, counter |-> TRUE, admin |-> TRUE]]

\* A PATCH may take the domain away, rename, suspend, or do all that at once.
Amend(c, d, active) ==
  /\ c \in Listed /\ Free(d, c)
  /\ company' = [company EXCEPT ![c].domain = d, ![c].active = active]

Remove(c) ==
  /\ c \in Listed
  /\ company' = [company EXCEPT ![c] = Removed]

Next ==
  \E c \in Companies :
    \/ \E d \in Domains : Register(c, d)
    \/ \E d \in Domains \cup {NoDomain}, active \in BOOLEAN : Amend(c, d, active)
    \/ Remove(c)

Spec == Init /\ [][Next]_company
=============================================================================
