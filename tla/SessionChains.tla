--------------------------- MODULE SessionChains ---------------------------
(***************************************************************************)
(* What refresh tokens promise: a login starts a chain, which is one       *)
(* session however often it is renewed, and a chain that has ended has     *)
(* ended for good.                                                         *)
(***************************************************************************)
CONSTANTS Chains

VARIABLE chain

States == {"none", "live", "renewing", "ended"}

Init == chain = [c \in Chains |-> "none"]

Moves(c, from, to) == chain[c] = from /\ chain' = [chain EXCEPT ![c] = to]

\* A login; the token is spent; its successor is issued.
Begin(c) == Moves(c, "none", "live")
Spend(c) == Moves(c, "live", "renewing")
Renew(c) == Moves(c, "renewing", "live")

\* A logout, a revocation of several, a failure between spending and renewing.
EndAll(S) ==
  /\ \A c \in S : chain[c] \in {"live", "renewing"}
  /\ chain' = [c \in Chains |-> IF c \in S THEN "ended" ELSE chain[c]]

Next ==
  \/ \E c \in Chains : Begin(c) \/ Spend(c) \/ Renew(c)
  \/ \E S \in SUBSET Chains : EndAll(S)

Spec == Init /\ [][Next]_chain
=============================================================================
