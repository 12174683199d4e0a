----------------------------- MODULE MCSessions -----------------------------
(* Small instances of Sessions. *)
EXTENDS Sessions, FiniteSets, TLC

\* The slots are alike; so are the tokens, and so are the users.
SlotTokenAndUserSymmetry ==
  Permutations(Requests) \cup Permutations(Tokens) \cup Permutations(Users)

\* What the next steps and the properties depend on: of an epoch, whether it is the
\* user's; of the histories, what is said of live rows and of tokens about to be issued.
Outdated(e, u) == e # user[u].epoch
StandingOf(k) ==
  IF k \in Live THEN <<Outdated(token[k].epoch, token[k].owner), k \in late,
                      token[k].root \in burnt>>
  ELSE <<>>
StandingOfJob(r) ==
  IF pc[r] = "issuing"
    THEN <<Outdated(job[r].epoch, job[r].user), IssuesLate(r),
           job[r].op = "refresh" /\ Chain(r) \in burnt>>
  ELSE IF pc[r] = "consumed" THEN <<r \in crossed>> ELSE <<>>

WithoutOldHistories ==
  <<[u \in Users |-> <<user[u].active, user[u].epoch < MaxEpoch>>], pc, doomed,
    [k \in Tokens |->
       IF k \in Issued THEN <<token[k].owner, token[k].revoked, token[k].root, StandingOf(k)>>
                       ELSE NoRow],
    [r \in Requests |->
       IF job[r] # NoJob THEN <<job[r].op, job[r].user, job[r].token, StandingOfJob(r)>>
                         ELSE NoJob]>>
=============================================================================
