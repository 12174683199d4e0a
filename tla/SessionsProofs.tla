--------------------------- MODULE SessionsProofs ---------------------------
(***************************************************************************)
(* What holds of Sessions for every set of requests, users and tokens.     *)
(***************************************************************************)
EXTENDS Sessions, TLAPS

\* What a slot holds at each stage.
SlotsOK ==
  \A r \in Requests :
    /\ pc[r] # "idle" => job[r] \in Job
    /\ pc[r] # "idle" /\ job[r].op = "refresh" => job[r].token \in Issued
    /\ pc[r] \in {"presented", "consumed"} => job[r].op = "refresh"
    /\ pc[r] = "issuing" => job[r].op \in {"login", "refresh"}
    /\ pc[r] = "changing" => job[r].op \in {"changePassword", "remove"}
    /\ pc[r] = "rejected" => job[r].op = "refresh"
    /\ pc[r] \notin {"revoking", "written"} => doomed[r] = {}

\* A chain's root is a token of the chain.
RootsOK ==
  \A k \in Issued : /\ token[k].root \in Issued
                    /\ token[token[k].root].root = token[k].root

TypeInv == TypeOK /\ SlotsOK /\ RootsOK

LEMMA IssuedIsRow ==
  ASSUME TypeOK, NEW k \in Tokens
  PROVE  k \in Issued <=> token[k] \in TokenRow
BY NoRowAssumption DEF TypeOK, Issued, NoRowIsNoToken

\* Revoking rows changes neither which are there, nor whose, nor their chains.
LEMMA RevokedRows ==
  ASSUME TypeOK, NEW S \in SUBSET Issued,
         token' = [k \in Tokens |->
                     IF k \in S THEN [token[k] EXCEPT !.revoked = TRUE] ELSE token[k]]
  PROVE  /\ Issued' = Issued
         /\ token' \in [Tokens -> TokenRow \cup {NoRow}]
         /\ \A k \in Issued : token'[k].owner = token[k].owner
                              /\ token'[k].root = token[k].root
         /\ Live' = Live \ S
<1>1. \A k \in S : token[k] \in TokenRow
  BY IssuedIsRow DEF Issued
<1>2. \A k \in S : /\ token'[k] \in TokenRow
                   /\ token'[k].owner = token[k].owner
                   /\ token'[k].root = token[k].root
                   /\ token'[k].revoked
  BY <1>1 DEF TokenRow, Issued
<1>3. \A k \in Tokens \ S : token'[k] = token[k]
  OBVIOUS
<1>4. Issued' = Issued
  BY <1>2, <1>3, NoRowAssumption DEF Issued, NoRowIsNoToken
<1>5. token' \in [Tokens -> TokenRow \cup {NoRow}]
  <2>1. \A k \in Tokens : token'[k] \in TokenRow \cup {NoRow}
    BY <1>2, <1>3 DEF TypeOK
  <2>2. QED BY <2>1
<1>6. \A k \in Issued : token'[k].owner = token[k].owner
                        /\ token'[k].root = token[k].root
  BY <1>2, <1>3 DEF Issued
<1>7. Live' = Live \ S
  BY <1>2, <1>3, <1>4 DEF Live, Issued
<1>8. QED BY <1>4, <1>5, <1>6, <1>7

\* The one row of a refresh that settles, or of a logout.
LEMMA RevokedRow ==
  ASSUME TypeOK, NEW j \in Issued, token' = [token EXCEPT ![j].revoked = TRUE]
  PROVE  token' = [k \in Tokens |->
                     IF k \in {j} THEN [token[k] EXCEPT !.revoked = TRUE] ELSE token[k]]
BY DEF TypeOK, Issued

\* A step that begins or ends a request, or moves it on, and leaves the rows alone.
LEMMA RowsAlone ==
  ASSUME TypeInv, UNCHANGED token,
         TypeOK', SlotsOK'
  PROVE  TypeInv'
BY DEF TypeInv, RootsOK, Issued

LEMMA StartKeepsTypes ==
  ASSUME TypeInv, NEW r \in Requests, 
         NEW stage \in {"presented", "issuing", "changing"},
         NEW j \in Job, Start(r, stage, j), crossed' \subseteq Requests,
         j.op = "refresh" => j.token \in Issued,
         stage = "presented" => j.op = "refresh",
         stage = "issuing" => j.op \in {"login", "refresh"},
         stage = "changing" => j.op \in {"changePassword", "remove"}
  PROVE  TypeInv'
<1>1. TypeOK'
  <2>1. RevokesOwnRows'
    BY DEF TypeInv, TypeOK, SlotsOK, RevokesOwnRows, Start, Issued
  <2>2. QED BY <2>1 DEF TypeInv, TypeOK, Start, Stages
<1>2. SlotsOK'
  BY DEF TypeInv, TypeOK, SlotsOK, Start, Issued
<1>3. QED BY <1>1, <1>2, RowsAlone DEF Start

LEMMA EndKeepsTypes ==
  ASSUME TypeInv, NEW r \in Requests, End(r), UNCHANGED <<user, token, late>>,
         burnt' \subseteq Tokens
  PROVE  TypeInv'
<1>1. TypeOK'
  <2>1. RevokesOwnRows'
    BY DEF TypeInv, TypeOK, RevokesOwnRows, End, Issued
  <2>2. QED BY <2>1 DEF TypeInv, TypeOK, End, Stages
<1>2. /\ pc'[r] = "idle" /\ doomed'[r] = {}
      /\ \A q \in Requests :
           q # r => pc'[q] = pc[q] /\ job'[q] = job[q] /\ doomed'[q] = doomed[q]
  BY DEF TypeInv, TypeOK, End
<1>3. SlotsOK'
  BY <1>2 DEF TypeInv, SlotsOK, Issued
<1>4. QED BY <1>1, <1>3, RowsAlone

\* A scope that revokes rows ends the request or moves it on.
LEMMA RevokingKeepsRows ==
  ASSUME TypeInv, NEW S \in SUBSET Issued,
         token' = [k \in Tokens |->
                     IF k \in S THEN [token[k] EXCEPT !.revoked = TRUE] ELSE token[k]]
  PROVE  RootsOK'
<1>1. Issued' = Issued /\ \A k \in Issued : token'[k].root = token[k].root
  BY RevokedRows DEF TypeInv
<1>2. QED BY <1>1 DEF TypeInv, RootsOK

LEMMA IssuedRow ==
  ASSUME TypeInv, NEW r \in Requests, pc[r] = "issuing", NEW k \in Tokens \ Issued
  PROVE  [owner |-> job[r].user, revoked |-> FALSE, root |-> RootOf(r, k),
          epoch |-> job[r].epoch] \in TokenRow
<1>1. job[r] \in Job /\ job[r].op \in {"login", "refresh"}
  BY DEF TypeInv, SlotsOK
<1>2. job[r].op = "refresh" => token[job[r].token] \in TokenRow
  BY <1>1, IssuedIsRow DEF TypeInv, SlotsOK, Issued
<1>3. RootOf(r, k) \in Tokens
  BY <1>1, <1>2 DEF RootOf, TokenRow
<1>4. QED BY <1>1, <1>3 DEF TokenRow, Job

LEMMA TypeInvStep == TypeInv /\ [Next]_vars => TypeInv'
<1> SUFFICES ASSUME TypeInv, [Next]_vars
             PROVE  TypeInv'
  OBVIOUS
<1>1. ASSUME NEW r \in Requests, Login(r)
      PROVE  TypeInv'
  <2>1. PICK u \in Users :
          Start(r, "issuing", [op |-> "login", user |-> u, token |-> NoToken,
                               epoch |-> user[u].epoch])
    BY <1>1 DEF Login
  <2>2. [op |-> "login", user |-> u, token |-> NoToken, epoch |-> user[u].epoch] \in Job
    BY DEF TypeInv, TypeOK, UserRow, Job, Ops
  <2>3. crossed' \subseteq Requests
    BY <1>1 DEF Login, Grants, TypeInv, TypeOK
  <2>4. QED BY <2>1, <2>2, <2>3, StartKeepsTypes
<1>2. ASSUME NEW r \in Requests, Refresh(r)
      PROVE  TypeInv'
  <2>1. PICK k \in Issued :
          Start(r, "presented", [op |-> "refresh", user |-> token[k].owner,
                                 token |-> k, epoch |-> token[k].epoch])
    BY <1>2 DEF Refresh
  <2>2. [op |-> "refresh", user |-> token[k].owner, token |-> k,
         epoch |-> token[k].epoch] \in Job
    BY IssuedIsRow DEF TypeInv, TokenRow, Job, Ops, Issued
  <2>3. crossed' \subseteq Requests
    BY <1>2 DEF Refresh, TypeInv, TypeOK
  <2>4. QED BY <2>1, <2>2, <2>3, StartKeepsTypes
<1>3. ASSUME NEW r \in Requests, ChangePassword(r)
      PROVE  TypeInv'
  <2>1. PICK u \in Users :
          Start(r, "changing", [op |-> "changePassword", user |-> u,
                                token |-> NoToken, epoch |-> user[u].epoch])
    BY <1>3 DEF ChangePassword
  <2>2. [op |-> "changePassword", user |-> u, token |-> NoToken,
         epoch |-> user[u].epoch] \in Job
    BY DEF TypeInv, TypeOK, UserRow, Job, Ops
  <2>3. crossed' \subseteq Requests
    BY <1>3 DEF ChangePassword, TypeInv, TypeOK
  <2>4. QED BY <2>1, <2>2, <2>3, StartKeepsTypes
<1>4. ASSUME NEW r \in Requests, Remove(r)
      PROVE  TypeInv'
  <2>1. PICK u \in Users :
          Start(r, "changing", [op |-> "remove", user |-> u,
                                token |-> NoToken, epoch |-> user[u].epoch])
    BY <1>4 DEF Remove
  <2>2. [op |-> "remove", user |-> u, token |-> NoToken,
         epoch |-> user[u].epoch] \in Job
    BY DEF TypeInv, TypeOK, UserRow, Job, Ops
  <2>3. crossed' \subseteq Requests
    BY <1>4 DEF Remove, TypeInv, TypeOK
  <2>4. QED BY <2>1, <2>2, <2>3, StartKeepsTypes
<1>5. ASSUME NEW r \in Requests, Issue(r)
      PROVE  TypeInv'
  <2>1. PICK k \in Tokens \ Issued :
          token' = [token EXCEPT ![k] =
            [owner |-> job[r].user, revoked |-> FALSE, root |-> RootOf(r, k),
             epoch |-> job[r].epoch]]
    BY <1>5 DEF Issue
  <2>2. token'[k] \in TokenRow /\ token'[k].root = RootOf(r, k)
    BY <1>5, <2>1, IssuedRow DEF Issue, TypeInv, TypeOK
  <2>3. Issued' = Issued \cup {k} /\ \A j \in Issued : token'[j] = token[j]
    BY <2>1, <2>2, NoRowAssumption DEF Issued, NoRowIsNoToken, TypeInv, TypeOK
  <2>4. TypeOK'
    <3>1. RevokesOwnRows'
      BY <1>5, <2>3 DEF TypeInv, TypeOK, RevokesOwnRows, Issue, End
    <3>2. late' \subseteq Tokens
      BY <1>5 DEF TypeInv, TypeOK, Issue
    <3>3. QED BY <1>5, <2>1, <2>2, <3>1, <3>2 DEF TypeInv, TypeOK, Issue, End, Stages
  <2>5. SlotsOK'
    BY <1>5, <2>3 DEF TypeInv, TypeOK, SlotsOK, Issue, End
  <2>6. RootsOK'
    <3>1. \/ RootOf(r, k) = k
          \/ RootOf(r, k) \in Issued /\ token[RootOf(r, k)].root = RootOf(r, k)
      BY <1>5 DEF TypeInv, SlotsOK, RootsOK, RootOf, Issue
    <3>2. QED BY <2>2, <2>3, <3>1 DEF TypeInv, RootsOK
  <2>7. QED BY <2>4, <2>5, <2>6 DEF TypeInv
<1>6. ASSUME NEW r \in Requests, Consume(r)
      PROVE  TypeInv'
  <2>1. TypeOK' /\ SlotsOK'
    BY <1>6 DEF TypeInv, TypeOK, SlotsOK, RevokesOwnRows, Consume, Grants, Stages, Issued
  <2>2. QED BY <1>6, <2>1, RowsAlone DEF Consume
<1>7. ASSUME NEW r \in Requests, DetectReuse(r)
      PROVE  TypeInv'
  <2>1. TypeOK' /\ SlotsOK'
    BY <1>7 DEF TypeInv, TypeOK, SlotsOK, RevokesOwnRows, DetectReuse, Crosses, Stages,
                Issued, Live, LiveOf
  <2>2. QED BY <1>7, <2>1, RowsAlone DEF DetectReuse
<1>8. ASSUME NEW r \in Requests, Settle(r)
      PROVE  TypeInv'
  <2>1. job[r].token \in Issued
    BY <1>8 DEF TypeInv, SlotsOK, Settle
  <2>2. token' = [k \in Tokens |->
                    IF k \in {job[r].token} THEN [token[k] EXCEPT !.revoked = TRUE]
                                           ELSE token[k]]
    BY <1>8, <2>1, RevokedRow DEF Settle, TypeInv
  <2>3. Issued' = Issued /\ token' \in [Tokens -> TokenRow \cup {NoRow}]
        /\ \A k \in Issued : token'[k].owner = token[k].owner
    BY <2>1, <2>2, RevokedRows DEF TypeInv
  <2>4. TypeOK'
    <3>1. RevokesOwnRows'
      BY <1>8, <2>3 DEF TypeInv, TypeOK, RevokesOwnRows, Settle, End
    <3>2. QED BY <1>8, <2>3, <3>1 DEF TypeInv, TypeOK, Settle, End, Stages
  <2>5. SlotsOK'
    BY <1>8, <2>3 DEF TypeInv, TypeOK, SlotsOK, Settle, End
  <2>6. QED BY <2>1, <2>2, <2>4, <2>5, RevokingKeepsRows DEF TypeInv
<1>9. ASSUME NEW r \in Requests, UpdateUser(r)
      PROVE  TypeInv'
  <2>1. TypeOK' /\ SlotsOK'
    BY <1>9 DEF TypeInv, TypeOK, SlotsOK, RevokesOwnRows, UpdateUser, Crosses, Stages,
                Issued, Live, LiveOf
  <2>2. QED BY <1>9, <2>1, RowsAlone DEF UpdateUser
<1>10. ASSUME NEW r \in Requests, RevokeAll(r)
       PROVE  TypeInv'
  <2>1. TypeOK' /\ SlotsOK'
    BY <1>10 DEF TypeInv, TypeOK, SlotsOK, RevokesOwnRows, RevokeAll, Stages, Issued
  <2>2. QED BY <1>10, <2>1, RowsAlone DEF RevokeAll
<1>11. ASSUME NEW r \in Requests, Commit(r)
       PROVE  TypeInv'
  <2>1. doomed[r] \in SUBSET Issued /\ job[r] \in Job
    BY <1>11 DEF TypeInv, TypeOK, RevokesOwnRows, SlotsOK, Commit
  <2>2. token' = [k \in Tokens |->
                    IF k \in doomed[r] THEN [token[k] EXCEPT !.revoked = TRUE]
                                      ELSE token[k]]
    BY <1>11 DEF Commit, Revoked
  <2>3. Issued' = Issued /\ token' \in [Tokens -> TokenRow \cup {NoRow}]
        /\ \A k \in Issued : token'[k].owner = token[k].owner
    BY <2>1, <2>2, RevokedRows DEF TypeInv
  <2>4. user' \in [Users -> UserRow]
    <3>1. job[r].user \in Users /\ user[job[r].user] \in UserRow
      BY <2>1 DEF Job, TypeInv, TypeOK
    <3>2. user[job[r].user].epoch + 1 \in Nat
      BY <3>1 DEF UserRow
    <3>3. [user[job[r].user] EXCEPT !.epoch = @ + 1] \in UserRow
          /\ [user[job[r].user] EXCEPT !.active = FALSE] \in UserRow
      BY <3>1, <3>2 DEF UserRow
    <3>4. CASE job[r].op = "changePassword"
      BY <1>11, <3>1, <3>3, <3>4 DEF Commit, Updated, TypeInv, TypeOK
    <3>5. CASE job[r].op = "remove"
      BY <1>11, <3>1, <3>3, <3>5 DEF Commit, Updated, TypeInv, TypeOK
    <3>6. CASE job[r].op \notin {"changePassword", "remove"}
      BY <1>11, <3>6 DEF Commit, Updated, TypeInv, TypeOK
    <3>7. QED BY <3>4, <3>5, <3>6
  <2>5. TypeOK'
    <3>1. RevokesOwnRows'
      BY <1>11, <2>3 DEF TypeInv, TypeOK, RevokesOwnRows, Commit, End
    <3>2. QED BY <1>11, <2>3, <2>4, <3>1 DEF TypeInv, TypeOK, Commit, End, Stages
  <2>6. SlotsOK'
    BY <1>11, <2>3 DEF TypeInv, TypeOK, SlotsOK, Commit, End
  <2>7. QED BY <2>1, <2>2, <2>5, <2>6, RevokingKeepsRows DEF TypeInv
<1>12. ASSUME NEW r \in Requests, Refuse(r)
       PROVE  TypeInv'
  <2>1. job[r].op = "refresh" /\ token[job[r].token] \in TokenRow
    BY <1>12, IssuedIsRow DEF TypeInv, SlotsOK, Refuse, Issued
  <2>2. burnt' \subseteq Tokens
    BY <1>12, <2>1 DEF Refuse, TypeInv, TypeOK, TokenRow
  <2>3. QED BY <1>12, <2>2, EndKeepsTypes DEF Refuse
<1>13. ASSUME NEW r \in Requests, Abort(r)
       PROVE  TypeInv'
  BY <1>13, EndKeepsTypes DEF Abort, TypeInv, TypeOK
<1>14. ASSUME NEW k \in Tokens, Logout(k)
       PROVE  TypeInv'
  <2>1. k \in Issued
    BY <1>14 DEF Logout
  <2>2. token' = [j \in Tokens |->
                    IF j \in {k} THEN [token[j] EXCEPT !.revoked = TRUE] ELSE token[j]]
    BY <1>14, <2>1, RevokedRow DEF Logout, TypeInv
  <2>3. Issued' = Issued /\ token' \in [Tokens -> TokenRow \cup {NoRow}]
        /\ \A j \in Issued : token'[j].owner = token[j].owner
    BY <2>1, <2>2, RevokedRows DEF TypeInv
  <2>4. TypeOK' /\ SlotsOK'
    BY <1>14, <2>3 DEF TypeInv, TypeOK, SlotsOK, RevokesOwnRows, Logout
  <2>5. QED BY <2>1, <2>2, <2>4, RevokingKeepsRows DEF TypeInv
<1>15. ASSUME NEW u \in Users, Restore(u)
       PROVE  TypeInv'
  <2>1. TypeOK' /\ SlotsOK'
    BY <1>15, ZenonT(30) DEF TypeInv, TypeOK, SlotsOK, RevokesOwnRows, Restore, Issued,
                              UserRow
  <2>2. QED BY <1>15, <2>1, RowsAlone DEF Restore
<1>16. CASE UNCHANGED vars
  BY <1>16 DEF TypeInv, TypeOK, SlotsOK, RevokesOwnRows, RootsOK, Issued, vars
<1>17. QED
  BY <1>1, <1>2, <1>3, <1>4, <1>5, <1>6, <1>7, <1>8, <1>9, <1>10, <1>11, <1>12,
     <1>13, <1>14, <1>15, <1>16 DEF Next

LEMMA TypeInvInit == Init => TypeInv
BY DEF Init, TypeInv, TypeOK, SlotsOK, RevokesOwnRows, RootsOK, Issued, UserRow, Stages

\* Every variable keeps its type: TypeOK for any slots, users and tokens.
THEOREM TypeCorrect == Spec => []TypeOK
<1>1. TypeInv => TypeOK
  BY DEF TypeInv
<1>2. QED BY <1>1, TypeInvInit, TypeInvStep, PTL DEF Spec

----------------------------------------------------------------------------
\* A consumed row is alive, its revocation not yet committed, and one scope has it.
ConsumersOK ==
  \A r \in Requests : pc[r] = "consumed" =>
    /\ job[r].token \in Live
    /\ \A q \in Requests : q # r /\ pc[q] = "consumed" => job[q].token # job[r].token

\* Rows revoked and not committed are nobody else's to consume.
WrittenOK ==
  \A r, q \in Requests : pc[r] = "written" /\ pc[q] = "consumed" =>
    job[q].token \notin doomed[r]

ChainInv == TypeInv /\ ConsumersOK /\ WrittenOK /\ OneSessionPerLogin

RevokesRows(S) ==
  token' = [k \in Tokens |->
              IF k \in S THEN [token[k] EXCEPT !.revoked = TRUE] ELSE token[k]]

\* Steps that only revoke rows nobody has consumed, or none, and after which nobody
\* holds a row or continues a chain who did not before.
LEMMA FewerKeepChains ==
  ASSUME ChainInv, NEW S \in SUBSET Issued, RevokesRows(S),
         \A q \in Requests : pc'[q] = "consumed" =>
           pc[q] = "consumed" /\ job'[q].token = job[q].token /\ job[q].token \notin S,
         \A q \in Requests : Renewing(q)' =>
           Renewing(q) /\ job'[q].token = job[q].token
  PROVE  ConsumersOK' /\ OneSessionPerLogin'
<1>1. /\ Issued' = Issued /\ Live' = Live \ S
      /\ \A k \in Issued : token'[k].root = token[k].root
  BY RevokedRows DEF ChainInv, TypeInv, RevokesRows
<1>2. Live \subseteq Issued
  BY DEF Live
<1>3. \A q \in Requests : Renewing(q) => job[q].token \in Issued
  BY DEF ChainInv, TypeInv, SlotsOK, Renewing
<1>4. \A q \in Requests : Renewing(q)' => Chain(q)' = Chain(q)
  BY <1>1, <1>3 DEF Chain
<1>5. OneSessionPerLogin'
  BY <1>1, <1>2, <1>4 DEF ChainInv, OneSessionPerLogin
<1>6. ConsumersOK'
  BY <1>1 DEF ChainInv, ConsumersOK
<1>7. QED BY <1>5, <1>6

LEMMA RevokingNone ==
  ASSUME TypeOK, UNCHANGED token
  PROVE  RevokesRows({})
BY DEF RevokesRows, TypeOK

LEMMA StartKeepsChains ==
  ASSUME ChainInv, NEW r \in Requests, NEW stage, NEW j, Start(r, stage, j),
         stage # "consumed", stage = "issuing" => j.op # "refresh"
  PROVE  ConsumersOK' /\ OneSessionPerLogin'
<1>1. \A q \in Requests : pc'[q] = "consumed" =>
        pc[q] = "consumed" /\ job'[q].token = job[q].token
  BY DEF ChainInv, TypeInv, TypeOK, Start
<1>2. \A q \in Requests : Renewing(q)' =>
        Renewing(q) /\ job'[q].token = job[q].token
  BY DEF ChainInv, TypeInv, TypeOK, Start, Renewing
<1>3. RevokesRows({})
  BY RevokingNone DEF Start, ChainInv, TypeInv
<1>4. QED BY <1>1, <1>2, <1>3, FewerKeepChains

LEMMA EndKeepsChains ==
  ASSUME ChainInv, NEW r \in Requests, End(r), NEW S \in SUBSET Issued,
         RevokesRows(S),
         \A q \in Requests : q # r /\ pc[q] = "consumed" => job[q].token \notin S
  PROVE  ConsumersOK' /\ OneSessionPerLogin'
<1>1. \A q \in Requests : pc'[q] = "consumed" =>
        pc[q] = "consumed" /\ job'[q].token = job[q].token /\ job[q].token \notin S
  BY DEF ChainInv, TypeInv, TypeOK, End
<1>2. \A q \in Requests : Renewing(q)' =>
        Renewing(q) /\ job'[q].token = job[q].token
  BY DEF ChainInv, TypeInv, TypeOK, End, Renewing
<1>3. QED BY <1>1, <1>2, FewerKeepChains

LEMMA SettleRevokes ==
  ASSUME ChainInv, NEW r \in Requests, Settle(r)
  PROVE  /\ job[r].token \in Live
         /\ job[r].op = "refresh"
         /\ RevokesRows({job[r].token})
         /\ Issued' = Issued /\ Live' = Live \ {job[r].token}
         /\ \A k \in Issued : token'[k].root = token[k].root
<1>1. job[r].token \in Live /\ job[r].op = "refresh"
  BY DEF Settle, ChainInv, ConsumersOK, TypeInv, SlotsOK
<1>2. job[r].token \in Issued
  BY <1>1 DEF Live
<1>3. RevokesRows({job[r].token})
  BY <1>2, RevokedRow DEF Settle, ChainInv, TypeInv, RevokesRows
<1>4. QED
  BY <1>1, <1>2, <1>3, RevokedRows, ZenonT(30) DEF ChainInv, TypeInv, RevokesRows

LEMMA IssueAdds ==
  ASSUME ChainInv, NEW r \in Requests, Issue(r)
  PROVE  \E k \in Tokens \ Issued :
           /\ Issued' = Issued \cup {k} /\ Live' = Live \cup {k}
           /\ token'[k].root = RootOf(r, k)
           /\ \A j \in Issued : token'[j] = token[j]
<1>1. PICK k \in Tokens \ Issued :
        token' = [token EXCEPT ![k] =
          [owner |-> job[r].user, revoked |-> FALSE, root |-> RootOf(r, k),
           epoch |-> job[r].epoch]]
  BY DEF Issue
<1>2. /\ token'[k] \in TokenRow /\ token'[k].root = RootOf(r, k)
      /\ ~token'[k].revoked
  BY <1>1, IssuedRow DEF Issue, ChainInv, TypeInv, TypeOK
<1>3. \A j \in Tokens \ {k} : token'[j] = token[j]
  BY <1>1 DEF ChainInv, TypeInv, TypeOK
<1>4. Issued' = Issued \cup {k}
  BY <1>2, <1>3, NoRowAssumption DEF Issued, NoRowIsNoToken
<1>5. Live' = Live \cup {k}
  BY <1>2, <1>3, <1>4 DEF Live, Issued
<1>6. QED BY <1>2, <1>3, <1>4, <1>5 DEF Issued

LEMMA WrittenStep ==
  ASSUME ChainInv, [Next]_vars
  PROVE  WrittenOK'
<1> USE DEF ChainInv, TypeInv, WrittenOK
<1>1. ASSUME NEW r \in Requests,
             \A q \in Requests \ {r} :
               pc'[q] = pc[q] /\ job'[q] = job[q] /\ doomed'[q] = doomed[q],
             pc'[r] \notin {"written", "consumed"}
      PROVE  WrittenOK'
  BY <1>1
<1>2. ASSUME NEW r \in Requests, \/ Login(r) \/ Refresh(r) \/ ChangePassword(r) \/ Remove(r)
                                \/ Issue(r) \/ DetectReuse(r) \/ Settle(r) \/ UpdateUser(r)
                                \/ Commit(r) \/ Refuse(r) \/ Abort(r)
      PROVE  WrittenOK'
  <2>1. CASE Login(r) \/ Refresh(r) \/ ChangePassword(r) \/ Remove(r)
    BY <1>1, <2>1 DEF Login, Refresh, ChangePassword, Remove, Start, TypeOK
  <2>2. CASE Issue(r) \/ Settle(r) \/ Commit(r) \/ Refuse(r) \/ Abort(r)
    BY <1>1, <2>2 DEF Issue, Settle, Commit, Refuse, Abort, End, TypeOK
  <2>3. CASE DetectReuse(r) \/ UpdateUser(r)
    BY <1>1, <2>3 DEF DetectReuse, UpdateUser, TypeOK
  <2>4. QED BY <1>2, <2>1, <2>2, <2>3
<1>3. ASSUME NEW r \in Requests, Consume(r)
      PROVE  WrittenOK'
  BY <1>3 DEF Consume, TokenLocked, TypeOK
<1>4. ASSUME NEW r \in Requests, RevokeAll(r)
      PROVE  WrittenOK'
  BY <1>4 DEF RevokeAll, TokenLocked, TypeOK
<1>5. ASSUME UNCHANGED <<pc, job, doomed>>
      PROVE  WrittenOK'
  BY <1>5
<1>6. QED BY <1>2, <1>3, <1>4, <1>5 DEF Next, Logout, Restore, vars

LEMMA ChainInvStep == ChainInv /\ [Next]_vars => ChainInv'
<1> SUFFICES ASSUME ChainInv, [Next]_vars
             PROVE  ConsumersOK' /\ OneSessionPerLogin'
  BY TypeInvStep, WrittenStep DEF ChainInv
<1> USE DEF ChainInv, TypeInv
<1>1. ASSUME NEW r \in Requests, Login(r) \/ Refresh(r) \/ ChangePassword(r) \/ Remove(r)
      PROVE  ConsumersOK' /\ OneSessionPerLogin'
  <2>1. PICK stage, j : /\ Start(r, stage, j) /\ stage # "consumed"
                        /\ stage = "issuing" => j.op # "refresh"
    <3>1. CASE Login(r)
      BY <3>1 DEF Login
    <3>2. CASE Refresh(r)
      BY <3>2 DEF Refresh
    <3>3. CASE ChangePassword(r)
      BY <3>3 DEF ChangePassword
    <3>4. CASE Remove(r)
      BY <3>4 DEF Remove
    <3>5. QED BY <1>1, <3>1, <3>2, <3>3, <3>4
  <2>2. QED BY <2>1, StartKeepsChains
<1>2. ASSUME NEW r \in Requests, Issue(r)
      PROVE  ConsumersOK' /\ OneSessionPerLogin'
  <2>1. PICK k \in Tokens \ Issued :
           /\ Issued' = Issued \cup {k} /\ Live' = Live \cup {k}
           /\ token'[k].root = RootOf(r, k)
           /\ \A j \in Issued : token'[j] = token[j]
    BY <1>2, IssueAdds
  <2>2. Live \subseteq Issued
    BY DEF Live
  <2>3. \A q \in Requests : pc'[q] = "consumed" =>
          q # r /\ pc[q] = "consumed" /\ job'[q].token = job[q].token
    BY <1>2 DEF Issue, End, TypeOK
  <2>4. \A q \in Requests : Renewing(q)' =>
          q # r /\ Renewing(q) /\ job'[q].token = job[q].token
    BY <1>2 DEF Issue, End, TypeOK, Renewing
  <2>5. \A q \in Requests : Renewing(q) => job[q].token \in Issued
    BY DEF SlotsOK, Renewing
  <2>6. \A q \in Requests : Renewing(q)' => Chain(q)' = Chain(q) /\ Chain(q) \in Issued
    BY <2>1, <2>4, <2>5 DEF Chain, RootsOK
  <2>7. \A j \in Live : token[j].root \in Issued /\ token'[j].root = token[j].root
    BY <2>1, <2>2 DEF RootsOK
  <2>8. CASE job[r].op = "login"
    <3>1. token'[k].root = k
      BY <2>1, <2>8 DEF RootOf
    <3>2. OneSessionPerLogin'
      BY <2>1, <2>4, <2>6, <2>7, <3>1 DEF OneSessionPerLogin
    <3>3. QED BY <2>1, <2>3, <3>2 DEF ConsumersOK
  <2>9. CASE job[r].op = "refresh"
    <3>1. token'[k].root = Chain(r) /\ Renewing(r)
      BY <1>2, <2>1, <2>9 DEF RootOf, Chain, Renewing, Issue
    <3>2. OneSessionPerLogin'
      BY <2>1, <2>4, <2>6, <2>7, <3>1 DEF OneSessionPerLogin
    <3>3. QED BY <2>1, <2>3, <3>2 DEF ConsumersOK
  <2>10. QED BY <1>2, <2>8, <2>9 DEF Issue, SlotsOK
<1>3. ASSUME NEW r \in Requests, Consume(r)
      PROVE  ConsumersOK' /\ OneSessionPerLogin'
  <2>1. Live' = Live /\ Issued' = Issued
    BY <1>3 DEF Consume, Live, Issued
  <2>2. ConsumersOK'
    BY <1>3, <2>1 DEF Consume, Spends, TokenLocked, ConsumersOK, TypeOK
  <2>3. \A q \in Requests : Renewing(q)' => Renewing(q) /\ Chain(q)' = Chain(q)
    BY <1>3 DEF Consume, Renewing, Chain, TypeOK
  <2>4. OneSessionPerLogin'
    BY <1>3, <2>1, <2>3 DEF Consume, OneSessionPerLogin
  <2>5. QED BY <2>2, <2>4
<1>4. ASSUME NEW r \in Requests, DetectReuse(r) \/ UpdateUser(r) \/ RevokeAll(r)
      PROVE  ConsumersOK' /\ OneSessionPerLogin'
  <2>1. \A q \in Requests : pc'[q] = "consumed" =>
          pc[q] = "consumed" /\ job'[q].token = job[q].token
    BY <1>4 DEF DetectReuse, UpdateUser, RevokeAll, TypeOK
  <2>2. \A q \in Requests : Renewing(q)' =>
          Renewing(q) /\ job'[q].token = job[q].token
    BY <1>4 DEF DetectReuse, UpdateUser, RevokeAll, TypeOK, Renewing
  <2>3. RevokesRows({})
    BY <1>4, RevokingNone DEF DetectReuse, UpdateUser, RevokeAll
  <2>4. QED BY <2>1, <2>2, <2>3, FewerKeepChains
<1>5. ASSUME NEW r \in Requests, Settle(r)
      PROVE  ConsumersOK' /\ OneSessionPerLogin'
  <2>1. /\ job[r].token \in Live
        /\ RevokesRows({job[r].token})
        /\ Issued' = Issued /\ Live' = Live \ {job[r].token}
        /\ \A k \in Issued : token'[k].root = token[k].root
    BY <1>5, SettleRevokes
  <2>2. Live \subseteq Issued
    BY DEF Live
  <2>3. \A q \in Requests : q # r /\ pc[q] = "consumed" => job[q].token # job[r].token
    BY <1>5 DEF ConsumersOK, Settle
  <2>4. CASE End(r)
    BY <2>1, <2>2, <2>3, <2>4, EndKeepsChains
  <2>5. CASE pc' = [pc EXCEPT ![r] = "issuing"] /\ UNCHANGED job
    <3>1. \A q \in Requests : pc'[q] = "consumed" => q # r /\ pc[q] = "consumed"
      BY <2>5 DEF TypeOK
    <3>2. ConsumersOK'
      BY <2>1, <2>3, <2>5, <3>1 DEF ConsumersOK
    <3>3. \A q \in Requests : Renewing(q)' =>
            (q = r \/ Renewing(q)) /\ job[q].token \in Issued
      BY <1>5, <2>1, <2>2, <2>5 DEF TypeOK, Renewing, SlotsOK
    <3>4. \A q \in Requests : Renewing(q)' => Chain(q)' = Chain(q)
      BY <2>1, <2>5, <3>3 DEF Chain
    <3>5. \A k \in Live' : k \in Live /\ token'[k].root = token[k].root
                         /\ token[k].root # Chain(r)
      BY <2>1, <2>2 DEF OneSessionPerLogin, Chain
    <3>6. \A q \in Requests : Renewing(q) => Chain(q) # Chain(r)
      BY <2>1 DEF OneSessionPerLogin, Chain
    <3>7. OneSessionPerLogin'
      BY <3>3, <3>4, <3>5, <3>6 DEF OneSessionPerLogin
    <3>8. QED BY <3>2, <3>7
  <2>6. QED BY <1>5, <2>4, <2>5 DEF Settle
<1>6. ASSUME NEW r \in Requests, Commit(r)
      PROVE  ConsumersOK' /\ OneSessionPerLogin'
  <2>1. RevokesRows(doomed[r]) /\ doomed[r] \in SUBSET Issued
    BY <1>6 DEF Commit, Revoked, RevokesRows, TypeOK, RevokesOwnRows
  <2>2. \A q \in Requests : pc'[q] = "consumed" =>
          /\ pc[q] = "consumed" /\ job'[q].token = job[q].token
          /\ job[q].token \notin doomed[r]
    BY <1>6 DEF Commit, End, TypeOK, WrittenOK
  <2>3. \A q \in Requests : Renewing(q)' =>
          Renewing(q) /\ job'[q].token = job[q].token
    BY <1>6 DEF Commit, End, TypeOK, Renewing
  <2>4. QED BY <2>1, <2>2, <2>3, FewerKeepChains
<1>7. ASSUME NEW r \in Requests, Abort(r) \/ Refuse(r)
      PROVE  ConsumersOK' /\ OneSessionPerLogin'
  <2>1. RevokesRows({})
    BY <1>7, RevokingNone DEF Abort, Refuse
  <2>2. QED BY <1>7, <2>1, EndKeepsChains DEF Abort, Refuse
<1>8. ASSUME NEW k \in Tokens, Logout(k)
      PROVE  ConsumersOK' /\ OneSessionPerLogin'
  <2>1. k \in Issued /\ RevokesRows({k})
    BY <1>8, RevokedRow DEF Logout, RevokesRows
  <2>2. \A q \in Requests : pc[q] = "consumed" => job[q].token # k
    BY <1>8 DEF Logout, TokenLocked
  <2>3. \A q \in Requests : Renewing(q)' => Renewing(q)
    BY <1>8 DEF Logout, Renewing
  <2>4. QED BY <1>8, <2>1, <2>2, <2>3, FewerKeepChains DEF Logout
<1>9. ASSUME UNCHANGED <<token, pc, job>>
      PROVE  ConsumersOK' /\ OneSessionPerLogin'
  BY <1>9 DEF ConsumersOK, OneSessionPerLogin, Renewing, Chain, Live, Issued
<1>10. ASSUME NEW u \in Users, Restore(u)
       PROVE  ConsumersOK' /\ OneSessionPerLogin'
  BY <1>9, <1>10 DEF Restore
<1>11. QED
  BY <1>1, <1>2, <1>3, <1>4, <1>5, <1>6, <1>7, <1>8, <1>9, <1>10 DEF Next, vars

LEMMA ChainInvInit == Init => ChainInv
BY TypeInvInit
   DEF Init, ChainInv, ConsumersOK, WrittenOK, OneSessionPerLogin, Live, Issued, Renewing

\* A login is one session for ever: OneSessionPerLogin, for any number of requests
\* presenting any tokens.
THEOREM OneSession == Spec => []OneSessionPerLogin
<1>1. ChainInv => OneSessionPerLogin
  BY DEF ChainInv
<1>2. QED BY <1>1, ChainInvInit, ChainInvStep, PTL DEF Spec

----------------------------------------------------------------------------
\* What ChainState says, case by case.
LEMMA ChainCases ==
  ASSUME NEW c \in Tokens
  PROVE  /\ ~Begun(c) => ChainState[c] = "none"
         /\ Begun(c) /\ Lives(c) => ChainState[c] = "live"
         /\ Begun(c) /\ ~Lives(c) /\ Continued(c) => ChainState[c] = "renewing"
         /\ Begun(c) /\ ~Lives(c) /\ ~Continued(c) => ChainState[c] = "ended"
BY DEF ChainState

\* The same, of the next state.
LEMMA ChainCasesNext ==
  ASSUME NEW c \in Tokens
  PROVE  /\ ~Begun(c)' => ChainState'[c] = "none"
         /\ Begun(c)' /\ Lives(c)' => ChainState'[c] = "live"
         /\ Begun(c)' /\ ~Lives(c)' /\ Continued(c)' => ChainState'[c] = "renewing"
         /\ Begun(c)' /\ ~Lives(c)' /\ ~Continued(c)' => ChainState'[c] = "ended"
BY DEF ChainState

LEMMA ChainStateIsFunction ==
  /\ ChainState = [c \in Tokens |-> ChainState[c]]
  /\ ChainState' = [c \in Tokens |-> ChainState'[c]]
BY DEF ChainState

\* One chain moves, the others stay.
LEMMA OneMoves ==
  ASSUME NEW c \in Tokens, NEW from, NEW to, ChainState[c] = from,
         ChainState'[c] = to,
         \A d \in Tokens \ {c} : ChainState'[d] = ChainState[d]
  PROVE  Chains!Moves(c, from, to)
<1>1. ChainState' = [ChainState EXCEPT ![c] = to]
  BY ChainStateIsFunction
<1>2. QED BY <1>1 DEF Chains!Moves

LEMMA NoneMoves ==
  ASSUME \A d \in Tokens : ChainState'[d] = ChainState[d]
  PROVE  UNCHANGED ChainState
BY ChainStateIsFunction

\* Revoking rows ends the chains whose live rows they are, if the same requests go on
\* continuing the same chains.
LEMMA RevokingEndsChains ==
  ASSUME ChainInv, NEW S \in SUBSET Issued, RevokesRows(S),
         \A q \in Requests : Renewing(q)' <=> Renewing(q),
         \A q \in Requests : Renewing(q) => job'[q].token = job[q].token
  PROVE  Chains!Next
<1> DEFINE E == {c \in Tokens : \E k \in S \cap Live : token[k].root = c}
<1>1. /\ Issued' = Issued /\ Live' = Live \ S
      /\ \A k \in Issued : token'[k].root = token[k].root
  BY RevokedRows DEF ChainInv, TypeInv, RevokesRows
<1>2. Live \subseteq Issued /\ Issued \subseteq Tokens
  BY DEF Live, Issued
<1>3. \A q \in Requests : Renewing(q) => job[q].token \in Issued
  BY DEF ChainInv, TypeInv, SlotsOK, Renewing
<1>4. \A q \in Requests : Renewing(q) => Chain(q)' = Chain(q)
  BY <1>1, <1>3 DEF Chain
<1>5. \A c \in Tokens : Begun(c)' <=> Begun(c)
  BY <1>1 DEF Begun
<1>6. \A c \in Tokens : Continued(c)' <=> Continued(c)
  BY <1>4 DEF Continued
<1>7. \A c \in E : Begun(c) /\ Lives(c) /\ ~Lives(c)' /\ ~Continued(c)
  BY <1>1, <1>2 DEF Begun, Lives, Continued, ChainInv, TypeInv, RootsOK,
                   OneSessionPerLogin
<1>8. \A c \in Tokens \ E : Lives(c)' <=> Lives(c)
  BY <1>1, <1>2 DEF Lives
<1>9. \A c \in E : ChainState[c] = "live" /\ ChainState'[c] = "ended"
  BY <1>5, <1>6, <1>7, ChainCases, ChainCasesNext
<1>10. \A c \in Tokens \ E : ChainState'[c] = ChainState[c]
  BY <1>5, <1>6, <1>8, ChainCases, ChainCasesNext
<1>11. ChainState' = [c \in Tokens |-> IF c \in E THEN "ended" ELSE ChainState[c]]
  BY <1>9, <1>10, ChainStateIsFunction
<1>12. Chains!EndAll(E)
  BY <1>9, <1>11 DEF Chains!EndAll
<1>13. QED BY <1>12 DEF Chains!Next

\* A step after which the same requests continue the same chains and the rows are as
\* they were.
LEMMA StutterStep ==
  ASSUME ChainInv, UNCHANGED token,
         \A q \in Requests : Renewing(q)' <=> Renewing(q),
         \A q \in Requests : Renewing(q) => job'[q].token = job[q].token
  PROVE  UNCHANGED ChainState
<1>1. \A c \in Tokens : /\ Begun(c)' <=> Begun(c)
                        /\ Lives(c)' <=> Lives(c)
  BY DEF Begun, Lives, Live, Issued
<1>2. \A c \in Tokens : Continued(c)' <=> Continued(c)
  BY DEF Continued, Chain
<1>3. QED BY <1>1, <1>2, ChainCases, ChainCasesNext, NoneMoves

LEMMA IssueIsChainStep ==
  ASSUME ChainInv, NEW r \in Requests, Issue(r)
  PROVE  Chains!Next
<1>1. PICK k \in Tokens \ Issued :
         /\ Issued' = Issued \cup {k} /\ Live' = Live \cup {k}
         /\ token'[k].root = RootOf(r, k)
         /\ \A j \in Issued : token'[j] = token[j]
  BY IssueAdds
<1>2. Live \subseteq Issued /\ Issued \subseteq Tokens
  BY DEF Live, Issued
<1>3. \A j \in Issued : token[j].root \in Issued
  BY DEF ChainInv, TypeInv, RootsOK
<1>4. \A q \in Requests : Renewing(q)' <=> q # r /\ Renewing(q)
  BY DEF Issue, End, ChainInv, TypeInv, TypeOK, Renewing
<1>5. \A q \in Requests : Renewing(q) => job[q].token \in Issued
  BY DEF ChainInv, TypeInv, SlotsOK, Renewing
<1>6. \A q \in Requests : Renewing(q)' => Chain(q)' = Chain(q) /\ Chain(q) \in Issued
  BY <1>1, <1>3, <1>4, <1>5 DEF Chain, Issue, End, ChainInv, TypeInv, TypeOK
<1>7. CASE job[r].op = "login"
  <2>1. token'[k].root = k /\ ~Renewing(r)
    BY <1>1, <1>7 DEF RootOf, Renewing
  <2>2. \A c \in Tokens \ {k} : /\ Begun(c)' <=> Begun(c)
                                /\ Lives(c)' <=> Lives(c)
                                /\ Continued(c)' <=> Continued(c)
    BY <1>1, <1>2, <1>4, <1>6, <2>1 DEF Begun, Lives, Continued
  <2>3. ~Begun(k) /\ Begun(k)' /\ Lives(k)'
    BY <1>1, <2>1 DEF Begun, Lives
  <2>4. ChainState[k] = "none" /\ ChainState'[k] = "live"
    BY <2>3, ChainCases, ChainCasesNext
  <2>5. \A c \in Tokens \ {k} : ChainState'[c] = ChainState[c]
    BY <2>2, ChainCases, ChainCasesNext
  <2>6. Chains!Begin(k)
    BY <2>4, <2>5, OneMoves DEF Chains!Begin
  <2>7. QED BY <2>6 DEF Chains!Next
<1>8. CASE job[r].op = "refresh"
  <2>0. PICK d : d = Chain(r)
    OBVIOUS
  <2>1. token'[k].root = d /\ Renewing(r)
    BY <2>0, <1>1, <1>8 DEF RootOf, Renewing, Chain, Issue
  <2>2. d \in Issued /\ token[d].root = d /\ d # k
    BY <2>0, <1>5, <2>1 DEF ChainInv, TypeInv, RootsOK, Chain
  <2>3. \A c \in Tokens : Begun(c)' <=> Begun(c)
    BY <2>0, <1>1, <1>2, <2>1, <2>2 DEF Begun
  <2>4. \A c \in Tokens \ {d} : /\ Lives(c)' <=> Lives(c)
                                /\ Continued(c)' <=> Continued(c)
    BY <2>0, <1>1, <1>2, <1>4, <1>6, <2>1 DEF Lives, Continued
  <2>5. Begun(d) /\ ~Lives(d) /\ Continued(d) /\ Lives(d)'
    BY <2>0, <1>1, <1>2, <2>1, <2>2 DEF Begun, Lives, Continued, ChainInv, OneSessionPerLogin
  <2>6. d \in Tokens
    BY <2>0, <1>2, <2>2
  <2>7. ChainState[d] = "renewing" /\ ChainState'[d] = "live"
    BY <2>0, <2>3, <2>5, <2>6, ChainCases, ChainCasesNext
  <2>8. \A c \in Tokens \ {d} : ChainState'[c] = ChainState[c]
    BY <2>0, <2>3, <2>4, ChainCases, ChainCasesNext
  <2>9. Chains!Renew(d)
    BY <2>0, <2>6, <2>7, <2>8, OneMoves DEF Chains!Renew
  <2>10. QED BY <2>0, <2>6, <2>9 DEF Chains!Next
<1>9. QED BY <1>7, <1>8 DEF Issue, ChainInv, TypeInv, SlotsOK

LEMMA SettleIsChainStep ==
  ASSUME ChainInv, NEW r \in Requests, Settle(r)
  PROVE  Chains!Next
<1>1. /\ job[r].token \in Live /\ job[r].op = "refresh"
      /\ RevokesRows({job[r].token})
      /\ Issued' = Issued /\ Live' = Live \ {job[r].token}
      /\ \A k \in Issued : token'[k].root = token[k].root
  BY SettleRevokes
<1>2. Live \subseteq Issued /\ Issued \subseteq Tokens
  BY DEF Live, Issued
<1>3. CASE End(r)
  <2>1. \A q \in Requests : /\ Renewing(q)' <=> Renewing(q)
                            /\ Renewing(q) => job'[q].token = job[q].token
    BY <1>3 DEF Settle, End, Renewing, ChainInv, TypeInv, TypeOK
  <2>2. QED BY <1>1, <1>2, <2>1, RevokingEndsChains
<1>4. CASE pc' = [pc EXCEPT ![r] = "issuing"] /\ UNCHANGED job
  <2>0. PICK d : d = Chain(r)
    OBVIOUS
  <2>1. d \in Issued /\ token[d].root = d /\ d \in Tokens
    BY <2>0, <1>1, <1>2 DEF Chain, ChainInv, TypeInv, RootsOK
  <2>2. \A q \in Requests : Renewing(q)' <=> q = r \/ Renewing(q)
    BY <2>0, <1>1, <1>4 DEF Renewing, ChainInv, TypeInv, TypeOK
  <2>3. \A q \in Requests : Renewing(q)' => job[q].token \in Issued
    BY <2>0, <1>1, <1>2, <2>2 DEF ChainInv, TypeInv, SlotsOK, Renewing
  <2>4. \A q \in Requests : Renewing(q)' => Chain(q)' = Chain(q)
    BY <2>0, <1>1, <1>4, <2>3 DEF Chain
  <2>5. \A c \in Tokens : Begun(c)' <=> Begun(c)
    BY <2>0, <1>1 DEF Begun
  <2>6. \A c \in Tokens \ {d} : /\ Lives(c)' <=> Lives(c)
                                /\ Continued(c)' <=> Continued(c)
    BY <2>0, <1>1, <1>2, <2>2, <2>4 DEF Lives, Continued, Chain
  <2>7. Begun(d) /\ Lives(d) /\ ~Lives(d)' /\ Continued(d)'
    BY <2>0, <1>1, <1>2, <2>1, <2>2, <2>4
       DEF Begun, Lives, Continued, Chain, ChainInv, OneSessionPerLogin
  <2>8. ChainState[d] = "live" /\ ChainState'[d] = "renewing"
    BY <2>0, <2>1, <2>5, <2>7, ChainCases, ChainCasesNext
  <2>9. \A c \in Tokens \ {d} : ChainState'[c] = ChainState[c]
    BY <2>0, <2>5, <2>6, ChainCases, ChainCasesNext
  <2>10. Chains!Spend(d)
    BY <2>0, <2>1, <2>8, <2>9, OneMoves DEF Chains!Spend
  <2>11. QED BY <2>0, <2>1, <2>10 DEF Chains!Next
<1>5. QED BY <1>3, <1>4 DEF Settle

\* A refresh that fails between spending and issuing ends its chain.
LEMMA AbortIsChainStep ==
  ASSUME ChainInv, NEW r \in Requests, Abort(r)
  PROVE  [Chains!Next]_ChainState
<1>1. \A q \in Requests : /\ Renewing(q)' <=> q # r /\ Renewing(q)
                          /\ Renewing(q)' => job'[q].token = job[q].token
  BY DEF Abort, End, Renewing, ChainInv, TypeInv, TypeOK
<1>2. CASE ~Renewing(r)
  BY <1>1, <1>2, StutterStep DEF Abort
<1>3. CASE Renewing(r)
  <2>0. PICK d : d = Chain(r)
    OBVIOUS
  <2>1. d \in Tokens /\ Begun(d)
    BY <2>0, <1>3 DEF Chain, Renewing, Begun, ChainInv, TypeInv, SlotsOK, RootsOK, Issued
  <2>2. \A q \in Requests : Renewing(q)' => Chain(q)' = Chain(q)
    BY <2>0, <1>1 DEF Chain, Abort
  <2>3. \A c \in Tokens : (Begun(c)' <=> Begun(c)) /\ (Lives(c)' <=> Lives(c))
    BY <2>0 DEF Begun, Lives, Live, Issued, Abort
  <2>4. \A c \in Tokens \ {d} : Continued(c)' <=> Continued(c)
    BY <2>0, <1>1, <2>2 DEF Continued
  <2>5. ~Lives(d) /\ Continued(d) /\ ~Continued(d)'
    BY <2>0, <1>1, <1>3, <2>2 DEF Lives, Continued, ChainInv, OneSessionPerLogin
  <2>6. ChainState[d] = "renewing" /\ ChainState'[d] = "ended"
    BY <2>0, <2>1, <2>3, <2>5, ChainCases, ChainCasesNext
  <2>7. \A c \in Tokens \ {d} : ChainState'[c] = ChainState[c]
    BY <2>0, <2>3, <2>4, ChainCases, ChainCasesNext
  <2>8. ChainState' = [c \in Tokens |-> IF c \in {d} THEN "ended" ELSE ChainState[c]]
    BY <2>0, <2>6, <2>7, ChainStateIsFunction
  <2>9. Chains!EndAll({d})
    BY <2>0, <2>6, <2>8 DEF Chains!EndAll
  <2>10. QED BY <2>0, <2>1, <2>9 DEF Chains!Next
<1>4. QED BY <1>2, <1>3

LEMMA StartIsStutter ==
  ASSUME ChainInv, NEW r \in Requests, NEW stage, NEW j, Start(r, stage, j),
         stage = "issuing" => j.op # "refresh"
  PROVE  UNCHANGED ChainState
<1>1. \A q \in Requests : /\ Renewing(q)' <=> Renewing(q)
                          /\ Renewing(q) => job'[q].token = job[q].token
  BY DEF Start, Renewing, ChainInv, TypeInv, TypeOK
<1>2. QED BY <1>1, StutterStep DEF Start

LEMMA StepIsChainStep ==
  ASSUME ChainInv, [Next]_vars
  PROVE  [Chains!Next]_ChainState
<1>1. ASSUME NEW r \in Requests, Login(r) \/ Refresh(r) \/ ChangePassword(r) \/ Remove(r)
      PROVE  UNCHANGED ChainState
  <2>1. PICK stage, j : Start(r, stage, j) /\ (stage = "issuing" => j.op # "refresh")
    <3>1. CASE Login(r)
      BY <3>1 DEF Login
    <3>2. CASE Refresh(r)
      BY <3>2 DEF Refresh
    <3>3. CASE ChangePassword(r)
      BY <3>3 DEF ChangePassword
    <3>4. CASE Remove(r)
      BY <3>4 DEF Remove
    <3>5. QED BY <1>1, <3>1, <3>2, <3>3, <3>4
  <2>2. QED BY <2>1, StartIsStutter
<1>2. ASSUME NEW r \in Requests, \/ Consume(r) \/ DetectReuse(r) \/ UpdateUser(r)
                                \/ RevokeAll(r) \/ Refuse(r)
      PROVE  UNCHANGED ChainState
  <2>1. \A q \in Requests : /\ Renewing(q)' <=> Renewing(q)
                            /\ Renewing(q) => job'[q].token = job[q].token
    BY <1>2 DEF Consume, DetectReuse, UpdateUser, RevokeAll, Refuse, End, Renewing,
                ChainInv, TypeInv, TypeOK
  <2>2. QED
    BY <1>2, <2>1, StutterStep DEF Consume, DetectReuse, UpdateUser, RevokeAll, Refuse
<1>3. ASSUME NEW r \in Requests, Commit(r)
      PROVE  Chains!Next
  <2>1. RevokesRows(doomed[r]) /\ doomed[r] \in SUBSET Issued
    BY <1>3 DEF Commit, Revoked, RevokesRows, ChainInv, TypeInv, TypeOK, RevokesOwnRows
  <2>2. \A q \in Requests : /\ Renewing(q)' <=> Renewing(q)
                            /\ Renewing(q) => job'[q].token = job[q].token
    BY <1>3 DEF Commit, End, Renewing, ChainInv, TypeInv, TypeOK
  <2>3. QED BY <2>1, <2>2, RevokingEndsChains
<1>4. ASSUME NEW k \in Tokens, Logout(k)
      PROVE  Chains!Next
  <2>1. {k} \in SUBSET Issued /\ RevokesRows({k})
    BY <1>4, RevokedRow DEF Logout, RevokesRows, ChainInv, TypeInv
  <2>2. \A q \in Requests : /\ Renewing(q)' <=> Renewing(q)
                            /\ Renewing(q) => job'[q].token = job[q].token
    BY <1>4 DEF Logout, Renewing
  <2>3. QED BY <2>1, <2>2, RevokingEndsChains
<1>5. ASSUME UNCHANGED <<token, pc, job>>
      PROVE  UNCHANGED ChainState
  BY <1>5, StutterStep DEF Renewing
<1>6. ASSUME NEW u \in Users, Restore(u)
      PROVE  UNCHANGED ChainState
  BY <1>5, <1>6 DEF Restore
<1>7. CASE UNCHANGED vars
  BY <1>5, <1>7 DEF vars
<1>8. QED
  BY <1>1, <1>2, <1>3, <1>4, <1>6, <1>7, IssueIsChainStep, SettleIsChainStep,
     AbortIsChainStep DEF Next

LEMMA ChainInitially == Init => Chains!Init
<1> SUFFICES ASSUME Init
             PROVE  ChainState = [c \in Tokens |-> "none"]
  BY DEF Chains!Init
<1>1. \A c \in Tokens : ~Begun(c)
  BY DEF Init, Begun, Issued
<1>2. QED BY <1>1, ChainCases, ChainStateIsFunction

\* Sessions are the chains of SessionChains: ImplementsChains, for any requests.
THEOREM SessionsRefineChains == Spec => ImplementsChains
BY ChainInvInit, ChainInvStep, ChainInitially, StepIsChainStep, PTL
   DEF Spec, ImplementsChains, Chains!Spec

----------------------------------------------------------------------------
\* What is needed of the steps of two requests for OnlyTheOverlappingOutlive to stay
\* true.  The tokens of a chain are one user's ...
OwnersOK == \A k \in Issued : token[token[k].root].owner = token[k].owner

\* ... a refresh is about the token it presented ...
RefreshOK ==
  \A r \in Requests : pc[r] # "idle" /\ job[r].op = "refresh" =>
    token[job[r].token].owner = job[r].user /\ token[job[r].token].epoch = job[r].epoch

\* ... what is about to be issued is good, or no revocation can be blamed ...
IssuingOK ==
  \A r \in Requests : pc[r] = "issuing" /\ ~IssuesLate(r) =>
    /\ user[job[r].user].active /\ user[job[r].user].epoch = job[r].epoch
    /\ job[r].op = "refresh" => Chain(r) \notin burnt

\* ... a revocation has found all there was to revoke ...
DoomedOK ==
  \A r \in Requests : pc[r] \in {"revoking", "written"} =>
    LiveOf(job[r].user) \subseteq doomed[r] \cup late

\* ... whoever was about to issue a token then, or set out to since, is known ...
CrossedOK ==
  \A r, q \in Requests :
    pc[r] \in {"revoking", "written"} /\ Granting(q, job[r].user) => q \in crossed

\* ... and nothing is left of the session of a token that came back.
RejectedOK ==
  \A r \in Requests : pc[r] = "rejected" =>
    /\ \A k \in Live : token[k].root = Chain(r) => k \in late
    /\ \A q \in Requests : Renewing(q) /\ Chain(q) = Chain(r) => IssuesLate(q)

OverlapInv == /\ ChainInv /\ OwnersOK /\ RefreshOK /\ IssuingOK /\ DoomedOK /\ CrossedOK
              /\ RejectedOK /\ burnt \subseteq Issued /\ OnlyTheOverlappingOutlive

\* Revoking rows leaves alone all that is said of a row but that it is alive.
LEMMA RevokedKeepTheRest ==
  ASSUME TypeInv, NEW S \in SUBSET Issued, RevokesRows(S)
  PROVE  /\ Issued' = Issued /\ Live' = Live \ S /\ Live \subseteq Issued
         /\ \A k \in Issued : /\ token[k].root \in Issued
                              /\ token'[k].owner = token[k].owner
                              /\ token'[k].root = token[k].root
                              /\ token'[k].epoch = token[k].epoch
<1>1. \A k \in Issued : token'[k].epoch = token[k].epoch
  BY IssuedIsRow DEF TypeInv, RevokesRows, TokenRow, Issued
<1>2. QED BY <1>1, RevokedRows DEF TypeInv, RootsOK, RevokesRows, Live

\* The other requests stay where they are, and their histories with them.
OthersStay(r) ==
  \A q \in Requests \ {r} : /\ pc'[q] = pc[q] /\ job'[q] = job[q] /\ doomed'[q] = doomed[q]
                            /\ q \in crossed => q \in crossed'

LEMMA CrossedStep ==
  ASSUME TypeInv, CrossedOK, [Next]_vars
  PROVE  CrossedOK'
<1> USE DEF TypeInv, CrossedOK, Granting
<1>1. ASSUME NEW r \in Requests, OthersStay(r),
             pc'[r] \in {"revoking", "written", "consumed", "issuing"} =>
               job'[r] = job[r] /\ (r \in crossed => r \in crossed'),
             pc'[r] \in {"revoking", "written"} => pc[r] \in {"revoking", "written"},
             pc'[r] \in {"consumed", "issuing"} => pc[r] \in {"consumed", "issuing"}
      PROVE  CrossedOK'
  BY <1>1 DEF OthersStay
<1>2. ASSUME NEW r \in Requests, Refresh(r) \/ ChangePassword(r) \/ Remove(r)
      PROVE  CrossedOK'
  BY <1>1, <1>2 DEF OthersStay, Refresh, ChangePassword, Remove, Start, TypeOK
<1>3. ASSUME NEW r \in Requests, \/ Issue(r) \/ Settle(r) \/ RevokeAll(r)
                                \/ Commit(r) \/ Refuse(r) \/ Abort(r)
      PROVE  CrossedOK'
  <2>1. CASE Issue(r) \/ Refuse(r) \/ Abort(r)
    BY <1>1, <2>1 DEF OthersStay, Issue, Refuse, Abort, End, TypeOK
  <2>2. CASE Settle(r)
    BY <1>1, <2>2 DEF OthersStay, Settle, End, TypeOK
  <2>3. CASE RevokeAll(r)
    BY <1>1, <2>3 DEF OthersStay, RevokeAll, TypeOK
  <2>4. CASE Commit(r)
    BY <1>1, <2>4 DEF OthersStay, Commit, End, TypeOK
  <2>5. QED BY <1>3, <2>1, <2>2, <2>3, <2>4
<1>4. ASSUME NEW r \in Requests, Login(r)
      PROVE  CrossedOK'
  BY <1>4 DEF Login, Start, Grants, Revoking, TypeOK
<1>5. ASSUME NEW r \in Requests, Consume(r)
      PROVE  CrossedOK'
  BY <1>5 DEF Consume, Grants, Revoking, TypeOK
<1>6. ASSUME NEW r \in Requests, DetectReuse(r) \/ UpdateUser(r)
      PROVE  CrossedOK'
  BY <1>6 DEF DetectReuse, UpdateUser, Crosses, TypeOK
<1>7. ASSUME UNCHANGED <<pc, job, crossed>>
      PROVE  CrossedOK'
  BY <1>7
<1>8. QED BY <1>2, <1>3, <1>4, <1>5, <1>6, <1>7 DEF Next, Logout, Restore, vars

\* A step of one request that at most revokes rows: what it leaves open must be as the
\* invariant says.
LEMMA MovesKeepOverlaps ==
  ASSUME OverlapInv, ChainInv', CrossedOK', NEW r \in Requests,
         NEW S \in SUBSET Issued, RevokesRows(S), UNCHANGED <<user, burnt, late>>,
         OthersStay(r),
         pc'[r] # "idle" /\ job'[r].op = "refresh" =>
           /\ job'[r].token \in Issued
           /\ token[job'[r].token].owner = job'[r].user
           /\ token[job'[r].token].epoch = job'[r].epoch,
         pc'[r] = "issuing" /\ ~IssuesLate(r)' =>
           /\ user[job'[r].user].active /\ user[job'[r].user].epoch = job'[r].epoch
           /\ job'[r].op = "refresh" => token[job'[r].token].root \notin burnt,
         pc'[r] \in {"revoking", "written"} =>
           LiveOf(job'[r].user) \subseteq doomed'[r] \cup late,
         pc'[r] = "rejected" =>
           \A k \in Live \ S : token[k].root = token[job'[r].token].root => k \in late,
         pc'[r] = "rejected" =>
           \A q \in Requests \ {r} : Renewing(q) /\ Chain(q) = token[job'[r].token].root =>
                                       IssuesLate(q),
         pc'[r] = "issuing" /\ job'[r].op = "refresh" =>
           \A q \in Requests \ {r} :
             pc[q] = "rejected" /\ Chain(q) = token[job'[r].token].root => IssuesLate(r)'
  PROVE  OverlapInv'
<1> USE DEF OverlapInv
<1>1. /\ Issued' = Issued /\ Live' = Live \ S /\ Live \subseteq Issued
      /\ \A k \in Issued : /\ token[k].root \in Issued
                           /\ token'[k].owner = token[k].owner
                           /\ token'[k].root = token[k].root
                           /\ token'[k].epoch = token[k].epoch
  BY RevokedKeepTheRest DEF ChainInv
<1>2. \A q \in Requests : pc[q] # "idle" /\ job[q].op = "refresh" => job[q].token \in Issued
  BY DEF ChainInv, TypeInv, SlotsOK
<1>3. \A q \in Requests \ {r} :
        /\ pc'[q] = pc[q] /\ job'[q] = job[q] /\ doomed'[q] = doomed[q]
        /\ IssuesLate(q) => IssuesLate(q)'
  BY DEF OthersStay, IssuesLate
<1>4. OwnersOK' /\ burnt' \subseteq Issued'
  BY <1>1 DEF OwnersOK
<1>5. RefreshOK'
  BY <1>1, <1>2, <1>3 DEF RefreshOK
<1>6. IssuingOK'
  BY <1>1, <1>2, <1>3 DEF IssuingOK, Chain
<1>7. DoomedOK'
  BY <1>1, <1>3 DEF DoomedOK, LiveOf
<1>8. RejectedOK'
  <2>1. \A q \in Requests \ {r} : pc[q] = "rejected" => /\ job[q].op = "refresh"
                                                        /\ Chain(q)' = Chain(q)
    BY <1>1, <1>2, <1>3 DEF Chain, ChainInv, TypeInv, SlotsOK
  <2>2. \A q \in Requests \ {r} : Renewing(q)' => Renewing(q) /\ Chain(q)' = Chain(q)
    BY <1>1, <1>2, <1>3 DEF Chain, Renewing
  <2>3. pc'[r] = "rejected" \/ Renewing(r)' => Chain(r)' = token[job'[r].token].root
    BY <1>1 DEF Chain, Renewing, ChainInv, TypeInv, SlotsOK
  <2>4. \A k \in Live' : k \in Live \ S /\ token'[k].root = token[k].root
    BY <1>1
  <2>5. ASSUME NEW p \in Requests, pc'[p] = "rejected", NEW k \in Live',
               token'[k].root = Chain(p)'
        PROVE  k \in late'
    BY <1>3, <2>1, <2>3, <2>4, <2>5 DEF RejectedOK
  <2>6. ASSUME NEW p \in Requests, pc'[p] = "rejected", NEW q \in Requests, Renewing(q)',
               Chain(q)' = Chain(p)'
        PROVE  IssuesLate(q)'
    <3>1. p # r \/ q # r
      BY <2>6 DEF Renewing
    <3>2. CASE p # r /\ q # r
      BY <1>3, <2>1, <2>2, <2>6, <3>2 DEF RejectedOK
    <3>3. CASE p = r /\ q # r
      BY <1>3, <2>2, <2>3, <2>6, <3>3
    <3>4. CASE p # r /\ q = r
      BY <1>3, <2>1, <2>3, <2>6, <3>4 DEF Renewing
    <3>5. QED BY <3>1, <3>2, <3>3, <3>4
  <2>7. QED BY <2>5, <2>6 DEF RejectedOK
<1>9. OnlyTheOverlappingOutlive'
  BY <1>1 DEF OnlyTheOverlappingOutlive, Outlived, ChainInv, TypeInv, TypeOK
<1>10. QED BY <1>4, <1>5, <1>6, <1>7, <1>8, <1>9

LEMMA BeginningKeepsOverlaps ==
  ASSUME OverlapInv, ChainInv', CrossedOK', NEW r \in Requests,
         Login(r) \/ Refresh(r) \/ ChangePassword(r) \/ Remove(r)
  PROVE  OverlapInv'
<1>1. /\ OthersStay(r) /\ RevokesRows({}) /\ UNCHANGED <<user, burnt, late>>
      /\ pc'[r] \in {"issuing", "presented", "changing"}
  BY RevokingNone
     DEF Login, Refresh, ChangePassword, Remove, Start, Grants, OthersStay, OverlapInv,
         ChainInv, TypeInv, TypeOK
<1>2. CASE Login(r)
  BY <1>1, <1>2, MovesKeepOverlaps
     DEF Login, Start, OverlapInv, ChainInv, TypeInv, TypeOK
<1>3. CASE Refresh(r)
  BY <1>1, <1>3, MovesKeepOverlaps
     DEF Refresh, Start, OverlapInv, ChainInv, TypeInv, TypeOK
<1>4. CASE ChangePassword(r) \/ Remove(r)
  BY <1>1, <1>4, MovesKeepOverlaps
     DEF ChangePassword, Remove, Start, OverlapInv, ChainInv, TypeInv, TypeOK
<1>5. QED BY <1>2, <1>3, <1>4

\* What the request holds, on its way from one stage to the next.
LEMMA HeldByRefresh ==
  ASSUME OverlapInv, NEW r \in Requests, pc[r] # "idle", job[r].op = "refresh"
  PROVE  /\ job[r].token \in Issued
         /\ token[job[r].token].owner = job[r].user
         /\ token[job[r].token].epoch = job[r].epoch
         /\ Chain(r) \in Issued /\ token[Chain(r)].owner = job[r].user
BY DEF OverlapInv, ChainInv, TypeInv, SlotsOK, RefreshOK, OwnersOK, RootsOK, Chain

LEMMA StepsKeepOverlaps ==
  ASSUME OverlapInv, ChainInv', CrossedOK', NEW r \in Requests,
         Consume(r) \/ DetectReuse(r) \/ UpdateUser(r) \/ RevokeAll(r) \/ Abort(r)
  PROVE  OverlapInv'
<1>1. /\ OthersStay(r) /\ RevokesRows({}) /\ UNCHANGED <<user, burnt, late>>
      /\ pc[r] # "idle" /\ pc'[r] \in {"idle", "consumed", "revoking", "written"}
      /\ pc'[r] # "idle" => job'[r] = job[r]
  BY RevokingNone
     DEF Consume, DetectReuse, UpdateUser, RevokeAll, Abort, End, Grants, Crosses,
         OthersStay, OverlapInv, ChainInv, TypeInv, TypeOK
<1>2. pc'[r] \in {"revoking", "written"} => LiveOf(job[r].user) \subseteq doomed'[r] \cup late
  BY DEF Consume, DetectReuse, UpdateUser, RevokeAll, Abort, End, DoomedOK,
         OverlapInv, ChainInv, TypeInv, TypeOK
<1>3. QED BY <1>1, <1>2, HeldByRefresh, MovesKeepOverlaps

LEMMA SettleKeepsOverlaps ==
  ASSUME OverlapInv, ChainInv', CrossedOK', NEW r \in Requests, Settle(r)
  PROVE  OverlapInv'
<1>1. /\ job[r].token \in Live /\ job[r].op = "refresh" /\ pc[r] = "consumed"
      /\ RevokesRows({job[r].token}) /\ job[r].token \in Issued
  BY SettleRevokes DEF OverlapInv, Settle, Live
<1>2. /\ token[job[r].token].owner = job[r].user /\ token[job[r].token].epoch = job[r].epoch
      /\ job[r].token \notin late => /\ user[job[r].user].epoch = job[r].epoch
                                     /\ Chain(r) \notin burnt
  BY <1>1 DEF OverlapInv, RefreshOK, OnlyTheOverlappingOutlive, Outlived, Chain
<1>3. \A q \in Requests : pc[q] = "rejected" /\ Chain(q) = Chain(r) => job[r].token \in late
  BY <1>1 DEF OverlapInv, RejectedOK, Chain
<1>4. /\ UNCHANGED <<user, burnt, late>> /\ OthersStay(r)
      /\ \/ pc'[r] = "issuing" /\ user[job[r].user].active /\ job'[r] = job[r]
         \/ pc'[r] = "idle"
  BY DEF Settle, End, OthersStay, OverlapInv, ChainInv, TypeInv, TypeOK
<1>5. CASE pc'[r] = "idle"
  BY <1>1, <1>4, <1>5, MovesKeepOverlaps
<1>6. CASE pc'[r] = "issuing" /\ user[job[r].user].active /\ job'[r] = job[r]
  <2>1. job[r].token \in late => IssuesLate(r)'
    BY <1>4, <1>6 DEF IssuesLate
  <2>2. QED BY <1>1, <1>2, <1>3, <1>4, <1>6, <2>1, MovesKeepOverlaps DEF Chain
<1>7. QED BY <1>4, <1>5, <1>6

LEMMA IssueKeepsOverlaps ==
  ASSUME OverlapInv, ChainInv', CrossedOK', NEW r \in Requests, Issue(r)
  PROVE  OverlapInv'
<1> USE DEF OverlapInv, ChainInv, TypeInv
<1>1. PICK k \in Tokens \ Issued :
        /\ token' = [token EXCEPT ![k] =
             [owner |-> job[r].user, revoked |-> FALSE, root |-> RootOf(r, k),
              epoch |-> job[r].epoch]]
        /\ late' = late \cup {j \in {k} : IssuesLate(r)}
  BY DEF Issue
<1>2. /\ token'[k].owner = job[r].user /\ token'[k].root = RootOf(r, k)
      /\ token'[k].epoch = job[r].epoch /\ ~token'[k].revoked
      /\ \A j \in Tokens \ {k} : token'[j] = token[j]
  BY <1>1 DEF TypeOK
<1>3. Issued' = Issued \cup {k} /\ Live' = Live \cup {k} /\ Live \subseteq Issued
  <2>1. token'[k] \in TokenRow
    BY <1>1, IssuedRow DEF Issue, TypeOK
  <2>2. Issued' = Issued \cup {k}
    BY <1>2, <2>1, NoRowAssumption DEF Issued, NoRowIsNoToken
  <2>3. QED BY <1>2, <2>2 DEF Live, Issued
<1>4. /\ pc[r] = "issuing" /\ pc'[r] = "idle" /\ UNCHANGED <<user, burnt>>
      /\ OthersStay(r) /\ late \subseteq late' /\ (IssuesLate(r) => k \in late')
  BY <1>1 DEF Issue, End, OthersStay, TypeOK
<1>5. \A q \in Requests \ {r} :
        /\ pc'[q] = pc[q] /\ job'[q] = job[q] /\ doomed'[q] = doomed[q]
        /\ IssuesLate(q) => IssuesLate(q)'
  BY <1>4 DEF OthersStay, IssuesLate
<1>6. /\ job[r].op \in {"login", "refresh"}
      /\ ~IssuesLate(r) => /\ user[job[r].user].active
                           /\ user[job[r].user].epoch = job[r].epoch
                           /\ job[r].op = "refresh" => Chain(r) \notin burnt
      /\ job[r].op = "refresh" => /\ Chain(r) \in Issued
                                  /\ token[Chain(r)].owner = job[r].user
  BY <1>4, HeldByRefresh DEF IssuingOK, SlotsOK
<1>7. \/ RootOf(r, k) = k /\ job[r].op = "login"
      \/ /\ RootOf(r, k) \in Issued /\ RootOf(r, k) = Chain(r) /\ job[r].op = "refresh"
         /\ ~IssuesLate(r) => RootOf(r, k) \notin burnt
         /\ token[RootOf(r, k)].owner = job[r].user
  BY <1>6 DEF RootOf, Chain
<1>8. \A j \in Issued : token'[j] = token[j] /\ token[j].root \in Issued /\ j # k
  BY <1>2 DEF Issued, RootsOK
<1>9. \A q \in Requests : pc[q] # "idle" /\ job[q].op = "refresh" => job[q].token \in Issued
  BY DEF SlotsOK
<1>10. OwnersOK' /\ burnt' \subseteq Issued'
  BY <1>2, <1>3, <1>4, <1>7, <1>8 DEF OwnersOK
<1>11. RefreshOK'
  BY <1>4, <1>5, <1>8, <1>9 DEF RefreshOK
<1>12. IssuingOK'
  BY <1>4, <1>5, <1>8, <1>9 DEF IssuingOK, Chain
<1>13. DoomedOK'
  <2>1. \A q \in Requests \ {r} :
          pc[q] \in {"revoking", "written"} /\ job[q].user = job[r].user => k \in late'
    BY <1>4 DEF CrossedOK, Granting, IssuesLate
  <2>2. QED BY <1>2, <1>3, <1>4, <1>5, <1>8, <2>1 DEF DoomedOK, LiveOf
<1>14. RejectedOK'
  <2>1. \A q \in Requests \ {r} : pc[q] = "rejected" =>
          Chain(q)' = Chain(q) /\ Chain(q) \in Issued
    BY <1>5, <1>8, <1>9 DEF Chain, SlotsOK
  <2>2. \A q \in Requests \ {r} : Renewing(q)' => Renewing(q) /\ Chain(q)' = Chain(q)
    BY <1>5, <1>8, <1>9 DEF Chain, Renewing
  <2>3. ASSUME NEW p \in Requests, pc'[p] = "rejected", token'[k].root = Chain(p)'
        PROVE  k \in late'
    BY <1>2, <1>4, <1>5, <1>7, <1>8, <2>1, <2>3 DEF RejectedOK, Renewing
  <2>4. ASSUME NEW p \in Requests, pc'[p] = "rejected", NEW j \in Live,
               token'[j].root = Chain(p)'
        PROVE  j \in late'
    BY <1>3, <1>4, <1>5, <1>8, <2>1, <2>4 DEF RejectedOK
  <2>5. ASSUME NEW p \in Requests, pc'[p] = "rejected", NEW q \in Requests, Renewing(q)',
               Chain(q)' = Chain(p)'
        PROVE  IssuesLate(q)'
    BY <1>4, <1>5, <2>1, <2>2, <2>5 DEF RejectedOK, Renewing
  <2>6. QED BY <1>3, <2>3, <2>4, <2>5 DEF RejectedOK
<1>15. OnlyTheOverlappingOutlive'
  <2>1. Outlived(k)' => k \in late'
    <3>1. k \notin burnt
      BY <1>8
    <3>2. QED BY <1>2, <1>4, <1>6, <1>7, <3>1 DEF Outlived
  <2>2. ASSUME NEW j \in Live, Outlived(j)'
        PROVE  j \in late'
    BY <1>3, <1>4, <1>8, <2>2 DEF Outlived, OnlyTheOverlappingOutlive
  <2>3. QED BY <1>3, <2>1, <2>2 DEF OnlyTheOverlappingOutlive
<1>16. QED BY <1>10, <1>11, <1>12, <1>13, <1>14, <1>15

\* The scope of a revocation commits: what it leaves of the user is late.
LEMMA CommitKeepsOverlaps ==
  ASSUME OverlapInv, ChainInv', CrossedOK', NEW r \in Requests, Commit(r)
  PROVE  OverlapInv'
<1> USE DEF OverlapInv, ChainInv, TypeInv
<1>1. /\ pc[r] = "written" /\ doomed[r] \in SUBSET Issued /\ RevokesRows(doomed[r])
  BY DEF Commit, Revoked, RevokesRows, TypeOK, RevokesOwnRows
<1>2. OthersStay(r) /\ UNCHANGED <<burnt, late>>
  BY DEF Commit, End, OthersStay, TypeOK
<1>3. \A k \in Live \ doomed[r] : token[k].owner = job[r].user => k \in late
  BY <1>1 DEF DoomedOK, LiveOf
<1>4. \A q \in Requests : pc[q] = "issuing" /\ job[q].user = job[r].user => IssuesLate(q)
  BY <1>1 DEF CrossedOK, Granting, IssuesLate
<1>5. CASE job[r].op = "refresh"
  <2>1. /\ pc'[r] = "rejected" /\ job'[r] = job[r] /\ UNCHANGED user
    BY <1>5 DEF Commit, Updated, TypeOK
  <2>2. /\ job[r].token \in Issued /\ token[job[r].token].owner = job[r].user
        /\ token[job[r].token].epoch = job[r].epoch
        /\ token[Chain(r)].owner = job[r].user
    BY <1>1, <1>5, HeldByRefresh
  <2>3. \A k \in Live \ doomed[r] : token[k].root = Chain(r) => k \in late
    BY <1>3, <2>2 DEF OwnersOK, Live
  <2>4. \A q \in Requests \ {r} : Renewing(q) /\ Chain(q) = Chain(r) => IssuesLate(q)
    BY <1>4, <2>2, HeldByRefresh DEF Renewing
  <2>5. QED
    BY <1>1, <1>2, <2>1, <2>2, <2>3, <2>4, MovesKeepOverlaps DEF Chain
<1>6. CASE job[r].op # "refresh"
  <2>1. pc'[r] = "idle"
    BY <1>6 DEF Commit, End, TypeOK
  <2>2. /\ Issued' = Issued /\ Live' = Live \ doomed[r] /\ Live \subseteq Issued
        /\ \A k \in Issued : /\ token[k].root \in Issued
                             /\ token'[k].owner = token[k].owner
                             /\ token'[k].root = token[k].root
                             /\ token'[k].epoch = token[k].epoch
    BY <1>1, RevokedKeepTheRest
  <2>3. \A v \in Users : v # job[r].user => user'[v] = user[v]
    <3>1. job[r].op = "changePassword" \/ job[r].op = "remove" \/ Updated(r) = user
      BY DEF Updated
    <3>2. QED BY <3>1 DEF Commit, Updated, TypeOK
  <2>4. \A k \in Issued : token[k].owner \in Users
    BY IssuedIsRow DEF TokenRow, Issued
  <2>5. \A q \in Requests \ {r} :
          /\ pc'[q] = pc[q] /\ job'[q] = job[q] /\ doomed'[q] = doomed[q]
          /\ IssuesLate(q) => IssuesLate(q)'
          /\ pc[q] # "idle" => job[q].user \in Users
          /\ pc[q] # "idle" /\ job[q].op = "refresh" => job[q].token \in Issued
    BY <1>2 DEF OthersStay, IssuesLate, SlotsOK, Job
  <2>6. OwnersOK' /\ RefreshOK' /\ burnt' \subseteq Issued'
    BY <1>2, <2>1, <2>2, <2>5 DEF OwnersOK, RefreshOK
  <2>7. IssuingOK'
    BY <1>2, <1>4, <2>1, <2>2, <2>3, <2>5 DEF IssuingOK, Chain
  <2>8. DoomedOK'
    BY <1>2, <2>1, <2>2, <2>5 DEF DoomedOK, LiveOf
  <2>9. RejectedOK'
    <3>1. \A q \in Requests : pc'[q] = "rejected" =>
            q # r /\ pc[q] = "rejected" /\ Chain(q)' = Chain(q)
      BY <2>1, <2>2, <2>5 DEF Chain, SlotsOK
    <3>2. \A q \in Requests : Renewing(q)' => q # r /\ Renewing(q) /\ Chain(q)' = Chain(q)
      BY <2>1, <2>2, <2>5 DEF Chain, Renewing
    <3>3. QED BY <1>2, <2>2, <2>5, <3>1, <3>2 DEF RejectedOK
  <2>10. OnlyTheOverlappingOutlive'
    BY <1>2, <1>3, <2>2, <2>3, <2>4 DEF OnlyTheOverlappingOutlive, Outlived
  <2>11. QED BY <2>6, <2>7, <2>8, <2>9, <2>10
<1>7. QED BY <1>5, <1>6

LEMMA RefuseKeepsOverlaps ==
  ASSUME OverlapInv, ChainInv', CrossedOK', NEW r \in Requests, Refuse(r)
  PROVE  OverlapInv'
<1> USE DEF OverlapInv, ChainInv, TypeInv
<1>1. /\ pc[r] = "rejected" /\ pc'[r] = "idle" /\ job[r].op = "refresh"
      /\ burnt' = burnt \cup {Chain(r)} /\ UNCHANGED <<user, token, late>> /\ OthersStay(r)
  BY DEF Refuse, End, Chain, OthersStay, SlotsOK, TypeOK
<1>2. Issued' = Issued /\ Live' = Live /\ Chain(r) \in Issued
  BY <1>1, HeldByRefresh DEF Issued, Live
<1>3. \A q \in Requests \ {r} :
        /\ pc'[q] = pc[q] /\ job'[q] = job[q] /\ doomed'[q] = doomed[q]
        /\ Chain(q)' = Chain(q) /\ (IssuesLate(q) => IssuesLate(q)')
  BY <1>1 DEF OthersStay, Chain, IssuesLate
<1>4. OwnersOK' /\ RefreshOK' /\ DoomedOK' /\ burnt' \subseteq Issued'
  BY <1>1, <1>2, <1>3 DEF OwnersOK, RefreshOK, DoomedOK, LiveOf
<1>5. IssuingOK'
  BY <1>1, <1>3 DEF IssuingOK, RejectedOK, Renewing
<1>6. RejectedOK'
  BY <1>1, <1>2, <1>3 DEF RejectedOK, Renewing
<1>7. OnlyTheOverlappingOutlive'
  BY <1>1, <1>2 DEF OnlyTheOverlappingOutlive, Outlived, RejectedOK
<1>8. QED BY <1>4, <1>5, <1>6, <1>7

LEMMA LogoutKeepsOverlaps ==
  ASSUME OverlapInv, ChainInv', CrossedOK', NEW k \in Tokens, Logout(k)
  PROVE  OverlapInv'
<1> USE DEF OverlapInv, ChainInv, TypeInv
<1>1. /\ k \in Issued /\ RevokesRows({k})
      /\ UNCHANGED <<user, pc, job, doomed, burnt, crossed, late>>
  BY RevokedRow DEF Logout, RevokesRows
<1>2. /\ Issued' = Issued /\ Live' = Live \ {k} /\ Live \subseteq Issued
      /\ \A j \in Issued : /\ token[j].root \in Issued
                           /\ token'[j].owner = token[j].owner
                           /\ token'[j].root = token[j].root
                           /\ token'[j].epoch = token[j].epoch
  BY <1>1, RevokedKeepTheRest
<1>3. \A q \in Requests :
        /\ pc[q] # "idle" /\ job[q].op = "refresh" => /\ job[q].token \in Issued
                                                      /\ Chain(q)' = Chain(q)
        /\ IssuesLate(q)' <=> IssuesLate(q)
        /\ pc[q] = "rejected" => job[q].op = "refresh"
  BY <1>1, <1>2 DEF SlotsOK, Chain, IssuesLate
<1>4. OwnersOK' /\ RefreshOK' /\ DoomedOK' /\ burnt' \subseteq Issued'
  BY <1>1, <1>2, <1>3 DEF OwnersOK, RefreshOK, DoomedOK, LiveOf
<1>5. IssuingOK'
  BY <1>1, <1>3 DEF IssuingOK
<1>6. RejectedOK'
  BY <1>1, <1>2, <1>3 DEF RejectedOK, Renewing
<1>7. OnlyTheOverlappingOutlive'
  BY <1>1, <1>2 DEF OnlyTheOverlappingOutlive, Outlived
<1>8. QED BY <1>4, <1>5, <1>6, <1>7

LEMMA OverlapInvStep == OverlapInv /\ [Next]_vars => OverlapInv'
<1> SUFFICES ASSUME OverlapInv, [Next]_vars
             PROVE  OverlapInv'
  OBVIOUS
<1>1. ChainInv' /\ CrossedOK'
  BY ChainInvStep, CrossedStep DEF OverlapInv, ChainInv
<1>2. ASSUME UNCHANGED <<token, pc, job, doomed, burnt, crossed, late>>,
             \A u \in Users : /\ user'[u].epoch = user[u].epoch
                              /\ user[u].active => user'[u].active
      PROVE  OverlapInv'
  <2>1. /\ Issued' = Issued /\ Live' = Live /\ Live \subseteq Issued
        /\ \A k \in Issued : token[k].owner \in Users
        /\ \A q \in Requests : pc[q] # "idle" => job[q].user \in Users
    BY <1>2, IssuedIsRow
       DEF Issued, Live, TokenRow, OverlapInv, ChainInv, TypeInv, SlotsOK, Job
  <2>2. \A q \in Requests : IssuesLate(q)' = IssuesLate(q) /\ Chain(q)' = Chain(q)
    BY <1>2 DEF IssuesLate, Chain
  <2>3. OwnersOK' /\ RefreshOK' /\ DoomedOK' /\ burnt' \subseteq Issued'
    BY <1>2, <2>1 DEF OverlapInv, OwnersOK, RefreshOK, DoomedOK, LiveOf
  <2>4. IssuingOK'
    BY <1>2, <2>1, <2>2 DEF OverlapInv, IssuingOK
  <2>5. RejectedOK'
    BY <1>2, <2>1, <2>2 DEF OverlapInv, RejectedOK, Renewing
  <2>6. OnlyTheOverlappingOutlive'
    BY <1>2, <2>1 DEF OverlapInv, OnlyTheOverlappingOutlive, Outlived
  <2>7. QED BY <1>1, <2>3, <2>4, <2>5, <2>6 DEF OverlapInv
<1>3. ASSUME NEW u \in Users, Restore(u)
      PROVE  OverlapInv'
  BY <1>2, <1>3 DEF Restore, OverlapInv, ChainInv, TypeInv, TypeOK, UserRow
<1>4. CASE UNCHANGED vars
  BY <1>2, <1>4 DEF vars
<1>5. QED
  BY <1>1, <1>3, <1>4, BeginningKeepsOverlaps, StepsKeepOverlaps, SettleKeepsOverlaps,
     IssueKeepsOverlaps, CommitKeepsOverlaps, RefuseKeepsOverlaps, LogoutKeepsOverlaps
     DEF Next

LEMMA OverlapInvInit == Init => OverlapInv
BY ChainInvInit
   DEF Init, OverlapInv, OwnersOK, RefreshOK, IssuingOK, DoomedOK, CrossedOK, RejectedOK,
       OnlyTheOverlappingOutlive, Issued, Live

\* Nothing outlives a revocation but what was being issued while it ran, or came of
\* that: OnlyTheOverlappingOutlive, for any requests, users and tokens.
THEOREM OverlappingAloneOutlives == Spec => []OnlyTheOverlappingOutlive
<1>1. OverlapInv => OnlyTheOverlappingOutlive
  BY DEF OverlapInv
<1>2. QED BY <1>1, OverlapInvInit, OverlapInvStep, PTL DEF Spec

----------------------------------------------------------------------------
\* What the repository says of sessions that end is false (the three claims at the end
\* of Sessions), and an overlap is the only reason: as long as every user has one
\* request at a time, all three hold.
Apart ==
  \A r, q \in Requests :
    pc[r] # "idle" /\ pc[q] # "idle" /\ job[r].user = job[q].user => r = q

SessionsEnd == /\ ReuseEndsTheChain /\ PasswordChangeEndsSessions
               /\ DeactivatedHaveNoSession

NoneLate == crossed = {} /\ late = {}

LEMMA ApartIsNeverLate ==
  ASSUME TypeInv, Apart, Apart', NoneLate, [Next]_vars
  PROVE  NoneLate'
<1> USE DEF NoneLate, TypeInv, TypeOK
<1>1. ASSUME NEW r \in Requests, Login(r)
      PROVE  NoneLate'
  <2>1. PICK u \in Users :
          /\ Start(r, "issuing", [op |-> "login", user |-> u, token |-> NoToken,
                                  epoch |-> user[u].epoch])
          /\ Grants(r, u)
    BY <1>1 DEF Login
  <2>2. pc[r] = "idle" /\ pc'[r] = "issuing" /\ job'[r].user = u
    BY <2>1 DEF Start
  <2>3. \A p \in Requests \ {r} : pc'[p] = pc[p] /\ job'[p] = job[p]
    BY <2>1 DEF Start
  <2>4. \A p \in Requests : ~Revoking(p, u)
    BY <2>2, <2>3 DEF Apart, Revoking
  <2>5. QED BY <2>1, <2>4 DEF Start, Grants
<1>2. ASSUME NEW r \in Requests, Consume(r)
      PROVE  NoneLate'
  BY <1>2 DEF Consume, Grants, Revoking, Apart
<1>3. ASSUME NEW r \in Requests, DetectReuse(r) \/ UpdateUser(r)
      PROVE  NoneLate'
  BY <1>3 DEF DetectReuse, UpdateUser, Crosses, Granting, Apart
<1>4. ASSUME NEW r \in Requests, \/ Refresh(r) \/ ChangePassword(r) \/ Remove(r) \/ Settle(r)
                                \/ RevokeAll(r) \/ Commit(r) \/ Refuse(r) \/ Abort(r)
      PROVE  NoneLate'
  BY <1>4 DEF Refresh, ChangePassword, Remove, Start, Settle, RevokeAll, Commit, Refuse,
              Abort, End
<1>5. ASSUME NEW r \in Requests, Issue(r)
      PROVE  NoneLate'
  BY <1>5 DEF Issue, End, IssuesLate
<1>6. QED BY <1>1, <1>2, <1>3, <1>4, <1>5 DEF Next, Logout, Restore, vars

\* What the comments of auth.service.ts and users.service.ts claim is true of users who
\* have one request at a time: after a reuse, a password change or a deactivation none
\* of their sessions is left.  The refuted claims of Sessions show that two suffice.
THEOREM OneRequestAtATimeEndsSessions == Spec /\ []Apart => []SessionsEnd
<1>1. Init => OverlapInv /\ NoneLate
  BY OverlapInvInit DEF Init, NoneLate
<1>2. OverlapInv /\ NoneLate /\ Apart /\ Apart' /\ [Next]_vars => OverlapInv' /\ NoneLate'
  BY OverlapInvStep, ApartIsNeverLate DEF OverlapInv, ChainInv
<1>3. OverlapInv /\ NoneLate => SessionsEnd
  BY DEF OverlapInv, NoneLate, OnlyTheOverlappingOutlive, Outlived, SessionsEnd,
         ReuseEndsTheChain, PasswordChangeEndsSessions, DeactivatedHaveNoSession
<1>4. QED BY <1>1, <1>2, <1>3, PTL DEF Spec
=============================================================================
