------------------------------ MODULE Sessions ------------------------------
(***************************************************************************)
(* Refresh tokens: AuthService and RefreshTokenService, with the           *)
(* operations of UsersService that end a user's sessions.                  *)
(*                                                                         *)
(* login and refresh are public routes, so no transaction encloses them:   *)
(* each scope they open commits on its own, and other requests run in      *)
(* between.  changePassword and remove are one transaction each.           *)
(*                                                                         *)
(* A token stands for its row of refresh_tokens.  Some things are there    *)
(* for the properties alone: a token's `root`, the first of its chain (the *)
(* one a login issued); its `epoch`, how often the password had been       *)
(* changed when that login read it; and the histories `burnt`, `crossed`   *)
(* and `late`.                                                             *)
(***************************************************************************)
EXTENDS Naturals

CONSTANTS
  Requests,   \* slots for concurrent requests; a slot is reused when it ends
  Users,      \* the users of the company but the ADMIN who removes and restores
  Tokens,     \* the tokens that can be issued (a bound)
  MaxEpoch,   \* no password change starts at this epoch (a bound)
  NoToken, NoRow, NoJob

VARIABLES
  user,    \* committed user rows: [active, epoch]
  token,   \* committed refresh_tokens rows, or NoRow
  pc,      \* where each request stands
  job,     \* what it works on
  doomed,  \* the rows its revokeAllFor() found alive
  burnt,   \* the chains in which a spent token came back and was answered
  crossed, \* the requests to issue a token that a revocation of its user overlapped
  late     \* the tokens they issued, and those issued in exchange for one of these

vars == <<user, token, pc, job, doomed, burnt, crossed, late>>

Ops == {"login", "refresh", "changePassword", "remove"}
Stages == {"idle", "presented", "consumed", "issuing", "changing", "revoking", "written",
           "rejected"}

UserRow == [active: BOOLEAN, epoch: Nat]
TokenRow == [owner: Users, revoked: BOOLEAN, root: Tokens, epoch: Nat]
Job == [op: Ops, user: Users, token: Tokens \cup {NoToken}, epoch: Nat]

ASSUME NullsAssumption == NoToken \notin Tokens
NoRowIsNoToken == NoRow \notin TokenRow
ASSUME NoRowAssumption == NoRowIsNoToken
NoJobIsNoJob == NoJob \notin Job
ASSUME NoJobAssumption == NoJobIsNoJob
ASSUME MaxEpochAssumption == MaxEpoch \in Nat

Issued == {k \in Tokens : token[k] # NoRow}
Live == {k \in Issued : ~token[k].revoked}

\* Mutant: revokeAllFor() without `userId` in the where.
LiveOfAnyone(u) == Live
LiveOf(u) == {k \in Live : token[k].owner = u}

\* It has looked for the user's sessions, to revoke them, and has not committed.
Revoking(r, u) == pc[r] \in {"revoking", "written"} /\ job[r].user = u
\* It is about to issue a token to the user.
Granting(r, u) == pc[r] \in {"consumed", "issuing"} /\ job[r].user = u

\* Mutant: the row is read, and revoked in a later statement.
ReadThenRevoked(k) == FALSE
\* A row that was consumed, or revoked with others, is locked until its scope commits ...
TokenLocked(k) ==
  \E r \in Requests : \/ pc[r] = "consumed" /\ job[r].token = k
                      \/ pc[r] = "written" /\ k \in doomed[r]
\* ... and a user row from its UPDATE to the end of the request.
UserLocked(u) ==
  \E r \in Requests : Revoking(r, u) /\ job[r].op \in {"changePassword", "remove"}

Init ==
  /\ user = [u \in Users |-> [active |-> TRUE, epoch |-> 0]]
  /\ token = [k \in Tokens |-> NoRow]
  /\ pc = [r \in Requests |-> "idle"]
  /\ job = [r \in Requests |-> NoJob]
  /\ doomed = [r \in Requests |-> {}]
  /\ burnt = {}
  /\ crossed = {}
  /\ late = {}

Start(r, stage, j) ==
  /\ pc[r] = "idle"
  /\ pc' = [pc EXCEPT ![r] = stage]
  /\ job' = [job EXCEPT ![r] = j]
  /\ UNCHANGED <<user, token, doomed, burnt, late>>

End(r) ==
  /\ pc' = [pc EXCEPT ![r] = "idle"]
  /\ job' = [job EXCEPT ![r] = NoJob]
  /\ doomed' = [doomed EXCEPT ![r] = {}]
  /\ crossed' = crossed \ {r}

\* The histories: the request sets out to issue a token while they are being revoked ...
Grants(r, u) == crossed' = crossed \cup {q \in {r} : \E p \in Requests : Revoking(p, u)}
\* ... or is at it when the revocation looks.
Crosses(r) == crossed' = crossed \cup {q \in Requests : Granting(q, job[r].user)}
\* What this request issues is late.
IssuesLate(r) == r \in crossed \/ job[r].token \in late

----------------------------------------------------------------------------
\* login(): the user is read in a scope that ends at once; the password is compared
\* with that snapshot.  A login that is refused writes nothing and is not modelled.
Login(r) ==
  \E u \in Users :
    /\ user[u].active
    /\ Start(r, "issuing", [op |-> "login", user |-> u, token |-> NoToken,
                            epoch |-> user[u].epoch])
    /\ Grants(r, u)

\* A login begins a chain, a refresh continues the one of the token it spent.
RootOf(r, k) == IF job[r].op = "login" THEN k ELSE token[job[r].token].root

\* issueTokens(): the new row, in a scope of its own.
Issue(r) ==
  /\ pc[r] = "issuing"
  /\ \E k \in Tokens \ Issued :
       /\ token' = [token EXCEPT ![k] =
            [owner |-> job[r].user, revoked |-> FALSE, root |-> RootOf(r, k),
             epoch |-> job[r].epoch]]
       /\ late' = late \cup {j \in {k} : IssuesLate(r)}
  /\ End(r)
  /\ UNCHANGED <<user, burnt>>

\* refresh(): verify() accepts a token this service signed, of any age in its chain.
Refresh(r) ==
  \E k \in Issued :
    /\ Start(r, "presented", [op |-> "refresh", user |-> token[k].owner, token |-> k,
                              epoch |-> token[k].epoch])
    /\ UNCHANGED crossed

\* Mutant: the row was read as valid, and is revoked whatever it has become.
SpendsAnyway(r) == TRUE
\* UPDATE .. WHERE id AND revokedAt IS NULL matches.
Spends(r) == job[r].token \in Live

\* consume(), which waits for a row that another request has locked.
Consume(r) ==
  /\ pc[r] = "presented"
  /\ ~TokenLocked(job[r].token)
  /\ Spends(r)
  /\ pc' = [pc EXCEPT ![r] = "consumed"]
  /\ Grants(r, job[r].user)
  /\ UNCHANGED <<user, token, job, doomed, burnt, late>>

\* consume() found it spent: revokeAllFor() in the same scope, from the rows it sees.
DetectReuse(r) ==
  /\ pc[r] = "presented"
  /\ ~Spends(r)
  /\ pc' = [pc EXCEPT ![r] = "revoking"]
  /\ doomed' = [doomed EXCEPT ![r] = LiveOf(job[r].user)]
  /\ Crosses(r)
  /\ UNCHANGED <<user, token, job, burnt, late>>

\* The user is re-read and the scope commits the spending, whoever they are now.
\* (A deactivation that looked before the row was there may commit between the two, and
\* leaves what it leaves just after; any other waits for the spent row.)
Settle(r) ==
  /\ pc[r] = "consumed"
  /\ token' = [token EXCEPT ![job[r].token].revoked = TRUE]
  /\ \/ /\ user[job[r].user].active
        /\ pc' = [pc EXCEPT ![r] = "issuing"]
        /\ UNCHANGED <<job, doomed, crossed>>
     \/ /\ ~user[job[r].user].active
        /\ End(r)
  /\ UNCHANGED <<user, burnt, late>>

\* logout(): silent about a token that is not the caller's.
Logout(k) ==
  /\ k \in Issued
  /\ user[token[k].owner].active
  /\ ~TokenLocked(k)
  /\ token' = [token EXCEPT ![k].revoked = TRUE]
  /\ UNCHANGED <<user, pc, job, doomed, burnt, crossed, late>>

----------------------------------------------------------------------------
\* changePassword(), up to the comparisons: the user row is read and not locked.
ChangePassword(r) ==
  \E u \in Users :
    /\ user[u].active
    /\ user[u].epoch < MaxEpoch
    /\ Start(r, "changing", [op |-> "changePassword", user |-> u, token |-> NoToken,
                             epoch |-> user[u].epoch])
    /\ UNCHANGED crossed

\* remove(), up to the refusals; the last ADMIN is the Users module's question.
Remove(r) ==
  \E u \in Users :
    /\ user[u].active
    /\ Start(r, "changing", [op |-> "remove", user |-> u, token |-> NoToken,
                             epoch |-> user[u].epoch])
    /\ UNCHANGED crossed

\* The UPDATE of the user, then revokeAllFor(), from the rows it sees.
UpdateUser(r) ==
  /\ pc[r] = "changing"
  /\ ~UserLocked(job[r].user)
  /\ pc' = [pc EXCEPT ![r] = "revoking"]
  /\ doomed' = [doomed EXCEPT ![r] = LiveOf(job[r].user)]
  /\ Crosses(r)
  /\ UNCHANGED <<user, token, job, burnt, late>>

\* Mutant: the 401 is thrown inside the scope and undoes the revocation.
UndoneByRefusal(r) ==
  [k \in Tokens |->
     IF k \in doomed[r] /\ job[r].op # "refresh"
       THEN [token[k] EXCEPT !.revoked = TRUE] ELSE token[k]]
Revoked(r) ==
  [k \in Tokens |->
     IF k \in doomed[r] THEN [token[k] EXCEPT !.revoked = TRUE] ELSE token[k]]

Updated(r) ==
  CASE job[r].op = "changePassword" -> [user EXCEPT ![job[r].user].epoch = @ + 1]
    [] job[r].op = "remove"         -> [user EXCEPT ![job[r].user].active = FALSE]
    [] OTHER                        -> user

\* revokeAllFor() waits for the rows it found that others hold, and writes.
RevokeAll(r) ==
  /\ pc[r] = "revoking"
  /\ \A k \in doomed[r] : ~TokenLocked(k)
  /\ pc' = [pc EXCEPT ![r] = "written"]
  /\ UNCHANGED <<user, token, job, doomed, burnt, crossed, late>>

\* The scope commits.  changePassword() and remove() are answered with it; refresh() has
\* still to be refused.
Commit(r) ==
  /\ pc[r] = "written"
  /\ token' = Revoked(r)
  /\ user' = Updated(r)
  /\ \/ job[r].op # "refresh" /\ End(r)
     \/ /\ job[r].op = "refresh"
        /\ pc' = [pc EXCEPT ![r] = "rejected"]
        /\ doomed' = [doomed EXCEPT ![r] = {}]
        /\ UNCHANGED <<job, crossed>>
  /\ UNCHANGED <<burnt, late>>

\* The verdict becomes the 401, outside the scope.
Refuse(r) ==
  /\ pc[r] = "rejected"
  /\ burnt' = burnt \cup {token[job[r].token].root}
  /\ End(r)
  /\ UNCHANGED <<user, token, late>>

\* restore().
Restore(u) ==
  /\ ~user[u].active
  /\ ~UserLocked(u)
  /\ user' = [user EXCEPT ![u].active = TRUE]
  /\ UNCHANGED <<token, pc, job, doomed, burnt, crossed, late>>

\* A timeout, a broken connection, the end of the process: the open scope rolls back.
Abort(r) ==
  /\ pc[r] # "idle"
  /\ End(r)
  /\ UNCHANGED <<user, token, burnt, late>>

Next ==
  \/ \E r \in Requests :
       \/ Login(r) \/ Refresh(r) \/ ChangePassword(r) \/ Remove(r)
       \/ Issue(r) \/ Consume(r) \/ DetectReuse(r) \/ Settle(r)
       \/ UpdateUser(r) \/ RevokeAll(r) \/ Commit(r) \/ Refuse(r) \/ Abort(r)
  \/ \E k \in Tokens : Logout(k)
  \/ \E u \in Users : Restore(u)

Spec == Init /\ [][Next]_vars

----------------------------------------------------------------------------
RevokesOwnRows ==
  \A r \in Requests : \A k \in doomed[r] : k \in Issued /\ token[k].owner = job[r].user

\* The types; and the rows a revocation has found are its own user's.
TypeOK ==
  /\ user \in [Users -> UserRow]
  /\ token \in [Tokens -> TokenRow \cup {NoRow}]
  /\ pc \in [Requests -> Stages]
  /\ job \in [Requests -> Job \cup {NoJob}]
  /\ doomed \in [Requests -> SUBSET Tokens]
  /\ RevokesOwnRows
  /\ burnt \subseteq Tokens
  /\ crossed \subseteq Requests
  /\ late \subseteq Tokens

\* The refreshes that have spent a token and not yet issued the next.
Renewing(r) == pc[r] = "issuing" /\ job[r].op = "refresh"
Chain(r) == token[job[r].token].root

\* A login is one session for ever, however many copies of its tokens are presented
\* at once: its chain never has two live tokens, nor a live one beside a refresh that
\* is about to issue one.  consume()'s single statement, and spending before issuing.
OneSessionPerLogin ==
  /\ \A j, k \in Live : token[j].root = token[k].root => j = k
  /\ \A r \in Requests : Renewing(r) =>
       /\ \A k \in Live : token[k].root # Chain(r)
       /\ \A q \in Requests : q # r /\ Renewing(q) => Chain(q) # Chain(r)

\* The state of the session that the login issuing token c began.
Begun(c) == c \in Issued /\ token[c].root = c
Lives(c) == \E k \in Live : token[k].root = c
Continued(c) == \E r \in Requests : Renewing(r) /\ Chain(r) = c

ChainState ==
  [c \in Tokens |->
     CASE ~Begun(c)                               -> "none"
       [] Begun(c) /\ Lives(c)                    -> "live"
       [] Begun(c) /\ ~Lives(c) /\ Continued(c)   -> "renewing"
       [] Begun(c) /\ ~Lives(c) /\ ~Continued(c)  -> "ended"]

\* A session that has ended - by logout, by a revocation, by a refresh that failed half
\* way - never comes back, whatever old token is presented and however late.
Chains == INSTANCE SessionChains WITH Chains <- Tokens, chain <- ChainState
ImplementsChains == Chains!Spec

\* What a revocation that was answered should have ended: a session in which a token
\* came back and was refused, one from before a password change, one of somebody
\* deactivated.
Outlived(k) == \/ token[k].root \in burnt
               \/ token[k].epoch # user[token[k].owner].epoch
               \/ ~user[token[k].owner].active

\* Nothing outlives a revocation but what was being issued while it ran, or came of
\* that.  revokeAllFor() has committed before its request is answered, although a reuse
\* is answered with a refusal, and it has waited for the rows it found.
OnlyTheOverlappingOutlive == \A k \in Live : Outlived(k) => k \in late

----------------------------------------------------------------------------
\* Claims of the repository about this code.

\* auth.service.ts, on a spent token that comes back: "every session of that user
\* ends".
ReuseEndsTheChain == \A k \in Live : token[k].root \notin burnt

\* users.service.ts, changePassword(): "every other session ends with it".
PasswordChangeEndsSessions == \A k \in Live : token[k].epoch = user[token[k].owner].epoch

\* users.service.ts, remove(): "this user has no live sessions".
DeactivatedHaveNoSession == \A k \in Live : user[token[k].owner].active
=============================================================================
