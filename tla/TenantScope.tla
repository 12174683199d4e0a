---------------------------- MODULE TenantScope ----------------------------
(***************************************************************************)
(* One flow of asynchronous code and its tenant scopes: TenantScopeService *)
(* (run, runNested, attempt), the proxy around the client, DomainEvents    *)
(* and the statements it sends (TenantIsolation), over one PostgreSQL      *)
(* transaction.                                                            *)
(*                                                                         *)
(* The flow is any nesting of scopes and attempts, statements, emits and   *)
(* throws, as far as src/ goes: an error is only caught around attempt(),  *)
(* or outside every scope, and no emit happens inside an attempt().        *)
(*                                                                         *)
(* `frames` is the stack of calls that are awaited, each with the store it *)
(* gives its body; the transaction's own tenant is `session`, what         *)
(* current_setting('app.tenant_id') would answer.  A row stands for the    *)
(* statement that wrote it and for the event that tells of it; what a row  *)
(* holds besides its references is left out, and so is what an UPDATE does *)
(* to it.                                                                  *)
(***************************************************************************)
EXTENDS Naturals, Sequences, SequencesExt, TenantIsolation

CONSTANT MaxDepth  \* how deep calls nest (a bound)

VARIABLES
  frames,     \* [kind, tenant, saved] of each open call, innermost last; `saved` is
              \* the session and the rows its rollback returns to
  tx,         \* none, open, aborted (25P02) or closed (Prisma's timeout)
  session,    \* the tenant the policies read
  rows,       \* the tables, as the open transaction sees them
  pending,    \* events held back until the commit
  committed, released,
  flight,     \* the error on its way up: an exception of the code (app), a failed
              \* statement (db), an unusable transaction (tx), or none
  cause,      \* the error that was thrown in the first place
  passed      \* did that error go through an attempt() of a closed transaction?
              \* (for the properties alone)

vars == <<frames, tx, session, rows, pending, committed, released,
          flight, cause, passed>>
database == <<tx, session, rows>>
outcome == <<committed, released>>
error == <<flight, cause, passed>>

Kinds == {"owner", "nested", "attempt"}
ASSUME NoTenantAssumption == NoTenant \notin Tenants
ASSUME DepthAssumption == MaxDepth \in Nat

Running == flight = "none"
Inner == frames[Len(frames)]
Pop == frames' = Front(frames)
RowsOf(ws) == {w.row : w \in ws}
Saved == [session |-> session, rows |-> rows]
Unsaved == [session |-> NoTenant, rows |-> {}]  \* a nested scope has no rollback

\* The tables as the transaction found them, and what it has inserted.
Found0 == frames[1].saved.rows
Written == rows \ Found0

\* The scope of the store, and the session of the connection that the proxy picks.
Scope == currentScope(frames # <<>>, IF frames = <<>> THEN NoTenant ELSE Inner.tenant)
\* Mutant: the statement goes to the client it was called on.
BaseClient == NoTenant
Connection == IF frames # <<>> THEN session ELSE NoTenant

Init ==
  /\ frames = <<>>
  /\ tx = "none" /\ session = NoTenant
  /\ \E owned \in [Rows -> Tenants \cup {NoTenant}] :
       rows = {w \in Row : w.tenant = owned[w.row] /\ w.parent = NoRow}
  /\ pending = {} /\ committed = {} /\ released = {}
  /\ flight = "none" /\ cause = "none" /\ passed = FALSE

Push(kind, t, saved) ==
  /\ Len(frames) < MaxDepth
  /\ frames' = Append(frames, [kind |-> kind, tenant |-> t, saved |-> saved])

Thrown(e) == flight' = e /\ cause' = e /\ passed' = FALSE

----------------------------------------------------------------------------
\* run(): no transaction is open, so this scope owns one, and an event queue.
Open(t) ==
  /\ frames = <<>> /\ Running
  /\ Push("owner", t, Saved)
  /\ tx' = "open" /\ session' = t
  /\ pending' = {}
  /\ UNCHANGED <<rows, outcome, error>>

\* runNested(): setTenant(), whose failure leaves no scope behind.
Nest(t) ==
  /\ frames # <<>> /\ Running
  /\ \/ /\ tx = "open"
        /\ Push("nested", t, Unsaved)
        /\ session' = t
        /\ UNCHANGED <<tx, rows, error>>
     \/ /\ tx # "open"
        /\ Thrown("tx")
        /\ UNCHANGED <<frames, database>>
  /\ UNCHANGED <<pending, outcome>>

\* attempt(): SAVEPOINT.
Attempt ==
  /\ frames # <<>> /\ Running
  /\ \/ /\ tx = "open"
        /\ Push("attempt", Inner.tenant, Saved)
        /\ UNCHANGED error
     \/ /\ tx # "open"
        /\ Thrown("tx")
        /\ UNCHANGED frames
  /\ UNCHANGED <<database, pending, outcome>>

\* A statement of a tenant's model: refused by the extension, or sent.
Refused(q) ==
  /\ frames # <<>> /\ Running
  /\ Refuses(Scope, q)
  /\ Thrown("app")
  /\ UNCHANGED <<frames, database, pending, outcome>>

\* What is sent is answered, unless a policy or a key is against it ...
Answered(q) ==
  /\ frames # <<>> /\ Running /\ tx = "open"
  /\ ~Refuses(Scope, q)
  /\ LET new == Inserted(Scope, Connection, rows, q)
     IN /\ \A w \in new : Accepts(Connection, rows, w)
        /\ rows' = rows \cup new
  /\ UNCHANGED <<frames, tx, session, pending, outcome, error>>

\* ... and any statement may fail, for these reasons or another.
Fail ==
  /\ frames # <<>> /\ Running /\ HasTenant(Scope)
  /\ \/ tx = "open" /\ tx' = "aborted" /\ Thrown("db")
     \/ tx # "open" /\ UNCHANGED tx /\ Thrown("tx")
  /\ UNCHANGED <<frames, session, rows, pending, outcome>>

\* emit() with a transaction open: queued for its owner, however deep this is.
Emit(r) ==
  /\ frames # <<>> /\ Running
  /\ r \in RowsOf(Written)
  /\ \A i \in 1 .. Len(frames) : frames[i].kind # "attempt"
  /\ pending' = pending \cup {r}
  /\ UNCHANGED <<frames, database, outcome, error>>

\* The body throws an error of its own (NotFoundException and the like).
Throw ==
  /\ frames # <<>> /\ Running
  /\ Thrown("app")
  /\ UNCHANGED <<frames, database, pending, outcome>>

\* SCOPE_TIMEOUT_MS: Prisma rolls the transaction back under the flow.
Expire ==
  /\ tx \in {"open", "aborted"}
  /\ tx' = "closed" /\ session' = NoTenant /\ rows' = Found0
  /\ UNCHANGED <<frames, pending, outcome, error>>

----------------------------------------------------------------------------
\* Mutant: the scope that ends leaves its tenant in the session.
KeepsTenant == session
\* setTenant() of the enclosing scope; on a transaction that is not open it fails.
RestoredTenant == IF tx = "open" THEN frames[Len(frames) - 1].tenant ELSE session

\* Mutant: a failing restore is not swallowed.
RestoreError == IF tx = "open" THEN flight ELSE "tx"
\* The error that leaves runNested()'s finally: the body's.
ErrorAfterRestore == flight

\* The end of a nested scope, whether its body returned or threw.
LeaveNested ==
  /\ frames # <<>> /\ Inner.kind = "nested"
  /\ session' = RestoredTenant
  /\ flight' = ErrorAfterRestore
  /\ Pop
  /\ UNCHANGED <<tx, rows, pending, outcome, cause, passed>>

\* attempt() returns: RELEASE SAVEPOINT.
Release ==
  /\ frames # <<>> /\ Running /\ Inner.kind = "attempt"
  /\ tx = "open"
  /\ Pop
  /\ UNCHANGED <<database, pending, outcome, error>>

\* ... whose failure goes to the catch.
ReleaseFails ==
  /\ frames # <<>> /\ Running /\ Inner.kind = "attempt"
  /\ tx # "open"
  /\ Thrown("tx")
  /\ UNCHANGED <<frames, database, pending, outcome>>

\* Mutant: the failure is passed on and the savepoint forgotten.
TxAsItIs == tx
TxAfterRollbackTo == IF tx = "closed" THEN "closed" ELSE "open"

\* attempt() throws: ROLLBACK TO SAVEPOINT undoes set_config too.  The error goes on
\* up, or the caller of attempt() catches it.  On a closed transaction the rollback
\* fails, and its error replaces the one that was on its way.
RollbackTo ==
  /\ ~Running /\ frames # <<>> /\ Inner.kind = "attempt"
  /\ Pop
  /\ tx' = TxAfterRollbackTo
  /\ \/ /\ tx # "closed"
        /\ session' = Inner.saved.session /\ rows' = Inner.saved.rows
        /\ \/ flight' = "none" /\ cause' = "none" /\ passed' = FALSE
           \/ UNCHANGED error
     \/ /\ tx = "closed"
        /\ flight' = "tx" /\ passed' = TRUE
        /\ UNCHANGED <<session, rows, cause>>
  /\ UNCHANGED <<pending, outcome>>

Over == /\ Pop
        /\ tx' = "none" /\ session' = NoTenant /\ pending' = {}
        /\ flight' = "none" /\ cause' = "none" /\ passed' = FALSE

\* The owner's body returned: COMMIT, and then the queue is released.
Commit ==
  /\ frames # <<>> /\ Running /\ Inner.kind = "owner" /\ tx = "open"
  /\ committed' = committed \cup RowsOf(Written)
  /\ UNCHANGED rows
  /\ released' = released \cup pending
  /\ Over

\* Mutant: the queue is released in a finally.
ReleasedAnyway == released \cup pending
ReleasedOnRollback == released

\* It threw, or the transaction is closed and cannot be committed: the caller, outside
\* every scope, gets the error.
Rollback ==
  /\ frames # <<>> /\ Inner.kind = "owner"
  /\ ~Running \/ tx = "closed"
  /\ rows' = Found0
  /\ released' = ReleasedOnRollback
  /\ Over
  /\ UNCHANGED committed

Next ==
  \/ \E t \in Tenants \cup {NoTenant} : Open(t) \/ Nest(t)
  \/ \E q \in Statements : Refused(q) \/ Answered(q)
  \/ \E r \in Rows : Emit(r)
  \/ Fail \/ Attempt \/ Throw \/ Expire
  \/ LeaveNested \/ Release \/ ReleaseFails \/ RollbackTo \/ Commit \/ Rollback

Spec == Init /\ [][Next]_vars

----------------------------------------------------------------------------
\* The two layers of isolation agree whenever a statement could be sent: the store the
\* extension reads and the session the policies read name the same tenant.
LayersAgree ==
  frames # <<>> /\ Running /\ tx = "open" => session = Inner.tenant

\* A statement finds the rows of its scope's tenant, every one of them and no other,
\* through both layers and through the policies alone; the rows that they refer to are
\* there to be included; and another company is found only where the session has no
\* tenant.  Outside every scope, nothing is found.
ScopeSeesItsTenant ==
  Running /\ tx \in {"open", "none"} =>
    LET own == {w \in rows : HasTenant(Scope) /\ w.tenant = Scope.tenantId}
    IN /\ Found(Scope, Connection, rows) = own
       /\ FoundRaw(Connection, rows) = own
       /\ \A w \in own : w.parent # NoRow => Included(Connection, rows, w) # {}
       /\ \A t \in scopeAgnostic(Scope) : Connection \in {t, NoTenant}

\* attempt() keeps its promise: code that runs never runs on an aborted transaction.
UsableUnlessThrowing == Running => tx # "aborted"

\* An event tells of a change that was committed, whatever was nested, rolled back or
\* retried inside the scope.
AnnouncedIsCommitted == released \subseteq committed

\* An error on its way up is the one that was thrown, through every setTenant() of a
\* finally and every rollback to a savepoint, whether these fail or not - but where it
\* passes an attempt() after the timeout: the ROLLBACK TO of a catch is not guarded, and
\* its error takes the place of the cause.
CallerSeesTheCause == flight # cause => tx = "closed" /\ flight = "tx" /\ passed

----------------------------------------------------------------------------
\* What runNested() says of its own clean-up (tenant-scope.service.ts: the error that
\* brought it there is the one the caller needs to see), asked of attempt() as well.
CauseIsNeverReplaced == flight = cause
============================================================================
