# A TLA+ model of NexusOps

NexusOps is a multi-tenant helpdesk: a NestJS API over Prisma and PostgreSQL, BullMQ
workers for exports, and socket.io for notifications. This directory models the parts of
it in which the order of things matters, checks them with TLC on small instances, and
proves the most important properties for all instances with TLAPS.

    tlc -workers 2 -config TicketsRace.cfg MCTickets     # one of the runs below
    tlapm TicketsProofs.tla                              # one of the proof modules

`PROJECT.json` lists the runs, a mutant of the code's behaviour for every property (the
definitions marked *Mutant* in the modules; replacing the definition by its mutant must
violate the property), the source lines each definition stands for, the hazards the
properties are aimed at, and the theorems.

## 1. The system

### How a request runs

Everything that follows rests on this pipeline (`jwt.strategy.ts`, `roles.guard.ts`,
`tenant-context.interceptor.ts`, `tenant-scope.service.ts`):

1. `JwtStrategy.validate` reads the user in a short transaction of its own. The role a
   request acts with is the one the database had *then*, not the one in the token.
2. `RolesGuard` and the `ValidationPipe` refuse what the role or the DTO does not allow.
3. `TenantContextInterceptor` opens **one** READ COMMITTED transaction around the whole
   handler, on one connection of the pool (5 s to get one, 15 s to finish). The services
   open scopes too, but these nest: they set the tenant and do not commit.
4. The handler's statements run. Each sees what was committed when *it* started, so two
   statements of one request can see different rows. An UPDATE locks its row until the
   commit, and one that waited looks at its WHERE clause again.
5. The handler returns, the transaction commits, and only then are the events the handler
   emitted released to their listeners, without waiting for them. Then the answer is sent.

Public routes (`login`, `refresh`) have no such transaction: each of their scopes commits
on its own. So do the scopes of a BullMQ worker and of the bootstrap. Several instances of
the process may run, except that the rooms of socket.io are in the memory of one.

### Components

| component | state | operations | interacts with |
|---|---|---|---|
| Tickets (`tickets/`) | `tickets`, `ticket_counters` | create, update, changeStatus, assign; list, read | reads users; emits ticket events |
| Sessions (`auth/`, part of `users/`) | `refresh_tokens`, password hash | login, refresh, logout, changePassword; revokeAllFor | deactivation of a user |
| Users (`users/`, `platform/company-users`) | `users` | create, update, remove, restore | Sessions; visibility of Tickets |
| Reports (`reports/`) | `reports`, the BullMQ queue | request, download; the worker's process | pages of the ticket list; report events |
| Tenant scope (`tenancy/`) | the AsyncLocalStorage store, `app.tenant_id` of the database session, the event queue | run, runNested, attempt, emit | everything |
| Comments, notifications, audit (`comments/`, `realtime/`, `audit/`) | `comments`, `audit_logs`, rooms | comment; connect, disconnect; record | events of Tickets; the client's refetch |
| Platform bootstrap and configuration (`platform/`, `config/`) | the environment, the platform tenant, the ADMIN_MASTER row | validateEnv and ensureAdminMaster at every start | `.env`, a partial unique index |
| Companies (`platform/`) | `tenants` | create, update, remove | Users (the first ADMIN), Tickets (the counter) |
| Tenant extension and RLS (`tenancy/`, migrations) | none of its own | rewrites each statement, policies | Tenant scope |
| Lists (`findAll` of every service, thread, timeline, feed) | none; a reading goes on over many requests | count and findMany of a page | every table; the export of Reports |
| Guards, validation, hashing, CSV, response shapes | none | pure functions and checks | part of the actions that accept a request |

### What is hard

* **Check, then write.** Every service reads a row, decides, and writes by another
  statement of a READ COMMITTED transaction. Tickets are safe by a conditional UPDATE on a
  version; Users by writing only the columns that were asked for; Comments by nothing.
* **Several transactions for one operation.** login, refresh, the worker and the bootstrap
  can be interleaved with anything, or die, between two of theirs.
* **Two resources.** The queue and the row of a report, the row and the audit entry, the
  row and the event: they are not committed together.
* **Two layers of tenancy** that have to name the same tenant however scopes nest, throw
  or time out, with PostgreSQL's aborted-transaction state in between.
* **Reading page by page** what changes between the pages, and between the two statements
  of one page.
* **Waiting.** Row locks, a counter row every creation locks, unique index entries, a pool
  of connections.

What makes each component correct is stated, property by property, in section 3.

## 2. The modules

| module | models | shape |
|---|---|---|
| `TicketLedger` | what the ticket aggregate promises | a ticket is opened and changed in single steps, along the transition map, stamps and versions included |
| `Tickets` | `TicketsService` by its SQL statements | refines `TicketLedger` |
| `TicketView` | the tickets as the other modules see them | rows with a requester, an assignee and a version that open, change and close; both `Tickets` and `Notifications` refine it |
| `SessionChains` | what a session promises | none, live, renewing, ended; never back |
| `Sessions` | `AuthService`, `RefreshTokenService`, and what `UsersService` does to sessions, by transactions | refines `SessionChains` |
| `Users` | `UsersService` by its statements | |
| `Reports` | `ReportsService`, the queue, `ReportsProcessor` by its transactions | |
| `PagedLists` | `ReportsProcessor.collect()` and every list of the API: tickets, reports, users, companies, comments, timeline, feed | one reading, by the two statements of each page |
| `TenantIsolation` | the tenancy extension, the policies and the composite keys, as operators on one statement and the rows | pure; the part of `TenantScope` that decides what a statement does |
| `TenantScope` | `TenantScopeService` as a stack of calls over a PostgreSQL transaction, and the proxy that picks the connection | extends `TenantIsolation` |
| `Notifications` | `CommentsService`, events, `NotificationsGateway`, `AuditListener`, a client | takes a ticket change as one step; refines `TicketView`, as `Tickets` does |
| `Environment` | `validateEnv` over the shapes its checks tell apart | pure; used by `Bootstrap` |
| `Bootstrap` | `PlatformBootstrapService` by its transactions, on several instances | extends `Environment` |
| `CompanyRegistry` | what the operator is promised | a register of companies that each request changes in one step or not at all |
| `Companies` | `CompaniesService` by its statements | refines `CompanyRegistry` |
| `MC...` | instances: symmetry, views, values for constants | |
| `...Proofs` | theorems about every component; those about `PagedLists` are in `ReportsProofs` | |

Conventions. A slot of `Requests` is a concurrent request; it is reused when the request
ends, so a behaviour may hold any number of them. The committed rows are variables named
after the table; what an open transaction has written is in a variable per request and
reaches the rows with `Commit`. A row lock is not a variable: it follows from who has
written and not ended (`RowLocked`, `NumberLocked`, `TokenLocked`, `UserLocked`,
`DomainLocked`). `Abort` stands for every way a transaction ends without a commit - the
15 s timeout, a lost connection, a deadlock PostgreSQL broke, the end of the process - and
is possible at every step. `No...` constants stand for null and absence.

### Tickets

| model | code |
|---|---|
| `AcceptCreate`, `AcceptUpdate`, `AcceptChangeStatus`, `AcceptAssign` | the pipeline up to the handler: who may call what, and which version a client sends |
| `TakeNumber`, `Insert` | `create()`: the UPDATE of the counter, which locks it, and the INSERT |
| `Load`, `Refuse` | `load()` and the refusals of the `change` callbacks: visibility, transition, closed |
| `VetAssignee` | `assertAssignable()`, a read of another row |
| `Write`, `Conflict` | `updateMany` on id and version: one row, or none and a 409 |
| `Commit`, `Drain`, `Abort` | the end of the interceptor's transaction and the release of the event |
| `EditUser` | what `UsersService` does to the people involved |

`before` and `after` are the two sides of the event that `Drain` releases. `ClientsGuess`
says whether a client may send a version it cannot have read. `MaxVersion`, `Managed` and
`Edits` are bounds: how often a ticket changes, which users are edited, and into what.

### Sessions

`Login`/`Issue` and `Refresh`/`Consume`/`Settle`/`Issue` are separate transactions. For the
spent token that comes back it is `DetectReuse`/`RevokeAll`/`Commit`, and then `Refuse`, the
401 that is thrown once the scope has committed. `ChangePassword` or `Remove`, `UpdateUser`,
`RevokeAll` and `Commit` are one transaction, by statements: `doomed` holds the rows its
`revokeAllFor()` saw alive, which it may have to wait for. `Logout` and `Restore` are single
statements. `Consume` is the single conditional UPDATE that decides a race. Some things exist
for the properties alone, and no guard reads them: the `root` of a row's chain, the password
`epoch` of its login, the chains whose reuse was answered (`burnt`), the requests that were
about to issue a token while a revocation of the user ran (`crossed`), and the tokens that
came of these (`late`).

### Users

`Load`, `assertNotLastAdmin`, `Insert`/`Update` and `Commit`, for the four operations of
the ADMIN and of the operator. `loaded` is the row `load()` returned, which the refusals go
by; `Update` writes over the row as it is then.

### Reports and PagedLists

`Insert`, `Enqueue`, `Commit`, `Rollback` are the request, in the order of the code: the
job is enqueued before the transaction commits. `Take`, `Stall` and the outcomes of
`Return` are BullMQ (external): a job is taken by an idle worker, put back when its lock
expires - under a live worker as well - and failed when it stalls too often. `Mark`,
`Collect`, `Complete`, `RecordFailure`, `Announce` are the scopes of `process()`, each of
which may `Fail`; `Crash` is the end of a worker at any point. `missed` records the reports
a run wrote to while the row was not there, and `unsaid` those whose failure nobody wrote
down: `setStatus` is outside the `try`, and the `updateMany` of the `catch` may fail too.

`PagedLists` opens `Collect` up, and reads every other list the same way. A row is its place
in the order of `created_at`; `Begin`, `Accept`, `Count` and `FindMany` are the request for
a page and its two snapshots, and `Insert`, `Enter`, `Leave` change the list in between: a
row may be committed after younger ones, as `created_at` is when its transaction began. Nothing
leaves the comments and the trail, which nobody updates. `Where` is the filter
of each list, with the notes a requester must not see; `ChangeRole` makes the reader staff,
or no longer, between two pages. `first`, `entered` and `left` are what the properties
compare a reading with.

### TenantScope and TenantIsolation

`frames` is the stack of calls: the owner of the transaction, nested scopes, savepoints.
`tx` is PostgreSQL's and Prisma's view of the transaction (open, aborted, closed),
`session` the tenant the policies read, which a savepoint's rollback restores too, and
`rows` the tables as the transaction sees them. `flight` is the exception on its way up and
`cause` the first one thrown; `passed`, for the properties alone, says that it went through
an `attempt()` whose transaction had timed out, where the unguarded `ROLLBACK TO`
(tenant-scope.service.ts:122) throws an error of its own.

A statement is `Refused` by the extension or `Answered`. `TenantIsolation` says which:
`Refuses` is the classification of operations, the check of a tenant in the data and the
scope that is missing; `scopeWhere` the filter the extension puts last; `Policy` and
`Accepts` what row level security, the primary key and the composite foreign keys let
through; `Found`, `FoundRaw` and `Included` what a read, a raw query and an `include`
return. `Connection` is the proxy of `prisma.client.ts`: inside a scope it is the
transaction's, outside it a session without a tenant.

### Notifications

`Create`, `Update`, `ChangeStatus`, `Assign` are commits of ticket calls; `Load` and `Post`
a comment, which goes by the row it loaded. `Drain` hands the event to the gateway, which
wakes the rooms, and to the audit listener, whose entry `Handle` commits or loses. The
handshake is `Verify`, `JoinUserRoom`, `JoinAdminRoom`, `EmitReady`, between whose awaits
anything may happen. `Refetch` is the client (external), as `HELPDESK.md` describes it.

### Bootstrap, Environment and Companies

`Start` reads `.env` and keeps what `validateEnv` accepts. An environment maps each
variable to a number, or to a text with what it says, the pattern it matches and its
length; `Malformed` is the decorators, `Confused` the pairs that must differ, `Published`
the placeholders that production refuses. Then `EnsurePlatformTenant`, `FindOperator`, and
`CreateOperator`, `KeepOperator` or `UpdateOperator`, each a transaction; the refusal of the
unique index ends the boot, and so may `Crash` at any moment. An instance that has ended may
start again. `EditEnv` and `Deactivate` are external. `RollingEdits` says whether they may
happen while instances boot; if not, an edit restarts every instance. In Companies the INSERTs of
tenant, counter and ADMIN are separate statements of one transaction, and rows and index
entries are locked from the statement to the commit.

## 3. What is checked

All runs together take about ten minutes with two workers. Deadlock is checked except where the
system really may stop: all reports settled, a list read to its end, all instances up.

### Runs that pass

**TicketsRace** (1.6 M states). Two requests, one ticket, an ADMIN, an AGENT who may be
demoted at any moment, a REQUESTER; versions 1 to 4, which is what it takes to open,
resolve, close and try to change a ticket.
`WritesOverWhatItRead`: nothing happened to the row between the checks and the write.
`OneRowPerVersion`: a version is one state of the row for everyone who holds it - the table,
open requests, events. `ClosedIsFinal`: no request changes a closed ticket.
`OnlyTheInvolvedChange`: whoever commits a change is involved in the ticket at that moment,
not only when it was loaded. `ImplementsLedger`: the whole protocol amounts to single steps.
Two requests are enough for every race of a read with a write, as a third finds the row as
one of the two left it; the theorems lift the bound.

**TicketsLive** (89 K). Two requests, two tickets. `NumbersAreContiguous`: numbers are 1 to
`last_number`, each once, whoever rolls back. `EveryRequestEnds`: under `FairSpec` nobody
waits for ever for the counter, a row or after a lost race. The fairness is SF on each
request's own steps: the event loop runs a handler that can go on, PostgreSQL serves the
waiters of a lock in order, and every lock holder ends at the latest with its timeout.
Nothing is assumed of `Accept...` and `Abort`.

**SessionsRace** (605 K with the view, which drops what the histories say of tokens that are
no longer alive nor about to be exchanged). Two users, two requests, three tokens, one
password change. `OneSessionPerLogin`: a login's chain never has two live tokens, nor one
beside a refresh about to issue another. `ImplementsChains`: a session that ended never comes
back. `OnlyTheOverlappingOutlive`: three claims of the code about revocations are false
(below), and this is what is left of them - a session that should have ended with a reuse, a
password change or a deactivation that was answered is alive only if one of its tokens was
being issued while the revocation ran. It is lost when the 401 is thrown inside the scope and
undoes the revocation it answers. Three tokens allow a chain of two beside another user's
session.

**UsersRace** (2.7 M). Two requests, two users, two addresses. `OneUserPerEmail`:
deactivated users included, so `restore` never collides. `OnlyWhatWasAsked`: a rename that
was loaded before a deactivation does not undo it, nor a promotion.

**ReportsRun** (393 K). Two reports, one worker, one stall. `OutcomesAgree`: of a report that
ran once and found its row, a completed job, a failed one and every announcement say what the
row says. One case is excused and refuted below, a failed job in `unsaid`: when `setStatus`
or the `updateMany` of the `catch` fails, the queue says failed and the row PENDING or
PROCESSING. The property says that no other step leads there. `SettledUnlessStalled`: a
settled report changes only after a stall. `EveryReportSettles`: a committed report settles,
unless its job stalled too often, is one of `unsaid`, or ran before the row was there: in
the first two cases the code leaves it unsettled for good. Fairness
(`LiveSpec`): a worker goes on until it crashes (WF), the queue is first in first out (SF on
`Take`), the lock of a dead worker expires (WF), a request that inserted commits (WF). One
worker is a deliberate bound for the last property: with two, the one whose lock expired can
put the row back to PROCESSING after the other completed the job, and die; the report then
stays PROCESSING. The other properties are proved for any number of workers.

**ExportPages** (2.3 M). Four lists that stand for all seven - newest first and oldest
first, with and without rows that leave, with and without rows that are hidden - read in
pages of two, over up to four rows. `RowsWereListed`: no page has a row the reader could not
have listed at some moment of the reading, a note of staff least of all.
`RowsStayInOrder`, `MissesArePulledUp`: what paging by offset does to a file or a
timeline. A row may be in it twice, after one it comes before, or not at all, and only
because a row came into the list or left it in between. Pages of two
and four rows give full, partial and empty pages, and a `MaxRows` of 5 a cut in the middle.

**ScopeNesting** (90 K). Calls nested four deep - a scope in a savepoint in a scope in the
owner - over two tenants and two rows, every statement of every class and every reference.
`LayersAgree`: the store and the database session name the same tenant whenever a statement
could be sent. `ScopeSeesItsTenant`: a statement finds its tenant's rows, all of them and no
others, through the extension and the policies and through the policies alone; what they
refer to can be included; outside every scope nothing is found. `UsableUnlessThrowing`: no
code runs on an aborted transaction. `AnnouncedIsCommitted`: no event without its commit.
`CallerSeesTheCause`: the failing clean-ups do not hide the error - but for one, an `attempt()`
that rolls back to its savepoint on a transaction that timed out, whose error takes the place
of the cause. The restore of a nested scope swallows its own; `ScopeTimeout` below shows the
other. Two rows are one that refers to the other, of the same tenant or of another.

**NotifyScreens** (2.1 M with the view, which adds up entries written and lost). An AGENT and
a REQUESTER with a tab each, two requests, a ticket with three versions and a comment.
`ScreensCatchUp`: with no event on its way, a tab shows the row as it is or is about to
fetch it - the ticket that was taken from it included, and the tab that connected in
between. `NotesStayWithStaff`: no internal note reaches the requester. `TrailAccountsForAll`:
no entry is made for a change that was rolled back, and none is missing but those lost with a
failed insert or the process - which it counts, as the code does nothing against them: that
every change has an entry is not true and not claimed. Three versions are
needed to open, assign and reassign.

**BootstrapRace** (44 K). Three instances, fourteen environments, of which three are valid,
two edits, two crashes. `AtMostOneOperator`. `EnvTakesEffect`: whoever comes up has made the
operator what `.env` says, although it decided by a row another boot may have rewritten.
`ServesSafely`: whatever `.env` said before and whoever died while it was put right, no
instance serves with one connection or one key for two purposes, nor, in production, with the
secrets of `.env.example` - in its environment or in the operator's row. `BootsConverge`: if
`.env` is valid, all come up in the end. Fairness is WF on each instance's next step, which
includes being started again: that is the supervisor. `RollingEdits` is FALSE: `.env` is
edited while nobody boots, and an edit restarts everyone; `BootstrapRolling` below is the
other case.

**CompaniesRace** (543 K). Two requests, two companies, two domains. `CompaniesAreComplete`:
never a tenant without its counter and its ADMIN. `DomainNamesOneCompany`, however domains
are taken, freed and swapped at once. `OnlyWhatWasAsked`, as for users. `ImplementsRegistry`:
statements, locks and rollbacks amount to single steps of a register, in which a domain is
taken only while it is free and a company that was removed never returns.

### Where code and documentation disagree

Two runs expect a violation; the other configurations show theirs in the same way, each in
a few seconds, with the last definitions of their module. TLC stops at the first of the
three invariants of SessionsRevoked, or of ReportsClaims, that fails; each fails by itself.

| configuration | module, property | what happens | what is claimed |
|---|---|---|---|
| **UsersLastAdmin** (run) | MCUsers, SomeoneAdministers | two requests count two ADMINs, each takes one away | users.service.ts:279 "A tenant with no active ADMIN is a tenant nobody can administer" |
| **ReportsDownload** (run) | MCReports, CompletedCanBeDownloaded | a job that ran before its row was committed announces `report.completed`; the row is then PENDING | HELPDESK.md:631 "can download immediately" |
| ReportsClaims | MCReports, RowBeforeJob | the job is taken while the row is not committed: `queue.add` is inside the request's transaction | reports.service.ts:54, HELPDESK.md:1186 |
| ReportsClaims | MCReports, ErrorOnlyWhenFailed | a job run again after a stall keeps the error of the run before while PROCESSING | schema.prisma:378 "Null on every other status" |
| ReportsClaims | MCReports, FailedJobIsFailedReport | `setStatus` or the `updateMany` of the `catch` throws: BullMQ marks the job failed, the row stays PENDING or PROCESSING | reports.processor.ts:134 "Rethrown so BullMQ marks the job failed too. The row and the queue disagreeing about what happened is worse than either being wrong" |
| ScopeTimeout | MCTenantScope, CauseIsNeverReplaced | the transaction times out inside an `attempt()`: its `ROLLBACK TO` fails, and the caller gets that error | nothing for `attempt()`; runNested() says of its own clean-up "The error that brought us here is the one the caller needs to see" (tenant-scope.service.ts:206) |
| TicketsGuessClosed | MCTickets, ClosedIsFinal | a client that sends the version a concurrent close is about to produce passes the checks on the open row and changes the closed one | tickets.service.ts:524 |
| TicketsDemotion | MCTickets, RequesterIsNeverAssignee | an AGENT with a ticket is demoted and stays its assignee | ticket-visibility.ts:49 |
| TicketsConflict | MCTickets, ConflictNamesCurrentVersion | the 409 names the version that was read before the change that caused it | HELPDESK.md:760 |
| SessionsRevoked | MCSessions, ReuseEndsTheChain | a refresh between its two transactions is missed by the revocation | auth.service.ts:112 |
| SessionsRevoked | MCSessions, PasswordChangeEndsSessions | likewise, by a password change | users.service.ts:247 |
| SessionsRevoked | MCSessions, DeactivatedHaveNoSession | likewise, by a deactivation | users.service.ts:190 |
| ExportTotal | MCPagedLists, TotalMatchesPage | a ticket enters the list between `count` and `findMany` of one `$transaction` | tickets.service.ts:198 |
| ExportFilter | MCPagedLists, RowsWereListed | a REQUESTER asks the timeline for one action: the condition that hides notes (audit.service.ts:84) has the same key and replaces it, so that every other action is answered | HELPDESK.md:349 "Both take `page`, `perPage`, `action` and `userId`" |
| NotifyClosed | MCNotifications, ClosedTakesNoComment | the ticket is closed between the comment's read and its commit | HELPDESK.md:331 |
| NotifyAssignee | MCNotifications, NoteReachesTheAssignee | the ticket is assigned in between; the event names the old assignee | HELPDESK.md:625 |
| NotifyDemoted | MCNotifications, AdminRoomIsAdmins | an ADMIN who is demoted while connected stays in the admin room | notifications.gateway.ts:60 |
| BootstrapRolling | MCBootstrap, EnvTakesEffect | the operator is edited, or an instance of another environment boots, between the read of the row and the decision by it: the instance comes up and the operator is not what its environment says | platform-bootstrap.service.ts:19 "the `.env` is its source of truth" |
| CompaniesHashing | MCCompanies, HashingLeavesConnections | bcrypt runs inside the interceptor's transaction, holding a connection | companies.service.ts:62 |
| CompaniesDomain | MCCompanies, EveryCompanyHasADomain | a PATCH with `domain: null` is let through | create-company.dto.ts:54 |

Each property is the sentence of the right-hand column, but for ScopeTimeout, where no sentence
of the repository is contradicted. The passing properties say what is
left of them: `ClosedIsFinal` holds for clients that do not guess;
`OnlyTheOverlappingOutlive` for sessions no token of which was being issued; `OutcomesAgree`
for jobs that found their row and failed with it; `CallerSeesTheCause` but for the timeout
inside an `attempt()`; `EnvTakesEffect` where an edit restarts every instance.

One disagreement needs no order of events, and so has no model: a suspended company. Only
`login()` reads `tenant.isActive` (auth.service.ts:54); `refresh()` and `JwtStrategy` do not,
so that sessions which are there go on. PLATFORM.md:291 lists "a company that has been
suspended" among the reasons for a 401.

## 4. What is proved

TLAPS checks these for every number of requests, users, tickets, tokens, reports and
workers. They rest on the ASSUMEs of the modules - that nulls are no values, that bounds are
numbers, that a company starts with an ADMIN - which TLC evaluates on every run.

A claim that section 3 refutes is not given up: a theorem says under which hypothesis on the
steps it does hold, and so that nothing else can break it. The hypothesis is part of the
statement (`Spec /\ [][...]_vars => ...`), as the code does not see to it; it is what a
fix has to bring about.

| refuted claims | hold if | theorem |
|---|---|---|
| SomeoneAdministers | requests run one at a time | `UsersProofs!SerialAdmins` |
| ReuseEndsTheChain, PasswordChangeEndsSessions, DeactivatedHaveNoSession | no two requests about one user overlap | `SessionsProofs!OneRequestAtATimeEndsSessions` |
| RowBeforeJob | a job is taken only when its row is committed | `ReportsProofs!JobsAfterTheCommit` |
| CompletedCanBeDownloaded | that, and no job stalls | `ReportsProofs!JobsAfterTheCommit` |
| FailedJobIsFailedReport | neither `setStatus` nor the `updateMany` of the `catch` fails (no report is in `unsaid`) | `ReportsProofs!OutcomesAlwaysAgree` |
| CauseIsNeverReplaced | no `attempt()` rolls back on a transaction that timed out | `TenantScopeProofs!CallerAlwaysSeesTheCause` |
| ErrorOnlyWhenFailed | the job never stalled | `ReportsProofs!OnlyStallsLeaveErrors` |
| RequesterIsNeverAssignee | nobody is demoted | `TicketsProofs!OnlyDemotionsMakeRequestersAssignees` |
| ClosedIsFinal, for any client | clients send versions they have read | `TicketsProofs!ClosedStaysClosed` |
| AdminRoomIsAdmins | nobody stops being an active ADMIN while connected | `NotificationsProofs!AdminRoomAsConnected` |
| ClosedTakesNoComment, NoteReachesTheAssignee | a ticket is left alone between the read of a comment and its commit | `NotificationsProofs!CommentsGoByWhatIsThere` |
| EnvTakesEffect, for rolling edits | an edit restarts every instance | `BootstrapProofs!EnvAlwaysTakesEffect` |
| ConflictNamesCurrentVersion | no commit falls between the read of a ticket and the UPDATE that misses it | `TicketsProofs!ConflictsNameWhatStays` |
| EveryCompanyHasADomain | no PATCH names a null domain | `CompaniesProofs!CompaniesKeepTheirDomain` |
| TotalMatchesPage | no commit falls between the count and the page | `ReportsProofs!QuietPagesMatchTheirTotal` |
| RowsWereListed, for any caller | no caller's filter replaces the one that hides notes | `ReportsProofs!RowsAlwaysWereListed` |

HashingLeavesConnections alone has no such theorem: it fails whenever enough operators create
companies at once, in no particular order.

**TicketsProofs.** The type invariant `TypeInv` adds to `TypeOK` what each stage of a request
knows of its slot (`SlotsOK`). `WriteInv` adds `WritesOK`: a row is written by one request at
a time and is what the call makes of the committed one, and the id of a creation is nobody
else's. `RowsInv` adds `KnownRowsArePast`: nobody holds a version beyond the committed one.
`OneRowPerVersion` alone is not inductive, as it does not exclude that a version about to be
committed is already known. From it: `VersionsIdentifyRows`, whatever clients send. With the
assumption `~ClientsGuess` a stronger `ReadInv` - a call names a version that exists, what was
loaded is no older, and once the row is written what was loaded is the committed row - gives
`NoLostUpdate`, `ChangesAreByTheInvolved`, `ClosedStaysClosed` and `ConflictsAreReal` (no 409
without a commit since the version that was sent). `NumberInv` - the counter is held by one
creation, whose number is the next - gives `Numbering`. `Refinement` maps a `Commit` to a step
of the ledger and everything else to a stutter; it needs `~ClientsGuess` too, as the ledger
lets nobody change a closed ticket. `TicketsAreSeen` goes on from there to `TicketView`, whose
variable is mapped to the set of `Sight`s of the opened rows: a step of the ledger replaces
one row, and `OpenedStays` says that a commit never leaves a null.
`OnlyDemotionsMakeRequestersAssignees`: `AssigneesOK` follows an assignee from the check
(`vetted`) through the row that is written to the committed one; each is staff as long as
nobody is demoted, and a user who is deactivated or promoted in between does no harm.

**SessionsProofs.** `TypeInv` adds to the types what a slot holds at each stage, whose rows it
is about to revoke, and that the root of a chain is a token of it. `ChainInv` adds
`ConsumersOK`: a token that is consumed and not yet committed is alive, and one request has
it; with that, and `WrittenOK` for the rows a revocation has written and not committed,
`OneSessionPerLogin` is inductive, hence `OneSession`. `SessionsRefineChains` follows: an
ended chain has neither a live token nor a refresh on its way, and only such a refresh could
add one. `OverlappingAloneOutlives` needs `OverlapInv`, about what the steps of two requests
leave: a request between its two transactions is in order - the user active, the password the
same, the chain not burnt - or is known to have crossed a revocation (`IssuingOK`); an open
revocation has found every live token of its user but the late ones (`DoomedOK`), and every
request that was about to issue one then, or set out to since, is known (`CrossedOK`); and of
a reuse that is still to be refused, nothing but late tokens is left (`RejectedOK`). From it,
`OneRequestAtATimeEndsSessions`: where the requests of a user do not overlap, nothing is late.

**UsersProofs.** `DirInv` adds `WriteInv`, what each open transaction has written and that
nobody else has that user, and `EmailInv`, that no open transaction has an address that is
taken or that another one is about to take; `EmailsAreUnique` and `NothingIsUndone` follow.
`SerialAdmins`: *if requests run one at a time* there is always an active ADMIN - so the
race of UsersLastAdmin is the only way to lose the last one.

**ReportsProofs.** `Inv` is the conjunction of `TypeOK`, `RunOK` (a worker has a report
exactly while it runs), `RequestOK` (rows and jobs come from a request that got that far),
`StallsOK` (a job that can still be run has not stalled too often), `OneRun` (a job that
never stalled is with one worker at most, and what that worker has yet to write is not
written) and `Truth` (what was announced, and what the job ended with, is what is in the row,
at every stage, or the report is in `unsaid`). `OutcomesAlwaysAgree` and `SettledReportsStay` follow from it. `OnlyStallsLeaveErrors`
adds that a row of a job that never stalled has an error only with FAILED.
`JobsAfterTheCommit` assumes that `Take` finds the row committed - nothing in the queue sees
to it - and shows that no run then misses its row; if besides nothing ever stalls, what was
announced can be downloaded. The second hypothesis is needed: after a stall the second run
puts the row back to PROCESSING when the first has announced its result.

The lists are in this module too, as `PagedLists` is what `Collect` stands for, for any
number of rows, pages of any size and any of the lists. They need `NobodyFilters`: without it
`RowsWereListed` is false (ExportFilter). `Sequenced` chooses a sorted sequence; that there is
one, and where a row is in it, is shown by counting, as induction is out of reach. The
*place* of a row is one more than the number of rows `Before` it; places of different rows
differ and there are as many as rows, so each is taken. Then `ListInv`: `ListedOK` (what is
listed was listed at first or entered since, and was returned only then), `PassedOK` (as many
listed rows as a returned one has up to it, those that entered apart, were on the pages
already read) and `SteadyOK` (a row that stayed while nothing before it moved was returned
or has its place on a page to come, and was counted). `RowsAlwaysWereListed`,
`RowsAlwaysStayInOrder` and `MissesAlwaysArePulledUp` follow; `QuietReadingsAreExact` puts
them together: where nothing moved, the reading is the list.

**TenantScopeProofs**, for any depth of calls and any tenants and rows. `Inv` holds for the
whole stack, because what is checked at the top depends on what a pop uncovers. `StackOK`:
the owner is outermost, and an attempt has the tenant of the call it is made in, to which
its savepoint returns the session. `SessionOK`: store and session agree in an open
transaction, also while an error is on its way up - which `LayersAgree` does not say and the
end of a nested scope needs. `IdleOK`. `ErrorsOK`: an aborted transaction has an error on its
way, and that error is the cause unless it passed an `attempt()` after the timeout. `EventsOK`: what is held back was written
before every savepoint there is, so that none can undo it. `KeysOK`: references stay within
a tenant in the rows and in every saved state that can come back, without which an `include`
could come back empty. From `ScopeInvariant` follow `LayersAlwaysAgree`,
`ScopeAlwaysSeesItsTenant`, `AlwaysUsable`, `AlwaysAnnouncesTheCommitted` and
`CallerAlwaysSeesTheCause`.

**BootstrapProofs**, for any number of instances and environments. `OneOperator` needs only
the index and holds for any edits. With `~RollingEdits`, `Inv` adds `ConfigsOK` (every
instance that is not off read the `.env` there is), `FoundOK` (the operator that a boot found
has changed only towards `.env` since) and `ServedOK` (once an instance is up, the operator
is the one in `.env`): `AlwaysServesSafely`, `EnvAlwaysTakesEffect`.

**CompaniesProofs**, for any requests, companies, domains and pool. `Inv` adds to the types
`StagesOK` and `IdsOK` (the id of a company that is being created is nobody else's),
`LocksOK` (a row is locked by one request and is there while it is), `WrittenOK` (what a
request is about to commit: for a PATCH, the committed row with what was asked for) and
`DomainsOK` (nobody has, and nobody else has written, a domain that is written).
`CompaniesAlwaysComplete`, `DomainAlwaysNamesOneCompany` and `OnlyWhatIsAsked` follow.
`CompaniesRefineRegistry`: a `Commit` is the step of the register - the domain that was free
for the statement is free for the register, by `DomainsOK` - and everything else a stutter;
`CreatedOK` adds what the rows of a creation hold by then. `CompaniesKeepTheirDomain` follows
the domain through what is written (`NamedOK`): it is the one a creation asked for, the
committed one, or one that a PATCH named.

**NotificationsProofs**, for any users, sockets, tickets and requests. `TypeInv` adds `HeldOK`:
a request under way holds an event. `RolesOK`: a user nobody edits is in the rooms of their
role. `StaffOK`: whom a ticket, or a note on its way, is assigned to is staff.
`ScreensOK` strengthens `ScreensCatchUp` from tickets with no event on its way to tickets
with none that will reach *this tab*: without that, `Drain` of an event that does not reach
it could not be shown to leave its screen right. `ScreensAlwaysCatchUp` and
`NotesAlwaysStayWithStaff` follow; `TrailAlwaysAccounts` is a count, kept by every step
because the number of undrained events of a ticket changes by exactly one with a commit and
with a `Drain`, and moves to `lost` as a whole in a crash. `AdminRoomAsConnected` and
`CommentsGoByWhatIsThere` need no more than what the handshake, and the comment, have read
(`ConnectedOK`, `CommentsOK`), which their hypotheses keep true. `TicketsAreSeen` is the theorem
of the same name in TicketsProofs for the tickets of this module: its one-step `Create`,
`Update`, `ChangeStatus` and `Assign` are steps of the `TicketView` that the statements,
locks and rollbacks of Tickets implement too. So nothing is concluded here from tickets that
skip a version, reopen after closing or change their requester, none of which Tickets allows.
The view says what a step may do, not that each module takes every step of it.

Left to TLC: all liveness (`EveryRequestEnds`, `EveryReportSettles`, `BootsConverge`), which
depends on fairness and ENABLED, and the refutations of section 3. Every other property of a
run that passes has a theorem.

## 5. What is not modelled

* What a statement does to the columns of a row, apart from the tenant and the reference:
  TenantIsolation decides whether a statement is sent, which rows it finds and whether a row
  may be inserted. Each class of operations is represented by one or two of its members.
* Access tokens, bcrypt, token digests: equality. Expiry of refresh tokens: time. That
  hashing takes long while a connection is held is in Companies.
* Validation of request bodies and queries (DTOs), CSV, response shapes, Swagger, logging,
  module wiring: checks of single values and formatting. Where a DTO decides which requests
  exist, it is part of the action that accepts them.
* Free text: `Texts` and comments are values without content.
* The suspension of a company: see the end of section 3.
* The edits of one user by another are reduced, in Tickets and Notifications, to their
  effect on the user's row; their own races are in Users.
* In Notifications a ticket change is one step. Tickets and Notifications refine the same
  `TicketView`, which relates what is committed; the two are not composed statement by
  statement, and that an event is `before` and `after` of its commit is a property of Tickets
  (`OneRowPerVersion`).

## 6. Order of work

Tickets and its ledger came first, then Sessions and its chains, Users, Reports, the lists,
the tenant scope with the isolation it depends on, Notifications, Bootstrap with its
environment, and Companies; each with its run and its proofs; last the abstract register of
Companies, the proofs of the lists, and what the refuted claims would need.

What would add most from here:

1. A composition of Tickets with Notifications in which the ticket steps of the latter are
   the statements of the former. `TicketView` relates the rows of the two; what remains is the
   event of each change, from `before` and `after` to the screens.
2. Reports with two workers and the liveness property that does hold of them: which runs
   may leave a report PROCESSING.
3. Sessions with the time of expiry, and with the company, once the code says what a
   suspension does to sessions.
