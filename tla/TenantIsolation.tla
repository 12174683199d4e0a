-------------------------- MODULE TenantIsolation --------------------------
(***************************************************************************)
(* What becomes of a statement on its way to the rows: the tenancy         *)
(* extension rewrites or refuses it, by the scope of the store; the        *)
(* policies of PostgreSQL filter it, by the tenant of the session it is    *)
(* sent on; the keys refuse what the rest let through.                     *)
(*                                                                         *)
(* A statement is [op, row, named, moves, parent]: the operation, the row  *)
(* it is about, the tenantId in the data of its create half (or Unnamed),  *)
(* whether the data of its update half names one, and the row that the new *)
(* row refers to.  A table is a set of rows [row, tenant, parent].         *)
(***************************************************************************)
CONSTANTS
  Tenants, Rows,
  NoTenant,  \* of runWithoutTenant(), and of a session that was never told one
  NoRow,     \* a reference that is null
  Unnamed    \* no tenantId in the data

\* The operations, one or two of each class of tenant-extension.ts.
WHERE_OPERATIONS == {"findMany"}
UPDATE_OPERATIONS == {"updateMany"}
CREATE_OPERATIONS == {"create"}
UNSUPPORTED_OPERATIONS == {"findRaw"}
Operations == WHERE_OPERATIONS \cup UPDATE_OPERATIONS \cup CREATE_OPERATIONS
                \cup UNSUPPORTED_OPERATIONS \cup {"upsert", "unclassified"}

Creates(q) == q.op \in CREATE_OPERATIONS \cup {"upsert"}
Updates(q) == q.op \in UPDATE_OPERATIONS \cup {"upsert"}

Statements ==
  [op : Operations, row : Rows, named : Tenants \cup {Unnamed}, moves : BOOLEAN,
   parent : Rows \cup {NoRow}]

Row == [row : Rows, tenant : Tenants, parent : Rows \cup {NoRow}]

----------------------------------------------------------------------------
\* What the store says: "none" outside every scope.
currentScope(inside, tenant) ==
  IF ~inside THEN [kind |-> "none"]
  ELSE IF tenant = NoTenant THEN [kind |-> "unscoped"]
  ELSE [kind |-> "tenant", tenantId |-> tenant]

\* requireTenantId() answers; otherwise it throws, in tenantScoped() as well.
HasTenant(scope) == scope.kind = "tenant"

rejectTenantRewrite(q) == Updates(q) /\ q.moves

\* stampTenant() throws for a tenant that is not the scope's.
NamesAnother(q, scope) ==
  HasTenant(scope) /\ Creates(q) /\ q.named \notin {Unnamed, scope.tenantId}

Classified(q) ==
  q.op \in WHERE_OPERATIONS \cup UPDATE_OPERATIONS \cup CREATE_OPERATIONS \cup {"upsert"}

\* The extension throws, and nothing is sent.
Refuses(scope, q) ==
  \/ q.op \in UNSUPPORTED_OPERATIONS
  \/ ~HasTenant(scope)
  \/ ~Classified(q)
  \/ rejectTenantRewrite(q) \/ NamesAnother(q, scope)

\* scopeWhere(): the filter that is put last, over whatever the caller gave.
scopeWhere(scope, rows) == {w \in rows : w.tenant = scope.tenantId}

\* scopeAgnostic(): the companies that a read of the Tenant model finds.
scopeAgnostic(scope) ==
  IF scope.kind = "unscoped" THEN Tenants
  ELSE IF HasTenant(scope) THEN {scope.tenantId} ELSE {}

----------------------------------------------------------------------------
\* USING of tenant_isolation: nullif() makes an unset tenant equal to no row's.
Policy(session, rows) == {w \in rows : session # NoTenant /\ w.tenant = session}

\* A foreign key names the row by tenant and id, so that nothing else can be meant.
\* Mutant: by id alone, as Prisma generates it by default.
References(w, p) == p.row = w.parent /\ p.tenant = w.tenant
ReferencesById(w, p) == p.row = w.parent

\* WITH CHECK, the primary key and the foreign keys of a row that is inserted.
Accepts(session, rows, w) ==
  /\ Policy(session, {w}) = {w}
  /\ \A p \in rows : p.row # w.row
  /\ w.parent = NoRow \/ \E p \in rows : References(w, p)

\* The row that a statement inserts: an upsert, when its own row is not found.
Inserted(scope, session, rows, q) ==
  {w \in [row : {q.row}, tenant : {scope.tenantId}, parent : {q.parent}] :
     \/ q.op \in CREATE_OPERATIONS
     \/ /\ q.op = "upsert"
        /\ \A p \in scopeWhere(scope, Policy(session, rows)) : p.row # q.row}

\* What findMany({}) of a scope returns, and what $queryRaw does, which passes the
\* extension by.
Found(scope, session, rows) ==
  IF HasTenant(scope) THEN scopeWhere(scope, Policy(session, rows)) ELSE {}
FoundRaw(session, rows) == Policy(session, rows)

\* include: the extension does not filter it, the policies do.
Included(session, rows, w) == {p \in Policy(session, rows) : p.row = w.parent}
============================================================================
