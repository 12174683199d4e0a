------------------------- MODULE TenantScopeProofs -------------------------
(***************************************************************************)
(* Theorems about TenantScope and their proofs, for any tenants and rows   *)
(* and any depth of nesting.                                               *)
(***************************************************************************)
EXTENDS TenantScope, SequenceTheorems, TLAPS

Frame ==
  [kind : Kinds, tenant : Tenants \cup {NoTenant},
   saved : [session : Tenants \cup {NoTenant}, rows : SUBSET Row]]
Errors == {"none", "app", "db", "tx"}

TypeOK ==
  /\ frames \in Seq(Frame)
  /\ tx \in {"none", "open", "aborted", "closed"}
  /\ session \in Tenants \cup {NoTenant}
  /\ rows \in SUBSET Row
  /\ pending \in SUBSET Rows /\ committed \in SUBSET Rows /\ released \in SUBSET Rows
  /\ flight \in Errors /\ cause \in Errors
  /\ passed \in BOOLEAN

\* The owner is the outermost frame and the only one, and an attempt keeps the tenant
\* of the call it is made in, to which its savepoint returns.
StackOK ==
  /\ \A i \in 1 .. Len(frames) : frames[i].kind = "owner" <=> i = 1
  /\ \A i \in 1 .. Len(frames) : frames[i].kind = "attempt" =>
       /\ frames[i].tenant = frames[i - 1].tenant
       /\ frames[i].saved.session = frames[i].tenant

\* Outside every scope nothing is left over.
IdleOK ==
  /\ frames = <<>> <=> tx = "none"
  /\ frames = <<>> => flight = "none" /\ cause = "none" /\ pending = {}

\* The store and the session agree while an error is on its way up, too.
SessionOK == tx = "open" => session = Inner.tenant

ErrorsOK ==
  /\ tx = "aborted" => flight # "none"
  /\ flight = "none" => cause = "none"
  /\ flight # cause => tx = "closed" /\ flight = "tx" /\ passed

\* What is held back was written, and survives every savepoint there is.
EventsOK ==
  /\ released \subseteq committed
  /\ tx \in {"open", "aborted"} => pending \subseteq RowsOf(Written)
  /\ \A i \in 1 .. Len(frames) : frames[i].kind = "attempt" =>
       pending \subseteq RowsOf(frames[i].saved.rows \ Found0)

\* A reference is to a row of the same tenant, in every state that can come back.
Whole(ws) ==
  \A w \in ws : w.parent # NoRow => \E p \in ws : References(w, p)
KeysOK ==
  /\ Whole(rows)
  /\ \A i \in 1 .. Len(frames) : Whole(frames[i].saved.rows)

Inv == TypeOK /\ StackOK /\ IdleOK /\ SessionOK /\ ErrorsOK /\ EventsOK /\ KeysOK

----------------------------------------------------------------------------
\* What a push and a pop leave of the stack.
LEMMA Pushed ==
  ASSUME frames \in Seq(Frame), NEW kind \in Kinds, NEW t \in Tenants \cup {NoTenant},
         NEW saved \in [session : Tenants \cup {NoTenant}, rows : SUBSET Row],
         Push(kind, t, saved)
  PROVE  /\ frames' \in Seq(Frame)
         /\ frames' # <<>>
         /\ Len(frames) \in Nat
         /\ Len(frames') = Len(frames) + 1
         /\ \A i \in 1 .. Len(frames) : frames'[i] = frames[i]
         /\ frames'[Len(frames) + 1] = [kind |-> kind, tenant |-> t, saved |-> saved]
<1>1. [kind |-> kind, tenant |-> t, saved |-> saved] \in Frame
  BY DEF Frame
<1>2. QED BY <1>1, AppendProperties DEF Push

LEMMA Popped ==
  ASSUME frames \in Seq(Frame), frames # <<>>, Pop
  PROVE  /\ frames' \in Seq(Frame)
         /\ Len(frames) \in Nat \ {0}
         /\ Len(frames') = Len(frames) - 1
         /\ frames' = <<>> <=> Len(frames) = 1
         /\ \A i \in 1 .. Len(frames') : frames'[i] = frames[i]
<1>1. Len(frames) \in Nat \ {0}
  BY EmptySeq
<1> DEFINE front == SubSeq(frames, 1, Len(frames) - 1)
<1>2. \A i \in 1 .. Len(frames) - 1 : frames[i] \in Frame
  BY <1>1
<1>3. /\ front \in Seq(Frame)
      /\ Len(front) = IF 1 <= Len(frames) - 1 THEN Len(frames) - 1 - 1 + 1 ELSE 0
      /\ \A i \in 1 .. Len(frames) - 1 - 1 + 1 : front[i] = frames[1 + i - 1]
  <2>1. Len(frames) - 1 \in Int
    BY <1>1
  <2>2. QED BY <1>2, <2>1, SubSeqProperties
<1>4. frames' = front
  BY DEF Pop, Front
<1>5. /\ frames' \in Seq(Frame)
      /\ Len(frames') = Len(frames) - 1
      /\ \A i \in 1 .. Len(frames') : frames'[i] = frames[i]
  <2> HIDE DEF front
  <2>1. QED BY <1>1, <1>3, <1>4
<1>6. QED BY <1>1, <1>5, EmptySeq

\* The frames of a stack that is not empty.
LEMMA Stack ==
  ASSUME TypeOK, StackOK, frames # <<>>
  PROVE  /\ Len(frames) \in Nat \ {0}
         /\ \A i \in 1 .. Len(frames) :
              /\ frames[i] \in Frame
              /\ frames[i].tenant \in Tenants \cup {NoTenant}
              /\ frames[i].saved.session \in Tenants \cup {NoTenant}
              /\ frames[i].saved.rows \in SUBSET Row
         /\ Inner = frames[Len(frames)]
         /\ Inner.kind = "owner" <=> Len(frames) = 1
         /\ Found0 = frames[1].saved.rows
         /\ Found0 \in SUBSET Row
<1>1. frames \in Seq(Frame) /\ Len(frames) \in Nat \ {0}
  BY EmptySeq DEF TypeOK
<1>2. \A i \in 1 .. Len(frames) : frames[i] \in Frame
  BY <1>1
<1>3. \A i \in 1 .. Len(frames) :
        /\ frames[i].tenant \in Tenants \cup {NoTenant}
        /\ frames[i].saved.session \in Tenants \cup {NoTenant}
        /\ frames[i].saved.rows \in SUBSET Row
  BY <1>2 DEF Frame
<1>4. Inner.kind = "owner" <=> Len(frames) = 1
  <2>1. Len(frames) \in 1 .. Len(frames)
    BY <1>1
  <2>2. frames[Len(frames)].kind = "owner" <=> Len(frames) = 1
    BY <2>1, Zenon DEF StackOK
  <2>3. QED BY <2>2 DEF Inner
<1>5. QED BY <1>1, <1>2, <1>3, <1>4 DEF Inner, Found0

\* A tenant's scope is the one of the innermost call.
LEMMA ScopeTenant ==
  ASSUME TypeOK, StackOK, HasTenant(Scope)
  PROVE  /\ frames # <<>>
         /\ Scope.tenantId = Inner.tenant
         /\ Scope.tenantId \in Tenants
BY Stack DEF HasTenant, Scope, currentScope

----------------------------------------------------------------------------
LEMMA InitInv == Init => Inv
<1> SUFFICES ASSUME Init PROVE Inv OBVIOUS
<1>1. frames \in Seq(Frame) /\ Len(frames) = 0
  BY DEF Init
<1>2. rows \in SUBSET Row /\ \A w \in rows : w.parent = NoRow
  BY DEF Init
<1>3. TypeOK
  BY <1>1, <1>2 DEF Init, TypeOK, Errors
<1>4. StackOK /\ IdleOK /\ SessionOK /\ ErrorsOK /\ EventsOK
  BY <1>1 DEF Init, StackOK, IdleOK, SessionOK, ErrorsOK, EventsOK
<1>5. KeysOK
  BY <1>1, <1>2 DEF KeysOK, Whole
<1>6. QED BY <1>3, <1>4, <1>5 DEF Inv

LEMMA OpenKeepsInv ==
  ASSUME Inv, NEW t \in Tenants \cup {NoTenant}, Open(t)
  PROVE  Inv'
<1>1. frames = <<>> /\ Len(frames) = 0
  BY DEF Open
<1>2. Saved \in [session : Tenants \cup {NoTenant}, rows : SUBSET Row]
  BY DEF Inv, TypeOK, Saved
<1>3. /\ frames' \in Seq(Frame) /\ frames' # <<>> /\ Len(frames') = 1
      /\ frames'[1] = [kind |-> "owner", tenant |-> t, saved |-> Saved]
  BY <1>1, <1>2, Pushed DEF Inv, TypeOK, Open, Kinds
<1>4. TypeOK'
  BY <1>3 DEF Inv, TypeOK, Open, outcome, error
<1>5. StackOK'
  BY <1>3 DEF StackOK
<1>6. IdleOK' /\ SessionOK' /\ ErrorsOK'
  BY <1>1, <1>3 DEF Inv, Open, IdleOK, SessionOK, ErrorsOK, Inner, Running, outcome, error
<1>7. EventsOK'
  BY <1>3 DEF Inv, Open, EventsOK, outcome
<1>8. KeysOK'
  BY <1>3 DEF Inv, Open, KeysOK, Whole, Saved
<1>9. QED BY <1>4, <1>5, <1>6, <1>7, <1>8 DEF Inv

\* A call inside the scope is put on the stack: a nested scope, or an attempt().
LEMMA CallKeepsInv ==
  ASSUME Inv, frames # <<>>, tx = "open", Running,
         NEW t \in Tenants \cup {NoTenant},
         \/ Push("nested", t, Unsaved)
         \/ Push("attempt", t, Saved) /\ t = Inner.tenant,
         session' = t,
         UNCHANGED <<tx, rows, error, pending, outcome>>
  PROVE  Inv'
<1> DEFINE n == Len(frames)
<1>1. /\ Saved \in [session : Tenants \cup {NoTenant}, rows : SUBSET Row]
      /\ Unsaved \in [session : Tenants \cup {NoTenant}, rows : SUBSET Row]
  BY DEF Inv, TypeOK, Saved, Unsaved
<1>2. PICK kind \in {"nested", "attempt"}, saved \in {Saved, Unsaved} :
        /\ Push(kind, t, saved)
        /\ kind = "nested" => saved = Unsaved
        /\ kind = "attempt" => saved = Saved /\ t = Inner.tenant
  OBVIOUS
<1>3. n \in Nat \ {0} /\ Inner = frames[n] /\ Found0 = frames[1].saved.rows
  BY Stack DEF Inv
<1>4. /\ frames' \in Seq(Frame) /\ frames' # <<>> /\ Len(frames') = n + 1
      /\ \A i \in 1 .. n : frames'[i] = frames[i]
      /\ frames'[n + 1] = [kind |-> kind, tenant |-> t, saved |-> saved]
  BY <1>1, <1>2, Pushed DEF Inv, TypeOK, Kinds
<1>5. Found0' = Found0
  BY <1>3, <1>4 DEF Found0
<1>6. TypeOK'
  BY <1>4 DEF Inv, TypeOK, outcome, error
<1>7. StackOK'
  <2>1. session = Inner.tenant
    BY DEF Inv, SessionOK
  <2>2. QED BY <1>2, <1>3, <1>4, <2>1, SMTT(30) DEF Inv, StackOK, Saved
<1>8. IdleOK' /\ SessionOK' /\ ErrorsOK'
  BY <1>3, <1>4 DEF Inv, IdleOK, SessionOK, ErrorsOK, Inner, outcome, error
<1>9. EventsOK'
  <2>1. released' \subseteq committed' /\ pending' \subseteq RowsOf(Written')
    BY <1>5 DEF Inv, EventsOK, Written, outcome
  <2>2. \A i \in 1 .. n : frames'[i].kind = "attempt" =>
          pending' \subseteq RowsOf(frames'[i].saved.rows \ Found0')
    BY <1>4, <1>5 DEF Inv, EventsOK
  <2>3. kind = "attempt" => pending' \subseteq RowsOf(saved.rows \ Found0')
    <3>1. pending \subseteq RowsOf(rows \ Found0)
      BY DEF Inv, EventsOK, Written
    <3>2. kind = "attempt" => saved.rows = rows
      BY <1>2 DEF Saved
    <3>3. QED BY <1>5, <3>1, <3>2
  <2>4. frames'[n + 1].kind = kind /\ frames'[n + 1].saved = saved
    BY <1>4
  <2>5. \A i \in 1 .. Len(frames') : i \in 1 .. n \/ i = n + 1
    BY <1>3, <1>4
  <2>6. \A i \in 1 .. Len(frames') : frames'[i].kind = "attempt" =>
          pending' \subseteq RowsOf(frames'[i].saved.rows \ Found0')
    BY <2>2, <2>3, <2>4, <2>5
  <2>7. QED BY <2>1, <2>6 DEF EventsOK
<1>10. KeysOK'
  <2>1. Whole(saved.rows)
    BY <1>2 DEF Inv, KeysOK, Whole, Saved, Unsaved
  <2>2. Whole(rows') /\ Whole(saved.rows)
    BY <2>1 DEF Inv, KeysOK
  <2>3. QED BY <1>3, <1>4, <2>2 DEF Inv, KeysOK, Whole
<1>11. QED BY <1>6, <1>7, <1>8, <1>9, <1>10 DEF Inv

\* An error sets out: the stack and the rows stay.
LEMMA ThrownKeepsInv ==
  ASSUME Inv, frames # <<>>, NEW e \in Errors \ {"none"}, Thrown(e),
         tx' \in {tx, "aborted"}, tx' = tx \/ tx = "open",
         UNCHANGED <<frames, session, rows, pending, outcome>>
  PROVE  Inv'
<1>1. TypeOK'
  BY DEF Inv, TypeOK, Thrown, outcome
<1>2. StackOK' /\ KeysOK'
  BY DEF Inv, StackOK, KeysOK, Whole
<1>3. IdleOK' /\ SessionOK' /\ ErrorsOK'
  BY DEF Inv, TypeOK, IdleOK, SessionOK, ErrorsOK, Inner, Thrown
<1>4. EventsOK'
  BY DEF Inv, EventsOK, Written, Found0, outcome
<1>5. QED BY <1>1, <1>2, <1>3, <1>4 DEF Inv

LEMMA AnsweredKeepsInv ==
  ASSUME Inv, NEW q \in Statements, Answered(q)
  PROVE  Inv'
<1> DEFINE new == Inserted(Scope, Connection, rows, q)
<1>1. Scope.tenantId \in Tenants
  BY ScopeTenant DEF Inv, Answered, Refuses
<1>2. rows' = rows \cup new /\ \A w \in new : Accepts(Connection, rows, w)
  BY DEF Answered
<1>3. new \in SUBSET Row
  BY <1>1 DEF Inserted, Row, Statements
<1>4. TypeOK'
  BY <1>2, <1>3 DEF Inv, TypeOK, Answered, outcome, error
<1>5. StackOK' /\ IdleOK' /\ SessionOK' /\ ErrorsOK'
  BY DEF Inv, StackOK, IdleOK, SessionOK, ErrorsOK, Inner, Answered, error
<1>6. EventsOK'
  BY <1>2 DEF Inv, EventsOK, Written, Found0, RowsOf, Answered, outcome
<1>7. KeysOK'
  <2>1. Whole(rows')
    BY <1>2 DEF Inv, KeysOK, Whole, Accepts
  <2>2. QED BY <2>1 DEF Inv, KeysOK, Whole, Answered
<1>8. QED BY <1>4, <1>5, <1>6, <1>7 DEF Inv

LEMMA EmitKeepsInv ==
  ASSUME Inv, NEW r \in Rows, Emit(r)
  PROVE  Inv'
<1>1. TypeOK' /\ StackOK' /\ KeysOK'
  BY DEF Inv, TypeOK, StackOK, KeysOK, Whole, Emit, database, outcome, error
<1>2. IdleOK' /\ SessionOK' /\ ErrorsOK'
  BY DEF Inv, IdleOK, SessionOK, ErrorsOK, Inner, Emit, database, error
<1>3. EventsOK'
  BY DEF Inv, EventsOK, Written, Found0, Emit, database, outcome
<1>4. QED BY <1>1, <1>2, <1>3 DEF Inv

LEMMA ExpireKeepsInv ==
  ASSUME Inv, Expire
  PROVE  Inv'
<1>1. frames # <<>>
  BY DEF Inv, IdleOK, Expire
<1>2. Found0 \in SUBSET Row /\ Whole(Found0)
  BY <1>1, Stack DEF Inv, KeysOK
<1>3. TypeOK'
  BY <1>2 DEF Inv, TypeOK, Expire, outcome, error
<1>4. StackOK' /\ IdleOK' /\ SessionOK' /\ ErrorsOK' /\ EventsOK'
  BY DEF Inv, StackOK, IdleOK, SessionOK, ErrorsOK, EventsOK, Found0, Expire,
         outcome, error
<1>5. KeysOK'
  BY <1>2 DEF Inv, KeysOK, Whole, Expire
<1>6. QED BY <1>3, <1>4, <1>5 DEF Inv

----------------------------------------------------------------------------
\* What every return to an enclosing call keeps.
LEMMA ReturnKeepsStack ==
  ASSUME Inv, frames # <<>>, Inner.kind # "owner", Pop
  PROVE  /\ frames' \in Seq(Frame) /\ frames' # <<>>
         /\ Len(frames) \in Nat /\ Len(frames) > 1
         /\ Len(frames') = Len(frames) - 1
         /\ \A i \in 1 .. Len(frames') : frames'[i] = frames[i]
         /\ Inner' = frames[Len(frames) - 1]
         /\ Found0' = Found0
         /\ StackOK'
<1>1. Len(frames) \in Nat \ {0} /\ Len(frames) # 1
  BY Stack DEF Inv
<1>2. /\ frames' \in Seq(Frame) /\ frames' # <<>>
      /\ Len(frames') = Len(frames) - 1
      /\ \A i \in 1 .. Len(frames') : frames'[i] = frames[i]
  BY <1>1, Popped DEF Inv, TypeOK
<1>3. Inner' = frames[Len(frames) - 1] /\ Found0' = Found0
  BY <1>1, <1>2 DEF Inner, Found0
<1>4. StackOK'
  BY <1>1, <1>2, SMTT(30) DEF Inv, StackOK
<1>5. QED BY <1>1, <1>2, <1>3, <1>4

\* ... and so do the events and the rows, where the return leaves them alone.
LEMMA ReturnKeepsEvents ==
  ASSUME Inv, frames # <<>>, Inner.kind # "owner", Pop,
         UNCHANGED <<tx, rows, pending, committed, released>>
  PROVE  EventsOK'
<1>1. Len(frames) > 1 /\ Len(frames) \in Nat /\ Len(frames') = Len(frames) - 1
  BY ReturnKeepsStack
<1>2. \A i \in 1 .. Len(frames') : i \in 1 .. Len(frames) /\ frames'[i] = frames[i]
  BY <1>1, ReturnKeepsStack
<1>3. \A i \in 1 .. Len(frames') : frames'[i].kind = "attempt" =>
        pending' \subseteq RowsOf(frames'[i].saved.rows \ Found0')
  BY <1>2, ReturnKeepsStack DEF Inv, EventsOK
<1>4. Written' = Written
  BY ReturnKeepsStack DEF Written
<1>5. QED BY <1>3, <1>4 DEF Inv, EventsOK

\* The tenant that an attempt() ends with is the one of the call around it.
LEMMA AttemptKeepsTenant ==
  ASSUME Inv, frames # <<>>, Inner.kind = "attempt"
  PROVE  /\ Inner.tenant = frames[Len(frames) - 1].tenant
         /\ Inner.saved.session = Inner.tenant
         /\ Inner.saved \in [session : Tenants \cup {NoTenant}, rows : SUBSET Row]
         /\ pending \subseteq RowsOf(Inner.saved.rows \ Found0)
         /\ Whole(Inner.saved.rows)
<1>1. Len(frames) \in 1 .. Len(frames) /\ Inner = frames[Len(frames)]
  BY Stack DEF Inv
<1>2. /\ Inner.tenant = frames[Len(frames) - 1].tenant
      /\ Inner.saved.session = Inner.tenant
  BY <1>1 DEF Inv, StackOK
<1>3. Inner.saved \in [session : Tenants \cup {NoTenant}, rows : SUBSET Row]
  BY <1>1, Stack DEF Inv, Frame
<1>4. pending \subseteq RowsOf(Inner.saved.rows \ Found0)
  BY <1>1 DEF Inv, EventsOK
<1>5. Whole(Inner.saved.rows)
  BY <1>1 DEF Inv, KeysOK
<1>6. QED BY <1>2, <1>3, <1>4, <1>5

LEMMA LeaveNestedKeepsInv ==
  ASSUME Inv, LeaveNested
  PROVE  Inv'
<1>1. frames # <<>> /\ Inner.kind # "owner" /\ Pop
  BY DEF LeaveNested
<1>2. Len(frames) - 1 \in 1 .. Len(frames)
  BY <1>1, ReturnKeepsStack
<1>3. frames[Len(frames) - 1].tenant \in Tenants \cup {NoTenant}
  BY <1>1, <1>2, Stack DEF Inv
<1>4. TypeOK'
  BY <1>1, <1>3, ReturnKeepsStack
     DEF Inv, TypeOK, LeaveNested, RestoredTenant, ErrorAfterRestore, outcome
<1>5. IdleOK' /\ SessionOK' /\ ErrorsOK'
  BY <1>1, ReturnKeepsStack
     DEF Inv, IdleOK, SessionOK, ErrorsOK, LeaveNested, RestoredTenant, ErrorAfterRestore
<1>6. EventsOK'
  BY <1>1, ReturnKeepsEvents DEF LeaveNested, outcome
<1>7. KeysOK'
  BY <1>1, ReturnKeepsStack DEF Inv, KeysOK, Whole, LeaveNested
<1>8. QED BY <1>1, <1>4, <1>5, <1>6, <1>7, ReturnKeepsStack DEF Inv

LEMMA ReleaseKeepsInv ==
  ASSUME Inv, Release
  PROVE  Inv'
<1>1. frames # <<>> /\ Inner.kind = "attempt" /\ Inner.kind # "owner" /\ Pop
  BY DEF Release
<1>2. TypeOK'
  BY <1>1, ReturnKeepsStack DEF Inv, TypeOK, Release, database, outcome, error
<1>3. IdleOK' /\ ErrorsOK'
  BY <1>1, ReturnKeepsStack DEF Inv, IdleOK, ErrorsOK, Release, database, error
<1>4. SessionOK'
  BY <1>1, ReturnKeepsStack, AttemptKeepsTenant DEF Inv, SessionOK, Release, database
<1>5. EventsOK'
  BY <1>1, ReturnKeepsEvents DEF Release, database, outcome
<1>6. KeysOK'
  BY <1>1, ReturnKeepsStack DEF Inv, KeysOK, Whole, Release, database
<1>7. QED BY <1>1, <1>2, <1>3, <1>4, <1>5, <1>6, ReturnKeepsStack DEF Inv

LEMMA RollbackToKeepsInv ==
  ASSUME Inv, RollbackTo
  PROVE  Inv'
<1>1. frames # <<>> /\ Inner.kind = "attempt" /\ Inner.kind # "owner" /\ Pop
  BY DEF RollbackTo
<1>2. tx # "none"
  BY <1>1 DEF Inv, IdleOK
<1>3. TypeOK'
  BY <1>1, ReturnKeepsStack, AttemptKeepsTenant
     DEF Inv, TypeOK, RollbackTo, TxAfterRollbackTo, outcome, error, Errors
<1>4. IdleOK'
  BY <1>1, ReturnKeepsStack DEF Inv, IdleOK, RollbackTo, TxAfterRollbackTo
<1>5. SessionOK'
  BY <1>1, ReturnKeepsStack, AttemptKeepsTenant
     DEF Inv, SessionOK, RollbackTo, TxAfterRollbackTo
<1>6. ErrorsOK'
  BY <1>2 DEF Inv, TypeOK, ErrorsOK, RollbackTo, TxAfterRollbackTo, error
<1>7. EventsOK'
  <2>1. tx' # "closed" => pending' \subseteq RowsOf(Written')
    BY <1>1, ReturnKeepsStack, AttemptKeepsTenant
       DEF RollbackTo, TxAfterRollbackTo, Written
  <2>2. QED BY <1>1, <2>1, ReturnKeepsStack DEF Inv, EventsOK, RollbackTo, outcome
<1>8. KeysOK'
  <2>1. Whole(rows')
    BY <1>1, AttemptKeepsTenant DEF Inv, KeysOK, Whole, RollbackTo
  <2>2. QED BY <1>1, <2>1, ReturnKeepsStack, SMTT(30) DEF Inv, KeysOK, Whole
<1>9. QED BY <1>1, <1>3, <1>4, <1>5, <1>6, <1>7, <1>8, ReturnKeepsStack DEF Inv

\* The owner is all there is on the stack: with it, everything is over.
LEMMA OverKeepsInv ==
  ASSUME Inv, frames # <<>>, Inner.kind = "owner", Over,
         rows' \in {rows, Found0},
         committed' \in SUBSET Rows, released' \in SUBSET Rows,
         released' \subseteq committed'
  PROVE  Inv'
<1>1. Len(frames) = 1 /\ Found0 \in SUBSET Row
  BY Stack DEF Inv
<1>2. frames' = <<>> /\ frames' \in Seq(Frame) /\ Len(frames') = 0
  BY <1>1, Popped DEF Inv, TypeOK, Over
<1>3. Whole(rows')
  BY <1>1 DEF Inv, KeysOK, Whole, Found0
<1>4. TypeOK'
  BY <1>1, <1>2 DEF Inv, TypeOK, Over, Errors
<1>5. StackOK' /\ IdleOK' /\ SessionOK' /\ ErrorsOK'
  BY <1>2 DEF StackOK, IdleOK, SessionOK, ErrorsOK, Over
<1>6. EventsOK' /\ KeysOK'
  BY <1>2, <1>3 DEF EventsOK, KeysOK, Whole, Over
<1>7. QED BY <1>4, <1>5, <1>6 DEF Inv

LEMMA CommitKeepsInv ==
  ASSUME Inv, Commit
  PROVE  Inv'
<1>1. pending \subseteq RowsOf(Written)
  BY DEF Inv, EventsOK, Commit
<1>2. released' \subseteq committed'
  BY <1>1 DEF Inv, EventsOK, Commit
<1>3. RowsOf(Written) \in SUBSET Rows
  BY DEF Inv, TypeOK, RowsOf, Written, Row
<1>4. committed' \in SUBSET Rows /\ released' \in SUBSET Rows
  BY <1>3 DEF Inv, TypeOK, Commit
<1>5. QED BY <1>2, <1>4, OverKeepsInv DEF Commit

LEMMA RollbackKeepsInv ==
  ASSUME Inv, Rollback
  PROVE  Inv'
<1>1. committed' = committed /\ released' = released
  BY DEF Rollback, ReleasedOnRollback
<1>2. committed' \in SUBSET Rows /\ released' \in SUBSET Rows /\ released' \subseteq committed'
  BY <1>1 DEF Inv, TypeOK, EventsOK
<1>3. QED BY <1>2, OverKeepsInv DEF Rollback

----------------------------------------------------------------------------
LEMMA NextKeepsInv == Inv /\ [Next]_vars => Inv'
<1> SUFFICES ASSUME Inv, [Next]_vars PROVE Inv' OBVIOUS
<1> USE DEF Errors
<1>1. ASSUME NEW t \in Tenants \cup {NoTenant}, Open(t) PROVE Inv'
  BY <1>1, OpenKeepsInv
<1>2. ASSUME NEW t \in Tenants \cup {NoTenant}, Nest(t) PROVE Inv'
  <2>1. CASE tx = "open"
    BY <1>2, <2>1, CallKeepsInv DEF Nest
  <2>2. CASE tx # "open"
    BY <1>2, <2>2, ThrownKeepsInv DEF Nest, database
  <2>3. QED BY <2>1, <2>2
<1>3. ASSUME NEW q \in Statements, Refused(q) PROVE Inv'
  BY <1>3, ThrownKeepsInv DEF Refused, database
<1>4. ASSUME NEW q \in Statements, Answered(q) PROVE Inv'
  BY <1>4, AnsweredKeepsInv
<1>5. ASSUME NEW r \in Rows, Emit(r) PROVE Inv'
  BY <1>5, EmitKeepsInv
<1>6. CASE Fail
  BY <1>6, ThrownKeepsInv DEF Fail
<1>7. CASE Attempt
  <2>1. CASE tx = "open"
    <3>1. Inner.tenant \in Tenants \cup {NoTenant}
      BY <1>7, Stack DEF Inv, Attempt
    <3>2. session' = Inner.tenant
      BY <1>7, <2>1 DEF Inv, SessionOK, Attempt, database
    <3>3. QED BY <1>7, <2>1, <3>1, <3>2, CallKeepsInv DEF Attempt, database
  <2>2. CASE tx # "open"
    BY <1>7, <2>2, ThrownKeepsInv DEF Attempt, database
  <2>3. QED BY <2>1, <2>2
<1>8. CASE Throw
  BY <1>8, ThrownKeepsInv DEF Throw, database
<1>9. CASE Expire
  BY <1>9, ExpireKeepsInv
<1>10. CASE LeaveNested
  BY <1>10, LeaveNestedKeepsInv
<1>11. CASE Release
  BY <1>11, ReleaseKeepsInv
<1>12. CASE ReleaseFails
  BY <1>12, ThrownKeepsInv DEF ReleaseFails, database
<1>13. CASE RollbackTo
  BY <1>13, RollbackToKeepsInv
<1>14. CASE Commit
  BY <1>14, CommitKeepsInv
<1>15. CASE Rollback
  BY <1>15, RollbackKeepsInv
<1>16. CASE UNCHANGED vars
  BY <1>16 DEF vars, outcome, error, Inv, TypeOK, StackOK, IdleOK, SessionOK, ErrorsOK,
               EventsOK, KeysOK, Whole, Inner, Written, Found0
<1>17. QED
  BY <1>1, <1>2, <1>3, <1>4, <1>5, <1>6, <1>7, <1>8, <1>9, <1>10, <1>11, <1>12,
     <1>13, <1>14, <1>15, <1>16 DEF Next

\* The invariant that everything else follows from: the stack of calls, the session
\* and the queue of events fit together in every state of TenantScopeService, whatever
\* was thrown, caught or rolled back on the way.
THEOREM ScopeInvariant == Spec => []Inv
BY InitInv, NextKeepsInv, PTL DEF Spec

\* The tenant of the store, which the extension reads, and that of the session, which
\* the policies read, are the same at any depth of runNested() and attempt().
THEOREM LayersAlwaysAgree == Spec => []LayersAgree
<1>1. Inv => LayersAgree
  BY DEF Inv, SessionOK, LayersAgree
<1>2. QED BY <1>1, ScopeInvariant, PTL

\* A statement finds its tenant's rows and no other's, through both layers and through
\* either of them.
THEOREM ScopeAlwaysSeesItsTenant == Spec => []ScopeSeesItsTenant
<1>1. ASSUME Inv, Running, tx \in {"open", "none"},
             NEW own, own = {w \in rows : HasTenant(Scope) /\ w.tenant = Scope.tenantId}
      PROVE  /\ Found(Scope, Connection, rows) = own
             /\ FoundRaw(Connection, rows) = own
             /\ \A w \in own : w.parent # NoRow => Included(Connection, rows, w) # {}
             /\ \A t \in scopeAgnostic(Scope) : Connection \in {t, NoTenant}
  <2>1. CASE HasTenant(Scope)
    <3>1. frames # <<>> /\ Scope.tenantId = Inner.tenant /\ Scope.tenantId \in Tenants
      BY <1>1, <2>1, ScopeTenant DEF Inv
    <3>2. Connection = Scope.tenantId /\ Connection # NoTenant
      BY <1>1, <3>1, NoTenantAssumption DEF Inv, SessionOK, IdleOK, Connection
    <3>3. own = {w \in rows : w.tenant = Connection}
      BY <1>1, <2>1, <3>2
    <3>4. Policy(Connection, rows) = own
      BY <3>2, <3>3 DEF Policy
    <3>5. ASSUME NEW w \in own, w.parent # NoRow
          PROVE  Included(Connection, rows, w) # {}
      <4>1. PICK p \in rows : References(w, p)
        BY <1>1, <3>3, <3>5 DEF Inv, KeysOK, Whole
      <4>2. p \in Included(Connection, rows, w)
        BY <3>3, <3>4, <4>1 DEF Included, References
      <4>3. QED BY <4>2
    <3>6. Found(Scope, Connection, rows) = own
      BY <2>1, <3>2, <3>3, <3>4 DEF Found, scopeWhere
    <3>7. scopeAgnostic(Scope) = {Connection}
      BY <2>1, <3>2 DEF scopeAgnostic, HasTenant
    <3>8. QED BY <3>4, <3>5, <3>6, <3>7 DEF FoundRaw
  <2>2. CASE ~HasTenant(Scope)
    <3>1. frames # <<>> => Inner.tenant = NoTenant
      BY <2>2 DEF HasTenant, Scope, currentScope
    <3>2. Connection = NoTenant
      BY <1>1, <3>1 DEF Inv, SessionOK, IdleOK, Connection
    <3>3. own = {} /\ Found(Scope, Connection, rows) = {}
      BY <1>1, <2>2 DEF Found
    <3>4. FoundRaw(Connection, rows) = {}
      BY <3>2 DEF FoundRaw, Policy
    <3>5. QED BY <3>2, <3>3, <3>4
  <2>3. QED BY <2>1, <2>2
<1>2. Inv => ScopeSeesItsTenant
  BY <1>1 DEF ScopeSeesItsTenant
<1>3. QED BY <1>2, ScopeInvariant, PTL

\* attempt() leaves no aborted transaction to the code that goes on after it.
THEOREM AlwaysUsable == Spec => []UsableUnlessThrowing
<1>1. Inv => UsableUnlessThrowing
  BY DEF Inv, ErrorsOK, UsableUnlessThrowing, Running
<1>2. QED BY <1>1, ScopeInvariant, PTL

\* DomainEvents releases nothing whose change was rolled back: no savepoint can undo
\* what is held back, and the queue of a scope that is rolled back goes with it.
THEOREM AlwaysAnnouncesTheCommitted == Spec => []AnnouncedIsCommitted
<1>1. Inv => AnnouncedIsCommitted
  BY DEF Inv, EventsOK, AnnouncedIsCommitted
<1>2. QED BY <1>1, ScopeInvariant, PTL

\* What the caller of run() gets is the error that was thrown, however many nested
\* scopes and attempts it passed and however many setTenant() of theirs failed, unless an
\* attempt() had to roll back on a transaction that had timed out: CallerSeesTheCause.
THEOREM CallerAlwaysSeesTheCause == Spec => []CallerSeesTheCause
<1>1. Inv => CallerSeesTheCause
  BY DEF Inv, ErrorsOK, CallerSeesTheCause
<1>2. QED BY <1>1, ScopeInvariant, PTL
============================================================================
