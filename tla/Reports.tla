------------------------------ MODULE Reports ------------------------------
(***************************************************************************)
(* The asynchronous export: ReportsService inserts a row and enqueues a    *)
(* job, ReportsProcessor runs the job and fills the row in.                *)
(*                                                                         *)
(* The request is one transaction, and the job reaches Redis from inside   *)
(* it.  A run of the worker is a series of scopes, each its own            *)
(* transaction, with the announcement between two of them.                 *)
(*                                                                         *)
(* The queue is BullMQ's and external: one attempt (the default options,   *)
(* src/app.module.ts), one job at a time per worker, a lock that expires   *)
(* when its worker dies or blocks for too long.  What the rows of the CSV  *)
(* are is the Export module's.                                             *)
(***************************************************************************)
EXTENDS Naturals

CONSTANTS
  Reports,    \* the reports that can be asked for
  Workers,    \* the processes that run a ReportsProcessor
  MaxStalls,  \* how often BullMQ gives a stalled job to a worker again
  NoRow, NoReport, NoWorker

VARIABLES
  row,      \* committed reports rows, or NoRow
  request,  \* where the request for each report stands
  queue,    \* the job of each report: its state, who holds its lock, its stalls
  run,      \* what each worker is doing
  told,     \* the outcomes announced to the requester of each report
  missed,   \* reports some updateMany found no row for (for the properties alone)
  unsaid    \* reports whose failure the worker could not record, or which it could not
            \* mark PROCESSING (for the properties alone)

vars == <<row, request, queue, run, told, missed, unsaid>>

Outcomes == {"COMPLETED", "FAILED"}
Row == [status: {"PENDING", "PROCESSING"} \cup Outcomes,
        content: BOOLEAN, error: BOOLEAN]
Job == [state: {"absent", "waiting", "active", "completed", "failed"},
        by: Workers \cup {NoWorker}, stalls: 0 .. MaxStalls + 1]
Writing == {"taken", "collecting", "collected", "failing"}
Stages == {"idle", "completed", "recorded", "returned", "thrown"} \cup Writing
Run == [stage: Stages, report: Reports \cup {NoReport}]
Requests == {"none", "inserted", "enqueued", "answered", "lost"}

NoRowIsNoRow == NoRow \notin Row
ASSUME NoRowAssumption == NoRowIsNoRow
ASSUME NullsAssumption == NoReport \notin Reports /\ NoWorker \notin Workers
ASSUME MaxStallsAssumption == MaxStalls \in Nat

Idle == [stage |-> "idle", report |-> NoReport]
Absent == [state |-> "absent", by |-> NoWorker, stalls |-> 0]

Init ==
  /\ row = [r \in Reports |-> NoRow]
  /\ request = [r \in Reports |-> "none"]
  /\ queue = [r \in Reports |-> Absent]
  /\ run = [w \in Workers |-> Idle]
  /\ told = [r \in Reports |-> {}]
  /\ missed = {}
  /\ unsaid = {}

----------------------------------------------------------------------------
\* requestTicketReport(), in the transaction of its request.

Insert(r) ==
  /\ request[r] = "none"
  /\ request' = [request EXCEPT ![r] = "inserted"]
  /\ UNCHANGED <<row, queue, run, told, missed, unsaid>>

\* queue.add(): Redis takes part in no transaction.
Enqueue(r) ==
  /\ request[r] = "inserted"
  /\ request' = [request EXCEPT ![r] = "enqueued"]
  /\ queue' = [queue EXCEPT ![r].state = "waiting"]
  /\ UNCHANGED <<row, run, told, missed, unsaid>>

Commit(r) ==
  /\ request[r] = "enqueued"
  /\ request' = [request EXCEPT ![r] = "answered"]
  /\ row' = [row EXCEPT ![r] = [status |-> "PENDING", content |-> FALSE,
                                error |-> FALSE]]
  /\ UNCHANGED <<queue, run, told, missed, unsaid>>

\* queue.add() throws, the scope times out, the commit fails or the process dies.
Rollback(r) ==
  /\ request[r] \in {"inserted", "enqueued"}
  /\ request' = [request EXCEPT ![r] = "lost"]
  /\ UNCHANGED <<row, queue, run, told, missed, unsaid>>

----------------------------------------------------------------------------
\* BullMQ.

Take(w, r) ==
  /\ run[w].stage = "idle"
  /\ queue[r].state = "waiting"
  /\ queue' = [queue EXCEPT ![r].state = "active", ![r].by = w]
  /\ run' = [run EXCEPT ![w] = [stage |-> "taken", report |-> r]]
  /\ UNCHANGED <<row, request, told, missed, unsaid>>

\* Mutant: a job may stall once too often.
StalledOnceMore(j) ==
  [state |-> IF j.stalls <= MaxStalls THEN "waiting" ELSE "failed", by |-> NoWorker,
   stalls |-> j.stalls + 1]
Stalled(j) ==
  [state |-> IF j.stalls < MaxStalls THEN "waiting" ELSE "failed", by |-> NoWorker,
   stalls |-> j.stalls + 1]

\* The lock of an active job expired, whether or not its worker is gone.
Stall(r) ==
  /\ queue[r].state = "active"
  /\ queue' = [queue EXCEPT ![r] = Stalled(@)]
  /\ UNCHANGED <<row, request, run, told, missed, unsaid>>

\* Mutant: the queue is told to try a failed job again.
FinishedOrRetried(j, state) ==
  IF state = "failed" THEN [j EXCEPT !.state = "waiting", !.by = NoWorker]
  ELSE [j EXCEPT !.state = state, !.by = NoWorker]
Finished(j, state) == [j EXCEPT !.state = state, !.by = NoWorker]

\* process() returned or threw.  A worker that lost the lock changes nothing.
Return(w) ==
  /\ run[w].stage \in {"returned", "thrown"}
  /\ LET r == run[w].report
         state == IF run[w].stage = "returned" THEN "completed" ELSE "failed"
     IN  queue' = IF queue[r].by = w
                  THEN [queue EXCEPT ![r] = Finished(@, state)] ELSE queue
  /\ run' = [run EXCEPT ![w] = Idle]
  /\ UNCHANGED <<row, request, told, missed, unsaid>>

\* The process dies in the middle of a run, and starts again.
Crash(w) ==
  /\ run[w].stage # "idle"
  /\ run' = [run EXCEPT ![w] = Idle]
  /\ UNCHANGED <<row, request, queue, told, missed, unsaid>>

----------------------------------------------------------------------------
\* ReportsProcessor.process().

Advance(w, stage) == run' = [run EXCEPT ![w].stage = stage]

\* updateMany, in a scope of its own: the row, if there is one to see.
UpdateMany(r, values) ==
  \/ /\ row[r] # NoRow
     /\ row' = [row EXCEPT ![r] = values]
     /\ UNCHANGED missed
  \/ /\ row[r] = NoRow
     /\ missed' = missed \cup {r}
     /\ UNCHANGED row

\* setStatus(PROCESSING), before the try.
Mark(w) ==
  /\ run[w].stage = "taken"
  /\ LET r == run[w].report
     IN  UpdateMany(r, [row[r] EXCEPT !.status = "PROCESSING"])
  /\ Advance(w, "collecting")
  /\ UNCHANGED <<request, queue, told, unsaid>>

\* collect(): it reads only.
Collect(w) ==
  /\ run[w].stage = "collecting"
  /\ Advance(w, "collected")
  /\ UNCHANGED <<row, request, queue, told, missed, unsaid>>

Complete(w) ==
  /\ run[w].stage = "collected"
  /\ UpdateMany(run[w].report,
                [status |-> "COMPLETED", content |-> TRUE, error |-> FALSE])
  /\ Advance(w, "completed")
  /\ UNCHANGED <<request, queue, told, unsaid>>

\* Mutant: the result is written after the try.
UncaughtResult(stage) == IF stage = "collecting" THEN "failing" ELSE "thrown"
\* Mutant: the failure is logged and swallowed.
Swallowed(stage) == IF stage \in Writing THEN "returned" ELSE "thrown"
\* Where a database error takes the run: to the catch, or out of process().
Thrown(stage) == IF stage \in {"collecting", "collected"} THEN "failing" ELSE "thrown"

\* The scope of any of these steps fails.
Fail(w) ==
  /\ run[w].stage \in Writing
  /\ Advance(w, Thrown(run[w].stage))
  /\ unsaid' = IF run[w].stage \in {"taken", "failing"} THEN unsaid \cup {run[w].report}
                                                      ELSE unsaid
  /\ UNCHANGED <<row, request, queue, told, missed>>

\* The catch: the outcome is recorded, the content of an earlier run kept.
RecordFailure(w) ==
  /\ run[w].stage = "failing"
  /\ LET r == run[w].report
     IN  UpdateMany(r, [row[r] EXCEPT !.status = "FAILED", !.error = TRUE])
  /\ Advance(w, "recorded")
  /\ UNCHANGED <<request, queue, told, unsaid>>

Announced(stage) == IF stage = "completed" THEN "COMPLETED" ELSE "FAILED"

\* announce(), outside every scope; after a failure the error is thrown again.
Announce(w) ==
  /\ run[w].stage \in {"completed", "recorded"}
  /\ told' = [told EXCEPT ![run[w].report] = @ \cup {Announced(run[w].stage)}]
  /\ Advance(w, IF run[w].stage = "completed" THEN "returned" ELSE "thrown")
  /\ UNCHANGED <<row, request, queue, missed, unsaid>>

----------------------------------------------------------------------------
Asking(r) == Insert(r) \/ Enqueue(r) \/ Commit(r) \/ Rollback(r)
Working(w) ==
  Mark(w) \/ Collect(w) \/ Complete(w) \/ RecordFailure(w) \/ Announce(w) \/ Return(w)

Next ==
  \/ \E r \in Reports : Asking(r) \/ Stall(r)
  \/ \E w \in Workers : \/ Working(w) \/ Fail(w) \/ Crash(w)
                        \/ \E r \in Reports : Take(w, r)

Spec == Init /\ [][Next]_vars

\* A worker goes on until it crashes; the queue is first in first out; the lock of
\* a worker that is gone expires; a request that inserted commits or rolls back.
Abandoned(r) == \A w \in Workers : run[w].report # r
LiveSpec ==
  /\ Spec
  /\ \A w \in Workers : WF_vars(Working(w))
  /\ \A r \in Reports :
       /\ SF_vars(\E w \in Workers : Take(w, r))
       /\ WF_vars(Abandoned(r) /\ Stall(r))
       /\ WF_vars(Commit(r))

----------------------------------------------------------------------------
TypeOK ==
  /\ row \in [Reports -> Row \cup {NoRow}]
  /\ request \in [Reports -> Requests]
  /\ queue \in [Reports -> Job]
  /\ run \in [Workers -> Run]
  /\ told \in [Reports -> SUBSET Outcomes]
  /\ missed \in SUBSET Reports
  /\ unsaid \in SUBSET Reports

\* download() answers with the file; until then it is a 409.
Downloadable(r) == row[r] # NoRow /\ row[r].status = "COMPLETED"

Settled(r) == row[r] # NoRow /\ row[r].status \in Outcomes

\* One run, and it found the row every time it wrote.
Plain(r) == queue[r].stalls = 0 /\ r \notin missed

\* What the queue says of a job and what its requester was told is what the row says,
\* whichever step failed and wherever the worker died - but for a failure of setStatus
\* or of the catch's own updateMany, which leave a failed job beside a row that says
\* PENDING or PROCESSING.
OutcomesAgree ==
  \A r \in Reports : Plain(r) =>
    /\ queue[r].state = "completed" => Downloadable(r)
    /\ queue[r].state = "failed" => \/ row[r] # NoRow /\ row[r].status = "FAILED"
                                    \/ r \in unsaid
    /\ \A o \in told[r] : row[r] # NoRow /\ row[r].status = o

\* A settled report is only worked on again after its job stalled.
SettledUnlessStalled ==
  [][\A r \in Reports :
       Settled(r) /\ row'[r] # row[r] => queue[r].stalls > 0]_vars

\* The queue gave the job up for stalling, or process() threw before the row could say
\* that it failed.
GivenUp(r) == queue[r].state = "failed" /\ (queue[r].stalls > MaxStalls \/ r \in unsaid)

\* No client polls a report for ever: it settles, unless the job stalled too often, the
\* worker could not write the failure down, or the job ran before the row was there.
\* With one worker at a time: of two, the one whose lock expired may put the row back
\* to PROCESSING after the other completed the job, and then die.
EveryReportSettles ==
  \A r \in Reports : row[r] # NoRow ~> Settled(r) \/ GivenUp(r) \/ r \in missed

----------------------------------------------------------------------------
\* Claims of the repository about this code.

\* reports.service.ts, HELPDESK.md: inserting before enqueueing leaves no window in
\* which a job's row does not exist yet.
RowBeforeJob ==
  \A w \in Workers : run[w].stage = "taken" => row[run[w].report] # NoRow

\* HELPDESK.md: a client woken by report.completed can download immediately.
CompletedCanBeDownloaded ==
  \A r \in Reports : row[r] # NoRow /\ "COMPLETED" \in told[r] => Downloadable(r)

\* schema.prisma: error is "Null on every other status" than FAILED.
ErrorOnlyWhenFailed ==
  \A r \in Reports : row[r] # NoRow /\ row[r].error => row[r].status = "FAILED"

\* reports.processor.ts: the error is rethrown so that BullMQ marks the job failed too,
\* and the row and the queue do not disagree.
FailedJobIsFailedReport ==
  \A r \in Reports : Plain(r) /\ row[r] # NoRow /\ queue[r].state = "failed" =>
    row[r].status = "FAILED"
============================================================================
