---------------------------- MODULE ReportsProofs ----------------------------
(***************************************************************************)
(* Theorems about exports and their proofs, for any reports and workers:   *)
(* the job (Reports), and the pages that its collect() reads, which are    *)
(* read as those of every other list of the API (PagedLists).              *)
(***************************************************************************)
EXTENDS Reports, PagedLists, FiniteSetTheorems, SequenceTheorems, TLAPS

\* A worker has a report exactly while it runs.
RunOK == \A w \in Workers : run[w].stage = "idle" <=> run[w].report = NoReport

\* A job is enqueued, and its row committed, by a request that got that far.
RunsOn(w, r) == run[w].report = r
RequestOK ==
  \A r \in Reports :
    /\ request[r] # "answered" => row[r] = NoRow
    /\ request[r] \in {"none", "inserted"} => queue[r].state = "absent"
    /\ queue[r].state = "absent" => \A w \in Workers : ~RunsOn(w, r)

\* A job that never stalled is run once, and what is still to be written was not.
OneRun ==
  \A r \in Reports : queue[r].stalls = 0 =>
    /\ queue[r].state \in {"absent", "waiting"} =>
         ~Settled(r) /\ \A w \in Workers : ~RunsOn(w, r)
    /\ \A v, w \in Workers : RunsOn(v, r) /\ RunsOn(w, r) => v = w
    /\ \A w \in Workers : RunsOn(w, r) /\ run[w].stage \in Writing => ~Settled(r)
    /\ queue[r].state \in {"completed", "failed"} => \A w \in Workers : ~RunsOn(w, r)

\* A job that stalled too often is not run again.
StallsOK ==
  \A r \in Reports :
    queue[r].state \notin {"completed", "failed"} => queue[r].stalls <= MaxStalls

Recorded(r, o) == row[r] # NoRow /\ row[r].status = o

\* What a run has written, and when it speaks of it.
Truth ==
  \A r \in Reports : Plain(r) =>
    /\ queue[r].state \in {"absent", "waiting"} => told[r] = {}
    /\ queue[r].state = "completed" => Recorded(r, "COMPLETED")
    /\ queue[r].state = "failed" => Recorded(r, "FAILED") \/ r \in unsaid
    /\ \A o \in told[r] : Recorded(r, o)
    /\ \A w \in Workers : RunsOn(w, r) =>
         /\ run[w].stage \in Writing \cup {"completed", "recorded"} => told[r] = {}
         /\ run[w].stage \in {"completed", "returned"} => Recorded(r, "COMPLETED")
         /\ run[w].stage = "recorded" => Recorded(r, "FAILED")
         /\ run[w].stage = "thrown" => Recorded(r, "FAILED") \/ r \in unsaid

Inv == TypeOK /\ RunOK /\ RequestOK /\ StallsOK /\ OneRun /\ Truth

----------------------------------------------------------------------------
LEMMA InitInv == Init => Inv
<1> SUFFICES ASSUME Init PROVE Inv
  OBVIOUS
<1>1. Absent \in Job /\ Idle \in Run
  BY MaxStallsAssumption DEF Absent, Idle, Job, Run, Stages
<1>2. TypeOK
  BY <1>1 DEF Init, TypeOK, Requests
<1>3. RunOK /\ RequestOK
  BY NullsAssumption DEF Init, RunOK, RequestOK, RunsOn, Idle, Absent
<1>4. OneRun /\ Truth
  BY NullsAssumption
     DEF Init, OneRun, Truth, RunsOn, Settled, Idle, Absent, Plain
<1>5. StallsOK
  BY MaxStallsAssumption DEF Init, StallsOK, Absent
<1>6. QED BY <1>2, <1>3, <1>4, <1>5 DEF Inv

LEMMA UpdateManyCases ==
  ASSUME NEW r \in Reports, NEW values, UpdateMany(r, values)
  PROVE  \/ row[r] # NoRow /\ row' = [row EXCEPT ![r] = values] /\ missed' = missed
         \/ row[r] = NoRow /\ row' = row /\ missed' = missed \cup {r}
BY DEF UpdateMany

\* The columns each step writes.
LEMMA RowValues ==
  ASSUME NEW old \in Row
  PROVE  /\ [old EXCEPT !.status = "PROCESSING"] \in Row
         /\ [old EXCEPT !.status = "FAILED", !.error = TRUE] \in Row
         /\ [status |-> "COMPLETED", content |-> TRUE, error |-> FALSE] \in Row
         /\ [status |-> "PENDING", content |-> FALSE, error |-> FALSE] \in Row
         /\ [old EXCEPT !.status = "PROCESSING"].status = "PROCESSING"
         /\ [old EXCEPT !.status = "FAILED", !.error = TRUE].status = "FAILED"
BY DEF Row, Outcomes

\* The request.
LEMMA AskingInv ==
  ASSUME Inv, NEW r \in Reports, Asking(r)
  PROVE  Inv'
<1> USE DEF Inv
<1>1. CASE Insert(r)
  <2>1. TypeOK'
    BY <1>1 DEF Insert, TypeOK, Requests
  <2>2. QED
    BY <1>1, <2>1 DEF Insert, TypeOK, RunOK, RequestOK, StallsOK, OneRun, Truth, RunsOn,
                      Settled, Recorded, Plain
<1>2. CASE Enqueue(r)
  <2>1. [queue[r] EXCEPT !.state = "waiting"] \in Job
    BY DEF TypeOK, Job
  <2>2. TypeOK'
    BY <1>2, <2>1 DEF Enqueue, TypeOK, Requests
  <2>3. \A p \in Reports :
          /\ queue'[p].stalls = queue[p].stalls
          /\ p # r => queue'[p] = queue[p]
          /\ queue'[r].state = "waiting"
    BY <1>2 DEF Enqueue, TypeOK, Job
  <2>4. queue[r].state = "absent"
    BY <1>2 DEF Enqueue, RequestOK
  <2>5. RunOK' /\ RequestOK'
    BY <1>2, <2>3 DEF Enqueue, RunOK, RequestOK, RunsOn, TypeOK
  <2>6. OneRun' /\ Truth'
    BY <1>2, <2>3, <2>4 DEF Enqueue, OneRun, Truth, RunsOn, Settled, Recorded, Plain
  <2>7. StallsOK'
    BY <1>2, <2>3, <2>4 DEF StallsOK
  <2>8. QED BY <2>2, <2>5, <2>6, <2>7
<1>3. CASE Commit(r)
  <2>1. row[r] = NoRow /\ row'[r] \in Row /\ row'[r].status = "PENDING"
    BY <1>3 DEF Commit, RequestOK, TypeOK, Row
  <2>2. \A p \in Reports : p # r => row'[p] = row[p] /\ request'[p] = request[p]
    BY <1>3 DEF Commit, TypeOK
  <2>3. TypeOK'
    BY <1>3, <2>1 DEF Commit, TypeOK, Requests
  <2>4. RunOK' /\ RequestOK'
    BY <1>3, <2>2 DEF Commit, RunOK, RequestOK, RunsOn, TypeOK
  <2>5. \A p \in Reports : Settled(p)' => Settled(p)
    BY <2>1, <2>2 DEF Settled, Outcomes
  <2>6. \A p \in Reports, o \in Outcomes : Recorded(p, o) => Recorded(p, o)'
    BY <2>1, <2>2 DEF Recorded
  <2>7. OneRun'
    BY <1>3, <2>5 DEF Commit, OneRun, RunsOn
  <2>8. Truth'
    BY <1>3, <2>6 DEF Commit, Truth, RunsOn, Plain, Outcomes, TypeOK
  <2>9. StallsOK'
    BY <1>3 DEF Commit, StallsOK
  <2>10. QED BY <2>3, <2>4, <2>7, <2>8, <2>9
<1>4. CASE Rollback(r)
  <2>1. TypeOK'
    BY <1>4 DEF Rollback, TypeOK, Requests
  <2>2. QED
    BY <1>4, <2>1 DEF Rollback, TypeOK, RunOK, RequestOK, StallsOK, OneRun, Truth, RunsOn,
                      Settled, Recorded, Plain
<1>5. QED BY <1>1, <1>2, <1>3, <1>4 DEF Asking

\* The queue.
LEMMA TakeInv ==
  ASSUME Inv, NEW r \in Reports, NEW w \in Workers, Take(w, r)
  PROVE  Inv'
<1> USE DEF Inv
<1>1. /\ queue'[r].state = "active" /\ queue'[r].stalls = queue[r].stalls
      /\ queue'[r] \in Job
      /\ \A p \in Reports : p # r => queue'[p] = queue[p]
  BY DEF Take, TypeOK, Job
<1>2. /\ run'[w].stage = "taken" /\ run'[w].report = r /\ r # NoReport
      /\ run[w].stage = "idle"
      /\ \A v \in Workers : v # w => run'[v] = run[v]
  BY NullsAssumption DEF Take, TypeOK
<1>3. TypeOK'
  <2>1. [stage |-> "taken", report |-> r] \in Run
    BY DEF Run, Stages, Writing
  <2>2. queue' \in [Reports -> Job]
    BY <1>1 DEF Take, TypeOK
  <2>3. QED BY <2>1, <2>2 DEF Take, TypeOK
<1>4. RunOK'
  BY <1>2 DEF RunOK
<1>5. UNCHANGED <<row, request, told, missed, unsaid>>
  BY DEF Take
<1>6. /\ queue[r].state = "waiting"
      /\ queue[r].stalls = 0 => \A v \in Workers : ~RunsOn(v, r)
      /\ \A p \in Reports : Settled(p)' <=> Settled(p)
  BY <1>5 DEF Take, Settled, OneRun
<1>7. \A v \in Workers, p \in Reports : RunsOn(v, p)' =>
        \/ v = w /\ p = r
        \/ v # w /\ RunsOn(v, p) /\ run'[v] = run[v]
  BY <1>2 DEF RunsOn
<1>8. RequestOK'
  <2> SUFFICES ASSUME NEW p \in Reports
               PROVE  RequestOK!(p)'
    BY DEF RequestOK
  <2>1. CASE p = r
    BY <1>1, <1>5, <1>6, <2>1 DEF RequestOK
  <2>2. CASE p # r
    BY <1>1, <1>5, <1>7, <2>2 DEF RequestOK
  <2>3. QED BY <2>1, <2>2
<1>9. OneRun'
  BY <1>1, <1>2, <1>6, <1>7 DEF OneRun
<1>10. \A p \in Reports : /\ Plain(p)' <=> Plain(p)
                          /\ \A o : Recorded(p, o)' <=> Recorded(p, o)
  BY <1>1, <1>5 DEF Recorded, Plain
<1>11. Truth'
  <2> SUFFICES ASSUME NEW p \in Reports, Plain(p)
               PROVE  Truth!(p)!2'
    BY <1>10 DEF Truth
  <2>1. QED BY <1>1, <1>2, <1>5, <1>6, <1>7, <1>10 DEF Truth, Plain
<1>12. StallsOK'
  BY <1>1, <1>6 DEF StallsOK
<1>13. QED BY <1>3, <1>4, <1>8, <1>9, <1>11, <1>12

LEMMA StallInv ==
  ASSUME Inv, NEW r \in Reports, Stall(r)
  PROVE  Inv'
<1> USE DEF Inv
<1>1. queue[r].stalls \in 0 .. MaxStalls + 1 /\ queue[r].stalls \in Nat
  BY MaxStallsAssumption DEF TypeOK, Job
<1>2. /\ queue'[r] \in Job
      /\ queue'[r].stalls # 0
      /\ queue'[r].state # "absent"
      /\ queue'[r].state # "failed" => queue'[r].stalls <= MaxStalls
      /\ \A p \in Reports : p # r => queue'[p] = queue[p]
  <2>1. queue'[r] = Stalled(queue[r]) /\ \A p \in Reports : p # r => queue'[p] = queue[p]
    BY DEF Stall, TypeOK
  <2>2. queue[r].stalls <= MaxStalls
    BY DEF Stall, StallsOK
  <2>3. queue[r].stalls + 1 \in 0 .. MaxStalls + 1 /\ queue[r].stalls + 1 # 0
    BY <1>1, <2>2, MaxStallsAssumption
  <2>4. /\ Stalled(queue[r]) \in Job
        /\ Stalled(queue[r]).stalls # 0
        /\ Stalled(queue[r]).state # "absent"
    BY <2>3 DEF Stalled, Job
  <2>5. Stalled(queue[r]).state # "failed" => Stalled(queue[r]).stalls <= MaxStalls
    BY <1>1, MaxStallsAssumption DEF Stalled
  <2>6. QED BY <2>1, <2>4, <2>5
<1>3. TypeOK'
  BY <1>2 DEF Stall, TypeOK
<1>4. RunOK' /\ RequestOK'
  <2>1. UNCHANGED <<row, request, run>> /\ queue[r].state # "absent"
    BY DEF Stall
  <2>2. request[r] \notin {"none", "inserted"}
    BY <2>1 DEF RequestOK
  <2>3. QED BY <1>2, <2>1, <2>2 DEF RunOK, RequestOK, RunsOn
<1>5. OneRun'
  BY <1>2 DEF Stall, OneRun, RunsOn, Settled
<1>6. Truth'
  BY <1>2 DEF Stall, Truth, RunsOn, Recorded, Plain
<1>7. StallsOK'
  BY <1>2 DEF StallsOK
<1>8. QED BY <1>3, <1>4, <1>5, <1>6, <1>7

\* What ends a run: the worker is idle, and nothing else of it is remembered.
LEMMA EndOfRun ==
  ASSUME Inv, NEW w \in Workers, run' = [run EXCEPT ![w] = Idle]
  PROVE  /\ run' \in [Workers -> Run] /\ RunOK'
         /\ \A v \in Workers, r \in Reports :
              RunsOn(v, r)' => RunsOn(v, r) /\ run'[v] = run[v] /\ v # w
<1>1. Idle \in Run
  BY DEF Idle, Run, Stages
<1>2. QED BY <1>1, NullsAssumption DEF Inv, TypeOK, RunOK, RunsOn, Idle

LEMMA CrashInv ==
  ASSUME Inv, NEW w \in Workers, Crash(w)
  PROVE  Inv'
<1> USE DEF Inv
<1>1. /\ row' = row /\ request' = request /\ queue' = queue
      /\ told' = told /\ missed' = missed /\ unsaid' = unsaid
  BY DEF Crash
<1>2. /\ run' \in [Workers -> Run] /\ RunOK'
      /\ \A v \in Workers, r \in Reports :
           RunsOn(v, r)' => RunsOn(v, r) /\ run'[v] = run[v]
  BY EndOfRun DEF Crash
<1>3. TypeOK'
  BY <1>1, <1>2 DEF TypeOK
<1>4. RequestOK'
  BY <1>1, <1>2 DEF RequestOK
<1>5. OneRun'
  <2>1. \A r \in Reports : Settled(r)' <=> Settled(r)
    BY <1>1 DEF Settled
  <2>2. QED BY <1>1, <1>2, <2>1 DEF OneRun
<1>6. Truth'
  <2>1. \A r \in Reports : /\ Plain(r)' <=> Plain(r)
                           /\ \A o : Recorded(r, o)' <=> Recorded(r, o)
    BY <1>1 DEF Plain, Recorded
  <2>2. QED BY <1>1, <1>2, <2>1 DEF Truth
<1>7. StallsOK'
  BY <1>1 DEF StallsOK
<1>8. QED BY <1>2, <1>3, <1>4, <1>5, <1>6, <1>7

LEMMA ReturnInv ==
  ASSUME Inv, NEW w \in Workers, Return(w)
  PROVE  Inv'
<1> USE DEF Inv
<1>1. PICK r \in Reports : run[w].report = r
  BY DEF Return, TypeOK, RunOK, Run
<1>2. PICK state \in {"completed", "failed"} :
        /\ run[w].stage = IF state = "completed" THEN "returned" ELSE "thrown"
        /\ queue' = IF queue[r].by = w
                    THEN [queue EXCEPT ![r] = Finished(@, state)] ELSE queue
  BY <1>1 DEF Return
<1>3. /\ queue' \in [Reports -> Job]
      /\ \A p \in Reports : /\ queue'[p].stalls = queue[p].stalls
                            /\ p # r => queue'[p] = queue[p]
      /\ queue'[r].state \in {queue[r].state, state}
  <2>1. CASE queue[r].by = w
    BY <1>2, <2>1, ZenonT(30) DEF Finished, TypeOK, Job
  <2>2. CASE queue[r].by # w
    BY <1>2, <2>2 DEF TypeOK
  <2>3. QED BY <2>1, <2>2
<1>4. TypeOK' /\ RunOK'
  BY <1>3, EndOfRun DEF Return, TypeOK
<1>5. queue[r].state # "absent" /\ RunsOn(w, r)
  BY <1>1 DEF RequestOK, RunsOn
<1>6. RequestOK'
  <2>1. \A p \in Reports : /\ queue'[p].state = "absent" <=> queue[p].state = "absent"
                           /\ row'[p] = row[p] /\ request'[p] = request[p]
    BY <1>3, <1>5 DEF Return
  <2>2. QED BY <2>1, EndOfRun DEF Return, RequestOK
<1>7. queue[r].stalls = 0 =>
        /\ queue[r].state \notin {"absent", "waiting", "completed", "failed"}
        /\ \A v \in Workers : ~RunsOn(v, r)'
  BY <1>5, EndOfRun DEF Return, OneRun
<1>8. OneRun'
  <2>1. \A p \in Reports : Settled(p)' <=> Settled(p)
    BY DEF Return, Settled
  <2>2. \A p \in Reports, v \in Workers :
          RunsOn(v, p)' => RunsOn(v, p) /\ run'[v] = run[v]
    BY EndOfRun DEF Return
  <2>3. queue[r].stalls = 0 => queue'[r].state \notin {"absent", "waiting"}
    BY <1>3, <1>7
  <2>4. QED BY <1>3, <1>7, <2>1, <2>2, <2>3 DEF OneRun
<1>9. Plain(r) => /\ run[w].stage = "returned" => Recorded(r, "COMPLETED")
                  /\ run[w].stage = "thrown" => Recorded(r, "FAILED") \/ r \in unsaid
  BY <1>5 DEF Truth
<1>10. unsaid' = unsaid /\ \A p \in Reports :
                          /\ Plain(p)' <=> Plain(p)
                          /\ told'[p] = told[p]
                           /\ \A o : Recorded(p, o)' <=> Recorded(p, o)
  BY <1>3 DEF Return, Plain, Recorded
<1>11. \A p \in Reports : Plain(p) => queue[p].stalls = 0
  BY DEF Plain
<1>12. Truth'
  <2>1. \A v \in Workers, p \in Reports :
          RunsOn(v, p)' => RunsOn(v, p) /\ run'[v] = run[v]
    BY EndOfRun DEF Return
  <2> SUFFICES ASSUME NEW p \in Reports, Plain(p)
               PROVE  Truth!(p)!2'
    BY <1>10 DEF Truth
  <2>2. CASE p = r
    <3>1. /\ queue'[r].state \notin {"absent", "waiting"} \/ queue'[r].state = state
          /\ \A v \in Workers : ~RunsOn(v, r)'
      BY <1>3, <1>7, <1>11, <2>2
    <3>2. /\ queue'[r].state = "completed" => Recorded(r, "COMPLETED")'
          /\ queue'[r].state = "failed" => Recorded(r, "FAILED")' \/ r \in unsaid'
      BY <1>2, <1>3, <1>7, <1>9, <1>10, <1>11, <2>2
    <3>3. QED BY <1>2, <1>10, <2>2, <3>1, <3>2 DEF Truth
  <2>3. CASE p # r
    <3>1. queue'[p] = queue[p]
      BY <1>3, <2>3
    <3>2. QED BY <1>10, <2>1, <3>1 DEF Truth
  <2>4. QED BY <2>2, <2>3
<1>13. StallsOK'
  <2>1. CASE queue[r].by = w
    BY <1>2, <1>3, <2>1 DEF StallsOK, Finished, TypeOK
  <2>2. CASE queue[r].by # w
    BY <1>2, <2>2 DEF StallsOK
  <2>3. QED BY <2>1, <2>2
<1>14. QED BY <1>4, <1>6, <1>8, <1>12, <1>13

----------------------------------------------------------------------------
\* The steps of process(): the worker, its report and its next stage.
LEMMA Advancing ==
  ASSUME Inv, NEW w \in Workers, run[w].stage # "idle",
         NEW stage \in Stages \ {"idle"}, Advance(w, stage)
  PROVE  /\ run[w].report \in Reports
         /\ run' \in [Workers -> Run] /\ RunOK'
         /\ run'[w].stage = stage
         /\ \A v \in Workers : v # w => run'[v] = run[v]
         /\ \A v \in Workers, r \in Reports : RunsOn(v, r)' <=> RunsOn(v, r)
<1> USE DEF Inv
<1>1. run[w].report \in Reports /\ run[w] \in Run
  BY DEF TypeOK, RunOK, Run
<1>2. /\ [run[w] EXCEPT !.stage = stage] \in Run
      /\ [run[w] EXCEPT !.stage = stage].stage = stage
      /\ [run[w] EXCEPT !.stage = stage].report = run[w].report
  BY <1>1 DEF Run
<1>3. run' = [run EXCEPT ![w] = [run[w] EXCEPT !.stage = stage]]
  BY DEF Advance, TypeOK
<1>4. QED
  BY <1>1, <1>2, <1>3, NullsAssumption DEF TypeOK, RunOK, RunsOn

\* A step that writes nothing.
LEMMA QuietStep ==
  ASSUME Inv, NEW w \in Workers, Collect(w) \/ Fail(w)
  PROVE  Inv'
<1> USE DEF Inv
<1>1. PICK stage \in {"collected", "failing", "thrown"} :
        /\ Advance(w, stage) /\ run[w].stage \in Writing
        /\ UNCHANGED <<row, request, queue, told, missed>>
        /\ unsaid \subseteq unsaid' /\ unsaid' \subseteq unsaid \cup {run[w].report}
        /\ stage = "thrown" => run[w].report \in unsaid'
  BY DEF Collect, Fail, Thrown, Writing
<1>2. run[w].stage # "idle" /\ stage \in Stages \ {"idle"}
  BY <1>1 DEF Writing, Stages
<1>3. TypeOK' /\ RunOK' /\ RequestOK'
  BY <1>1, <1>2, Advancing DEF TypeOK, RequestOK
<1>4. OneRun'
  BY <1>1, <1>2, Advancing DEF OneRun, Settled
<1>5. \A r \in Reports : /\ Plain(r)' <=> Plain(r)
                         /\ \A o : Recorded(r, o)' <=> Recorded(r, o)
  BY <1>1 DEF Plain, Recorded
<1>6. Truth'
  <2>1. /\ run'[w].stage = stage
        /\ \A v \in Workers : v # w => run'[v] = run[v]
        /\ \A v \in Workers, r \in Reports : RunsOn(v, r)' <=> RunsOn(v, r)
    BY <1>1, <1>2, Advancing
  <2> SUFFICES ASSUME NEW r \in Reports, Plain(r)
               PROVE  Truth!(r)!2'
    BY <1>5 DEF Truth
  <2>2. RunsOn(w, r) => told[r] = {} /\ (stage = "thrown" => r \in unsaid')
    BY <1>1 DEF Truth, RunsOn
  <2>3. stage \notin {"completed", "returned", "recorded"}
    OBVIOUS
  <2>4. QED BY <1>1, <1>5, <2>1, <2>2, <2>3 DEF Truth
<1>7. StallsOK'
  BY <1>1 DEF StallsOK
<1>8. QED BY <1>3, <1>4, <1>6, <1>7

\* A step that writes the row: setStatus, the result, or the failure.
Stored(w, stage, status) ==
  /\ Advance(w, stage)
  /\ run[w].stage \in Writing
  /\ UNCHANGED <<request, queue, told, unsaid>>
  /\ \/ /\ row[run[w].report] # NoRow
        /\ \E values \in Row : /\ row' = [row EXCEPT ![run[w].report] = values]
                               /\ values.status = status
        /\ missed' = missed
     \/ /\ row[run[w].report] = NoRow
        /\ row' = row
        /\ missed' = missed \cup {run[w].report}

LEMMA WritingStores ==
  ASSUME Inv, NEW w \in Workers, Mark(w) \/ Complete(w) \/ RecordFailure(w)
  PROVE  \/ Stored(w, "collecting", "PROCESSING")
         \/ Stored(w, "completed", "COMPLETED")
         \/ Stored(w, "recorded", "FAILED")
<1>1. run[w].report \in Reports
  BY DEF Inv, TypeOK, RunOK, Run, Mark, Complete, RecordFailure
<1>2. row[run[w].report] # NoRow => row[run[w].report] \in Row
  BY <1>1 DEF Inv, TypeOK
<1>3. ASSUME NEW stage, NEW status, NEW values,
             Advance(w, stage), run[w].stage \in Writing,
             UNCHANGED <<request, queue, told, unsaid>>,
             UpdateMany(run[w].report, values),
             row[run[w].report] \in Row => values \in Row /\ values.status = status
      PROVE  Stored(w, stage, status)
  <2>1. CASE row[run[w].report] # NoRow
    BY <1>1, <1>2, <1>3, <2>1, UpdateManyCases DEF Stored
  <2>2. CASE row[run[w].report] = NoRow
    BY <1>1, <1>3, <2>2, UpdateManyCases DEF Stored
  <2>3. QED BY <2>1, <2>2
<1>4. CASE Mark(w)
  <2> DEFINE values == [row[run[w].report] EXCEPT !.status = "PROCESSING"]
  <2>1. /\ Advance(w, "collecting") /\ run[w].stage \in Writing
        /\ UNCHANGED <<request, queue, told, unsaid>> /\ UpdateMany(run[w].report, values)
    BY <1>4 DEF Mark, Writing
  <2>2. row[run[w].report] \in Row => values \in Row /\ values.status = "PROCESSING"
    BY RowValues
  <2> HIDE DEF values
  <2>3. QED BY <1>3, <2>1, <2>2
<1>5. CASE Complete(w)
  <2> DEFINE values == [status |-> "COMPLETED", content |-> TRUE, error |-> FALSE]
  <2>1. /\ Advance(w, "completed") /\ run[w].stage \in Writing
        /\ UNCHANGED <<request, queue, told, unsaid>> /\ UpdateMany(run[w].report, values)
    BY <1>5 DEF Complete, Writing
  <2>2. values \in Row /\ values.status = "COMPLETED"
    BY DEF Row, Outcomes
  <2> HIDE DEF values
  <2>3. QED BY <1>3, <2>1, <2>2
<1>6. CASE RecordFailure(w)
  <2> DEFINE values == [row[run[w].report] EXCEPT !.status = "FAILED", !.error = TRUE]
  <2>1. /\ Advance(w, "recorded") /\ run[w].stage \in Writing
        /\ UNCHANGED <<request, queue, told, unsaid>> /\ UpdateMany(run[w].report, values)
    BY <1>6 DEF RecordFailure, Writing
  <2>2. row[run[w].report] \in Row => values \in Row /\ values.status = "FAILED"
    BY RowValues
  <2> HIDE DEF values
  <2>3. QED BY <1>3, <2>1, <2>2
<1>7. QED BY <1>4, <1>5, <1>6

LEMMA StoredInv ==
  ASSUME Inv, NEW w \in Workers, NEW stage, NEW status, Stored(w, stage, status),
         \/ stage = "collecting" /\ status = "PROCESSING"
         \/ stage = "completed" /\ status = "COMPLETED"
         \/ stage = "recorded" /\ status = "FAILED"
  PROVE  Inv'
<1> USE DEF Inv
<1>1. run[w].stage # "idle" /\ stage \in Stages \ {"idle"}
  BY DEF Stored, Writing, Stages
<1>2. PICK r \in Reports : run[w].report = r
  BY <1>1, Advancing DEF Stored
<1>3. /\ RunOK' /\ run' \in [Workers -> Run]
      /\ run'[w].stage = stage
      /\ \A v \in Workers : v # w => run'[v] = run[v]
      /\ \A v \in Workers, p \in Reports : RunsOn(v, p)' <=> RunsOn(v, p)
  BY <1>1, Advancing DEF Stored
<1>4. /\ request' = request /\ queue' = queue /\ told' = told /\ unsaid' = unsaid
      /\ missed \subseteq missed' /\ missed' \in SUBSET Reports
      /\ row' \in [Reports -> Row \cup {NoRow}]
      /\ \A p \in Reports : /\ p # r => row'[p] = row[p]
                            /\ row[p] = NoRow <=> row'[p] = NoRow
  BY <1>2, NoRowAssumption DEF Stored, TypeOK, NoRowIsNoRow
<1>5. r \notin missed' => row'[r] # NoRow /\ row'[r].status = status
  BY <1>2, NoRowAssumption DEF Stored, TypeOK, NoRowIsNoRow
<1>6. row'[r] # NoRow => row'[r].status = status
  BY <1>2, NoRowAssumption DEF Stored, TypeOK, NoRowIsNoRow
<1>7. TypeOK'
  BY <1>3, <1>4 DEF TypeOK
<1>8. RequestOK'
  BY <1>3, <1>4 DEF RequestOK
<1>9. RunsOn(w, r) /\ run[w].stage \in Writing
  BY <1>2 DEF RunsOn, Stored
<1>10. queue[r].stalls = 0 =>
         /\ \A v \in Workers : RunsOn(v, r) => v = w
         /\ queue[r].state \notin {"absent", "waiting", "completed", "failed"}
  BY <1>9 DEF OneRun
<1>11. /\ Settled(r)' => status \in Outcomes
       /\ \A p \in Reports : p # r => (Settled(p)' <=> Settled(p))
  BY <1>4, <1>6 DEF Settled
<1>12. stage \in Writing => status \notin Outcomes
  BY DEF Writing, Outcomes
<1>13. OneRun'
  <2> SUFFICES ASSUME NEW p \in Reports, queue[p].stalls = 0
               PROVE  OneRun!(p)!2'
    BY <1>4 DEF OneRun
  <2>1. CASE p = r
    BY <1>3, <1>4, <1>10, <1>11, <1>12, <2>1 DEF OneRun
  <2>2. CASE p # r
    BY <1>2, <1>3, <1>4, <1>11, <2>2 DEF OneRun, RunsOn
  <2>3. QED BY <2>1, <2>2
<1>14. \A p \in Reports : Plain(p)' => Plain(p)
  BY <1>4 DEF Plain
<1>15. Plain(r)' => Recorded(r, status)'
  BY <1>5 DEF Plain, Recorded
<1>16. Plain(r) => told[r] = {} /\ queue[r].stalls = 0
  BY <1>9 DEF Truth, Plain
<1>17. \A p \in Reports : p # r => \A o : Recorded(p, o)' <=> Recorded(p, o)
  BY <1>4 DEF Recorded
<1>18. Truth'
  <2> SUFFICES ASSUME NEW p \in Reports, Plain(p)'
               PROVE  Truth!(p)!2'
    BY DEF Truth
  <2>1. CASE p = r
    BY <1>1, <1>3, <1>4, <1>10, <1>14, <1>15, <1>16, <2>1
  <2>2. CASE p # r
    BY <1>2, <1>3, <1>4, <1>9, <1>14, <1>17, <2>2 DEF Truth, RunsOn
  <2>3. QED BY <2>1, <2>2
<1>19. StallsOK'
  BY <1>4 DEF StallsOK
<1>20. QED BY <1>3, <1>7, <1>8, <1>13, <1>18, <1>19

LEMMA AnnounceInv ==
  ASSUME Inv, NEW w \in Workers, Announce(w)
  PROVE  Inv'
<1> USE DEF Inv
<1>1. PICK stage \in {"returned", "thrown"}, o \in Outcomes :
        /\ Advance(w, stage)
        /\ \/ run[w].stage = "completed" /\ stage = "returned" /\ o = "COMPLETED"
           \/ run[w].stage = "recorded" /\ stage = "thrown" /\ o = "FAILED"
        /\ told' = [told EXCEPT ![run[w].report] = @ \cup {o}]
        /\ UNCHANGED <<row, request, queue, missed, unsaid>>
  BY DEF Announce, Announced, Outcomes
<1>2. run[w].stage # "idle" /\ stage \in Stages \ {"idle"}
  BY <1>1 DEF Stages
<1>3. PICK r \in Reports : run[w].report = r
  BY <1>1, <1>2, Advancing
<1>4. /\ RunOK' /\ run' \in [Workers -> Run]
      /\ run'[w].stage = stage
      /\ \A v \in Workers : v # w => run'[v] = run[v]
      /\ \A v \in Workers, p \in Reports : RunsOn(v, p)' <=> RunsOn(v, p)
  BY <1>1, <1>2, Advancing
<1>5. told' \in [Reports -> SUBSET Outcomes] /\ told'[r] = told[r] \cup {o}
      /\ \A p \in Reports : p # r => told'[p] = told[p]
  BY <1>1, <1>3 DEF TypeOK
<1>6. TypeOK' /\ RequestOK'
  BY <1>1, <1>4, <1>5 DEF TypeOK, RequestOK
<1>7. OneRun'
  BY <1>1, <1>4 DEF OneRun, Settled, Writing
<1>8. RunsOn(w, r)
  BY <1>3 DEF RunsOn
<1>9. Plain(r) =>
         /\ \A v \in Workers : RunsOn(v, r) => v = w
         /\ queue[r].state \notin {"absent", "waiting", "completed", "failed"}
         /\ Recorded(r, o) /\ told[r] = {}
  BY <1>1, <1>8 DEF OneRun, Plain, Truth
<1>10. \A p \in Reports : /\ Plain(p)' <=> Plain(p)
                          /\ \A x : Recorded(p, x)' <=> Recorded(p, x)
  BY <1>1 DEF Plain, Recorded
<1>11. /\ queue' = queue /\ unsaid' = unsaid
       /\ o = IF stage = "returned" THEN "COMPLETED" ELSE "FAILED"
  BY <1>1
<1>12. Truth'
  <2> SUFFICES ASSUME NEW p \in Reports, Plain(p)
               PROVE  Truth!(p)!2'
    BY <1>10 DEF Truth
  <2>1. CASE p = r
    <3>1. /\ queue'[p].state \notin {"absent", "waiting", "completed", "failed"}
          /\ told'[p] = {o} /\ Recorded(p, o)'
          /\ stage = "returned" => Recorded(p, "COMPLETED")'
          /\ stage = "thrown" => Recorded(p, "FAILED")'
      BY <1>5, <1>9, <1>10, <1>11, <2>1
    <3>2. \A v \in Workers : RunsOn(v, p)' => run'[v].stage = stage
      BY <1>4, <1>9, <2>1
    <3>3. stage \in {"returned", "thrown"}
      OBVIOUS
    <3>4. QED BY <3>1, <3>2, <3>3 DEF Writing
  <2>2. CASE p # r
    <3>1. told'[p] = told[p] /\ queue'[p] = queue[p]
      BY <1>5, <1>11, <2>2
    <3>2. \A v \in Workers : RunsOn(v, p)' => RunsOn(v, p) /\ run'[v] = run[v]
      BY <1>3, <1>4, <2>2 DEF RunsOn
    <3>3. /\ queue[p].state \in {"absent", "waiting"} => told[p] = {}
          /\ queue[p].state = "completed" => Recorded(p, "COMPLETED")
          /\ queue[p].state = "failed" => Recorded(p, "FAILED") \/ p \in unsaid
          /\ \A x \in told[p] : Recorded(p, x)
          /\ \A v \in Workers : RunsOn(v, p) =>
               /\ run[v].stage \in Writing \cup {"completed", "recorded"} => told[p] = {}
               /\ run[v].stage \in {"completed", "returned"} => Recorded(p, "COMPLETED")
               /\ run[v].stage = "recorded" => Recorded(p, "FAILED")
               /\ run[v].stage = "thrown" => Recorded(p, "FAILED") \/ p \in unsaid
      BY DEF Truth
    <3>4. QED BY <1>10, <1>11, <3>1, <3>2, <3>3
  <2>3. QED BY <2>1, <2>2
<1>13. StallsOK'
  BY <1>11 DEF StallsOK
<1>14. QED BY <1>4, <1>6, <1>7, <1>12, <1>13

----------------------------------------------------------------------------
LEMMA StepInv == Inv /\ [Next]_vars => Inv'
<1> SUFFICES ASSUME Inv, [Next]_vars PROVE Inv'
  OBVIOUS
<1>1. ASSUME NEW r \in Reports, Asking(r) \/ Stall(r)
      PROVE  Inv'
  BY <1>1, AskingInv, StallInv
<1>2. ASSUME NEW w \in Workers, Mark(w) \/ Complete(w) \/ RecordFailure(w)
      PROVE  Inv'
  BY <1>2, WritingStores, StoredInv
<1>3. ASSUME NEW w \in Workers, Working(w) \/ Fail(w) \/ Crash(w)
      PROVE  Inv'
  BY <1>2, <1>3, QuietStep, AnnounceInv, ReturnInv, CrashInv DEF Working
<1>4. ASSUME NEW w \in Workers, NEW r \in Reports, Take(w, r)
      PROVE  Inv'
  BY <1>4, TakeInv
<1>5. CASE UNCHANGED vars
  BY <1>5 DEF vars, Inv, TypeOK, RunOK, RequestOK, StallsOK, OneRun, Truth, RunsOn, Settled,
              Recorded, Plain
<1>6. QED BY <1>1, <1>3, <1>4, <1>5 DEF Next

\* The variables of Reports have their types: TypeOK.
THEOREM TypeCorrect == Spec => []TypeOK
<1>1. Inv => TypeOK
  BY DEF Inv
<1>2. QED BY <1>1, InitInv, StepInv, PTL DEF Spec

LEMMA InvOutcomes == Inv => OutcomesAgree
BY DEF Inv, Truth, OutcomesAgree, Recorded, Downloadable, Plain

\* Row, queue and announcements agree about every report that was run once with its
\* row in place, but for those in unsaid - a failed setStatus, or a failed updateMany of
\* the catch - whose job has failed beside a row that does not say so: OutcomesAgree,
\* however many workers there are.
THEOREM OutcomesAlwaysAgree == Spec => []OutcomesAgree
BY InitInv, StepInv, InvOutcomes, PTL DEF Spec

LEMMA SettledStep ==
  ASSUME Inv, [Next]_vars, NEW r \in Reports, Settled(r), row'[r] # row[r]
  PROVE  queue[r].stalls > 0
<1>1. queue[r].stalls \in Nat
  BY MaxStallsAssumption DEF Inv, TypeOK, Job
<1>2. ASSUME NEW p \in Reports, Asking(p) \/ Stall(p)
      PROVE  FALSE
  <2>1. row[p] = NoRow \/ row' = row
    BY <1>2 DEF Asking, Insert, Enqueue, Commit, Rollback, Stall, Inv, RequestOK
  <2>2. CASE p = r
    BY <1>2, <2>1, <2>2 DEF Settled
  <2>3. CASE p # r
    BY <1>2, <2>3 DEF Asking, Insert, Enqueue, Commit, Rollback, Stall, Inv, TypeOK
  <2>4. QED BY <2>2, <2>3
<1>3. ASSUME NEW w \in Workers, Mark(w) \/ Complete(w) \/ RecordFailure(w)
      PROVE  queue[r].stalls # 0
  <2>1. run[w].stage \in Writing
    BY <1>3 DEF Mark, Complete, RecordFailure, Writing
  <2>2. run[w].report = r
    BY <1>3, WritingStores DEF Stored, Inv, TypeOK
  <2>3. QED BY <2>1, <2>2 DEF Inv, OneRun, RunsOn
<1>4. ASSUME NEW w \in Workers, Working(w) \/ Fail(w) \/ Crash(w)
      PROVE  queue[r].stalls # 0
  BY <1>3, <1>4 DEF Working, Collect, Announce, Return, Fail, Crash
<1>5. ASSUME NEW w \in Workers, NEW p \in Reports, Take(w, p)
      PROVE  FALSE
  BY <1>5 DEF Take
<1>6. row' = row => FALSE
  OBVIOUS
<1>7. QED BY <1>1, <1>2, <1>4, <1>5, <1>6 DEF Next, vars

LEMMA SettledSteps ==
  Inv /\ [Next]_vars => [\A r \in Reports : Settled(r) /\ row'[r] # row[r]
                           => queue[r].stalls > 0]_vars
BY SettledStep

\* No step reopens or rewrites a settled report unless its job stalled:
\* SettledUnlessStalled, for any workers and any number of stalls.
THEOREM SettledReportsStay == Spec => SettledUnlessStalled
BY InitInv, StepInv, SettledSteps, PTL DEF Spec, SettledUnlessStalled

----------------------------------------------------------------------------
\* What the repository claims of exports is false (the claims at the end of Reports),
\* and the theorems below say which events make it so: a job that stalls, and a job that
\* is taken before its row is committed, which requestTicketReport() means to prevent.
ErrorsExplained ==
  \A r \in Reports :
    queue[r].stalls = 0 /\ row[r] # NoRow /\ row[r].error => row[r].status = "FAILED"

TakesCommitted == \A w \in Workers, r \in Reports : Take(w, r) => row[r] # NoRow

RowsAreThere ==
  /\ missed = {}
  /\ \A w \in Workers, r \in Reports : RunsOn(w, r) => row[r] # NoRow

NothingStalls == \A r \in Reports : queue[r].stalls = 0

Updates(w) == Mark(w) \/ Complete(w) \/ RecordFailure(w)

\* A step of process() that writes changes the row of its report, if it is there, and
\* brings an error only with FAILED.
LEMMA UpdatesOneRow ==
  ASSUME Inv, NEW w \in Workers, Updates(w), NEW r, r = run[w].report
  PROVE  /\ r \in Reports /\ RunsOn(w, r) /\ run[w].stage \in Writing /\ queue' = queue
         /\ \A v \in Workers, p \in Reports : RunsOn(v, p)' => RunsOn(v, p)
         /\ \A p \in Reports : /\ p # r => row'[p] = row[p]
                               /\ row[p] = NoRow <=> row'[p] = NoRow
         /\ row[r] # NoRow =>
              /\ missed' = missed
              /\ row'[r].error => row[r].error \/ row'[r].status = "FAILED"
<1>1. r \in Reports /\ RunsOn(w, r) /\ run[w].stage \in Writing /\ queue' = queue
  BY DEF Inv, TypeOK, RunOK, Run, Updates, Mark, Complete, RecordFailure, RunsOn, Writing
<1>2. row[r] # NoRow => row[r] \in Row
  BY <1>1 DEF Inv, TypeOK
<1>3. \A v \in Workers, p \in Reports : RunsOn(v, p)' => RunsOn(v, p)
  BY DEF Updates, Mark, Complete, RecordFailure, Advance, RunsOn, Inv, TypeOK, Run
<1>4. PICK values :
        /\ UpdateMany(r, values)
        /\ row[r] # NoRow =>
             values \in Row /\ (values.error => row[r].error \/ values.status = "FAILED")
  <2>1. CASE Mark(w)
    <3> DEFINE values == [row[r] EXCEPT !.status = "PROCESSING"]
    <3>1. UpdateMany(r, values)
      BY <2>1 DEF Mark
    <3>2. row[r] # NoRow => values \in Row /\ values.error = row[r].error
      BY <1>2 DEF Row
    <3> HIDE DEF values
    <3>3. QED BY <3>1, <3>2
  <2>2. CASE Complete(w)
    <3> DEFINE values == [status |-> "COMPLETED", content |-> TRUE, error |-> FALSE]
    <3>1. UpdateMany(r, values)
      BY <2>2 DEF Complete
    <3>2. values \in Row /\ ~values.error
      BY DEF Row, Outcomes
    <3> HIDE DEF values
    <3>3. QED BY <3>1, <3>2
  <2>3. CASE RecordFailure(w)
    <3> DEFINE values == [row[r] EXCEPT !.status = "FAILED", !.error = TRUE]
    <3>1. UpdateMany(r, values)
      BY <2>3 DEF RecordFailure
    <3>2. row[r] # NoRow => values \in Row /\ values.status = "FAILED"
      BY <1>2, RowValues
    <3> HIDE DEF values
    <3>3. QED BY <3>1, <3>2
  <2>4. QED BY <2>1, <2>2, <2>3 DEF Updates
<1>5. QED
  BY <1>1, <1>3, <1>4, UpdateManyCases, NoRowAssumption DEF Inv, TypeOK, NoRowIsNoRow

\* All other steps: a row is committed once, and is new.
LEMMA OtherSteps ==
  ASSUME Inv, [Next]_vars, \A w \in Workers : ~Updates(w)
  PROVE  /\ missed' = missed
         /\ \A p \in Reports : /\ queue'[p].stalls = 0 => queue[p].stalls = 0
                               /\ \/ row'[p] = row[p]
                                  \/ row[p] = NoRow /\ row'[p] # NoRow /\ ~row'[p].error
         /\ \A w \in Workers, p \in Reports : RunsOn(w, p)' => RunsOn(w, p) \/ Take(w, p)
<1> USE DEF Inv
<1>1. ASSUME NEW r \in Reports, Insert(r) \/ Enqueue(r) \/ Rollback(r) \/ Stall(r)
      PROVE  /\ UNCHANGED <<row, run, missed>>
             /\ \A p \in Reports : queue'[p].stalls = 0 => queue[p].stalls = 0
  <2>1. CASE Stall(r)
    <3>1. queue[r].stalls \in Nat /\ queue' = [queue EXCEPT ![r] = Stalled(queue[r])]
      BY <2>1, MaxStallsAssumption DEF Stall, TypeOK, Job
    <3>2. Stalled(queue[r]).stalls = 0 => queue[r].stalls = 0
      BY <3>1 DEF Stalled
    <3>3. QED BY <2>1, <3>1, <3>2 DEF Stall, TypeOK
  <2>2. CASE ~Stall(r)
    BY <1>1, <2>2 DEF Insert, Enqueue, Rollback, TypeOK, Job
  <2>3. QED BY <2>1, <2>2
<1>2. ASSUME NEW r \in Reports, Commit(r)
      PROVE  /\ UNCHANGED <<queue, run, missed>>
             /\ \A p \in Reports :
                  \/ row'[p] = row[p]
                  \/ row[p] = NoRow /\ row'[p] # NoRow /\ ~row'[p].error
  <2>1. row[r] = NoRow /\ row'[r] \in Row /\ ~row'[r].error
    BY <1>2 DEF Commit, RequestOK, TypeOK, Row
  <2>2. QED BY <1>2, <2>1, NoRowAssumption DEF Commit, TypeOK, NoRowIsNoRow
<1>3. ASSUME NEW w \in Workers, NEW r \in Reports, Take(w, r)
      PROVE  /\ UNCHANGED <<row, missed>>
             /\ \A p \in Reports : queue'[p].stalls = queue[p].stalls
             /\ \A v \in Workers, p \in Reports : RunsOn(v, p)' => RunsOn(v, p) \/ Take(v, p)
  <2>1. \A p \in Reports : queue'[p].stalls = queue[p].stalls
    <3>1. queue'[r].stalls = queue[r].stalls
      BY <1>3 DEF Take, TypeOK, Job
    <3>2. \A p \in Reports : p # r => queue'[p] = queue[p]
      BY <1>3 DEF Take, TypeOK
    <3>3. QED BY <3>1, <3>2
  <2>2. \A v \in Workers, p \in Reports : RunsOn(v, p)' => RunsOn(v, p) \/ (v = w /\ p = r)
    BY <1>3 DEF Take, TypeOK, RunsOn
  <2>3. QED BY <1>3, <2>1, <2>2 DEF Take
<1>4. ASSUME NEW w \in Workers, Collect(w) \/ Fail(w) \/ Announce(w)
      PROVE  /\ UNCHANGED <<row, queue, missed>>
             /\ \A v \in Workers, p \in Reports : RunsOn(v, p)' => RunsOn(v, p)
  BY <1>4 DEF Collect, Fail, Announce, Advance, TypeOK, RunsOn, Run
<1>5. ASSUME NEW w \in Workers, Return(w) \/ Crash(w)
      PROVE  /\ UNCHANGED <<row, missed>>
             /\ \A p \in Reports : queue'[p].stalls = queue[p].stalls
             /\ \A v \in Workers, p \in Reports : RunsOn(v, p)' => RunsOn(v, p)
  <2>1. \A v \in Workers, p \in Reports : RunsOn(v, p)' => RunsOn(v, p)
    BY <1>5, EndOfRun DEF Return, Crash
  <2>2. UNCHANGED <<row, missed>>
    BY <1>5 DEF Return, Crash
  <2>3. CASE Crash(w)
    BY <2>1, <2>2, <2>3 DEF Crash
  <2>4. CASE Return(w)
    <3>1. PICK r, state : queue' = IF queue[r].by = w
                            THEN [queue EXCEPT ![r] = Finished(@, state)] ELSE queue
      BY <2>4 DEF Return
    <3>2. \A p \in Reports : queue'[p].stalls = queue[p].stalls
      BY <3>1 DEF Finished, TypeOK, Job
    <3>3. QED BY <2>1, <2>2, <3>2
  <2>5. QED BY <1>5, <2>3, <2>4
<1>6. CASE UNCHANGED vars
  BY <1>6 DEF vars, RunsOn
<1>7. QED
  BY <1>1, <1>2, <1>3, <1>4, <1>5, <1>6 DEF Next, Asking, Working, Updates, RunsOn

LEMMA ErrorsStep == Inv /\ ErrorsExplained /\ [Next]_vars => ErrorsExplained'
<1> SUFFICES ASSUME Inv, ErrorsExplained, [Next]_vars PROVE ErrorsExplained'
  OBVIOUS
<1>1. ASSUME NEW w \in Workers, Updates(w)
      PROVE  ErrorsExplained'
  <2> DEFINE r == run[w].report
  <2>1. /\ r \in Reports /\ RunsOn(w, r) /\ run[w].stage \in Writing /\ queue' = queue
        /\ \A p \in Reports : /\ p # r => row'[p] = row[p]
                              /\ row[p] = NoRow <=> row'[p] = NoRow
        /\ row[r] # NoRow /\ row'[r].error => row[r].error \/ row'[r].status = "FAILED"
    BY <1>1, UpdatesOneRow
  <2>2. queue[r].stalls = 0 => ~Settled(r)
    BY <2>1 DEF Inv, OneRun
  <2>3. queue[r].stalls = 0 /\ row[r] # NoRow => ~row[r].error
    BY <2>1, <2>2 DEF ErrorsExplained, Settled, Outcomes
  <2> HIDE DEF r
  <2>4. QED BY <2>1, <2>3 DEF ErrorsExplained
<1>2. CASE \A w \in Workers : ~Updates(w)
  BY <1>2, OtherSteps DEF ErrorsExplained
<1>3. QED BY <1>1, <1>2

\* An error beside another status than FAILED is always the trace of a job that stalled
\* and was run again: ErrorOnlyWhenFailed, report by report, wherever one run suffices.
THEOREM OnlyStallsLeaveErrors == Spec => []ErrorsExplained
<1>1. Init => ErrorsExplained
  BY DEF Init, ErrorsExplained
<1>2. QED BY <1>1, InitInv, StepInv, ErrorsStep, PTL DEF Spec

LEMMA RowsAreThereStep ==
  Inv /\ RowsAreThere /\ [Next]_vars /\ [TakesCommitted]_vars => RowsAreThere'
<1> SUFFICES ASSUME Inv, RowsAreThere, [Next]_vars, [TakesCommitted]_vars
             PROVE  RowsAreThere'
  OBVIOUS
<1>1. ASSUME NEW w \in Workers, Updates(w)
      PROVE  RowsAreThere'
  <2>1. row[run[w].report] # NoRow
    BY <1>1, UpdatesOneRow DEF RowsAreThere
  <2>2. QED BY <1>1, <2>1, UpdatesOneRow DEF RowsAreThere
<1>2. CASE \A w \in Workers : ~Updates(w)
  <2>1. \A w \in Workers, p \in Reports : Take(w, p) => row[p] # NoRow
    <3>1. ASSUME NEW w \in Workers, NEW p \in Reports, Take(w, p)
          PROVE  run' # run
      <4>1. run[w].stage = "idle" /\ run'[w].stage = "taken"
        BY <3>1 DEF Take, Inv, TypeOK
      <4>2. QED BY <4>1
    <3>2. QED BY <3>1 DEF TakesCommitted, vars
  <2>2. QED BY <1>2, <2>1, OtherSteps DEF RowsAreThere
<1>3. QED BY <1>1, <1>2

LEMMA DownloadsFollow ==
  Inv /\ RowsAreThere =>
    RowBeforeJob /\ (NothingStalls => CompletedCanBeDownloaded)
<1> SUFFICES ASSUME Inv, RowsAreThere
             PROVE  RowBeforeJob /\ (NothingStalls => CompletedCanBeDownloaded)
  OBVIOUS
<1>1. RowBeforeJob
  BY DEF Inv, TypeOK, RunOK, Run, RowsAreThere, RunsOn, RowBeforeJob
<1>2. NothingStalls => CompletedCanBeDownloaded
  BY InvOutcomes DEF RowsAreThere, NothingStalls, CompletedCanBeDownloaded,
                     OutcomesAgree, Plain, Downloadable
<1>3. QED BY <1>1, <1>2

\* If a job is never taken before its row is committed, no run misses its row:
\* RowBeforeJob.  That whoever is told COMPLETED can download at once,
\* CompletedCanBeDownloaded, needs more: that no job stalls either, since a second run
\* puts the row back to PROCESSING after the first announced its result.  The queue sees
\* to neither, and both claims fail in Reports.
THEOREM JobsAfterTheCommit ==
  Spec /\ [][TakesCommitted]_vars =>
    []RowBeforeJob /\ ([]NothingStalls => []CompletedCanBeDownloaded)
<1>1. Init => Inv /\ RowsAreThere
  BY InitInv, NullsAssumption DEF Init, RowsAreThere, RunsOn, Idle
<1>2. Inv /\ [Next]_vars => Inv'
  BY StepInv
<1>3. Inv /\ RowsAreThere /\ [Next]_vars /\ [TakesCommitted]_vars => RowsAreThere'
  BY RowsAreThereStep
<1>4. Inv /\ RowsAreThere =>
        RowBeforeJob /\ (NothingStalls => CompletedCanBeDownloaded)
  BY DownloadsFollow
<1>5. QED BY <1>1, <1>2, <1>3, <1>4, PTL DEF Spec

----------------------------------------------------------------------------
(***************************************************************************)
(* The pages of a list.                                                    *)
(***************************************************************************)

\* The place of a row in the order of a list whose rows are those of S.
Ahead(S, t) == {u \in S : Before(u, t)}
Place(S, t) == Cardinality(Ahead(S, t)) + 1

\* A sequence of the elements of S, each once, in the order of the list.
Sorts(s, S) ==
  /\ s \in [1 .. Cardinality(S) -> S]
  /\ \A t \in S : \E i \in 1 .. Cardinality(S) : s[i] = t
  /\ \A i, j \in 1 .. Cardinality(S) : i < j => Before(s[i], s[j])

LEMMA BeforeIsAnOrder ==
  /\ \A t \in Nat : ~Before(t, t)
  /\ \A t, u \in Nat : Before(t, u) => ~Before(u, t)
  /\ \A t, u \in Nat : t = u \/ Before(t, u) \/ Before(u, t)
  /\ \A t, u, v \in Nat : Before(t, u) /\ Before(u, v) => Before(t, v)
BY DEF Before

\* Places go from 1 to the number of rows, in the order of the rows.
LEMMA Places ==
  ASSUME NEW S \in SUBSET Nat, IsFiniteSet(S)
  PROVE  /\ Cardinality(S) \in Nat
         /\ \A t \in S : Place(S, t) \in 1 .. Cardinality(S)
         /\ \A t, u \in S : Before(t, u) <=> Place(S, t) < Place(S, u)
         /\ \A t, u \in S : Place(S, t) = Place(S, u) => t = u
         /\ \A k \in 1 .. Cardinality(S) : \E t \in S : Place(S, t) = k
<1> DEFINE n == Cardinality(S)
<1>1. n \in Nat
  BY FS_CardinalityType
<1>2. \A t \in S : /\ t \in Nat /\ IsFiniteSet(Ahead(S, t))
                   /\ Cardinality(Ahead(S, t)) \in Nat
  BY FS_Subset, FS_CardinalityType DEF Ahead
<1>3. ASSUME NEW t \in S PROVE Place(S, t) \in 1 .. n
  <2>1. Ahead(S, t) \in SUBSET S /\ Ahead(S, t) # S
    BY <1>2, BeforeIsAnOrder DEF Ahead
  <2>2. Cardinality(Ahead(S, t)) <= n /\ Cardinality(Ahead(S, t)) # n
    BY <2>1, FS_Subset
  <2>3. QED BY <1>1, <1>2, <2>2 DEF Place
<1>4. ASSUME NEW t \in S, NEW u \in S, Before(t, u) PROVE Place(S, t) < Place(S, u)
  <2>1. Ahead(S, t) \in SUBSET Ahead(S, u)
    BY <1>2, <1>4, BeforeIsAnOrder DEF Ahead
  <2>2. Ahead(S, t) # Ahead(S, u)
    BY <1>2, <1>4, BeforeIsAnOrder DEF Ahead
  <2>3. /\ Cardinality(Ahead(S, t)) <= Cardinality(Ahead(S, u))
        /\ Cardinality(Ahead(S, t)) # Cardinality(Ahead(S, u))
    BY <1>2, <2>1, <2>2, FS_Subset
  <2>4. QED BY <1>2, <2>3 DEF Place
<1>5. \A t, u \in S : Place(S, t) = Place(S, u) => t = u
  <2> SUFFICES ASSUME NEW t \in S, NEW u \in S, t # u PROVE Place(S, t) # Place(S, u)
    OBVIOUS
  <2>1. Before(t, u) \/ Before(u, t)
    BY <1>2, BeforeIsAnOrder
  <2>2. Place(S, t) \in Nat /\ Place(S, u) \in Nat
    BY <1>2 DEF Place
  <2>3. QED BY <2>1, <2>2, <1>4
<1>6. ASSUME NEW k \in 1 .. n PROVE \E t \in S : Place(S, t) = k
  <2> DEFINE f == [t \in S |-> Place(S, t)]
  <2>1. f \in [S -> 1 .. n]
    BY <1>3
  <2>2. f \in Injection(S, 1 .. n)
    BY <2>1, <1>5 DEF Injection, IsInjective
  <2>3. IsFiniteSet(1 .. n) /\ Cardinality(1 .. n) = n
    BY <1>1, FS_Interval
  <2>4. f \in Surjection(S, 1 .. n)
    BY <2>2, <2>3, FS_Injection
  <2>5. \E t \in S : f[t] = k
    BY <2>4 DEF Surjection
  <2>6. QED BY <2>5
<1>7. ASSUME NEW t \in S, NEW u \in S, Place(S, t) < Place(S, u) PROVE Before(t, u)
  <2>1. ~Before(u, t)
    <3>1. Place(S, t) \in Nat /\ Place(S, u) \in Nat
      BY <1>2 DEF Place
    <3>2. QED BY <1>4, <1>7, <3>1
  <2>2. t # u
    BY <1>2, <1>7 DEF Place
  <2>3. QED BY <1>2, <2>1, <2>2, BeforeIsAnOrder
<1>8. QED BY <1>1, <1>3, <1>4, <1>5, <1>6, <1>7

\* The rows of a list can be put in order.
LEMMA Sorted ==
  ASSUME NEW S \in SUBSET Nat, IsFiniteSet(S)
  PROVE  Sorts(Sequenced(S, Before), S)
<1> DEFINE n == Cardinality(S)
           Orders(s) == \A i, j \in 1 .. n : i < j => Before(s[i], s[j])
<1>1. /\ n \in Nat
      /\ \A t \in S : Place(S, t) \in 1 .. n
      /\ \A t, u \in S : Before(t, u) <=> Place(S, t) < Place(S, u)
      /\ \A k \in 1 .. n : \E t \in S : Place(S, t) = k
  BY Places
<1>2. \E s \in [1 .. n -> S] : Orders(s)
  <2> DEFINE s == [k \in 1 .. n |-> CHOOSE t \in S : Place(S, t) = k]
  <2>1. \A k \in 1 .. n : s[k] \in S /\ Place(S, s[k]) = k
    BY <1>1
  <2>2. s \in [1 .. n -> S]
    BY <2>1
  <2> HIDE DEF s
  <2>3. Orders(s)
    BY <1>1, <2>1
  <2>4. QED BY <2>2, <2>3
<1> DEFINE s == Sequenced(S, Before)
<1>3. s \in [1 .. n -> S] /\ Orders(s)
  BY <1>2 DEF Sequenced
<1> HIDE DEF s
<1>4. \A i \in 1 .. n : s[i] \in S /\ s[i] \in Nat
  BY <1>3
<1>5. \A i, j \in 1 .. n : s[i] = s[j] => i = j
  <2> SUFFICES ASSUME NEW i \in 1 .. n, NEW j \in 1 .. n, i # j PROVE s[i] # s[j]
    OBVIOUS
  <2>1. i < j \/ j < i
    OBVIOUS
  <2>2. QED BY <1>3, <1>4, <2>1, BeforeIsAnOrder
<1>6. s \in Injection(1 .. n, S)
  BY <1>3, <1>5 DEF Injection, IsInjective
<1>7. IsFiniteSet(1 .. n) /\ Cardinality(1 .. n) = n
  BY <1>1, FS_Interval
<1>8. s \in Surjection(1 .. n, S)
  BY <1>6, <1>7, FS_Injection
<1>9. QED BY <1>3, <1>8 DEF Sorts, Surjection, s

\* The row at index i of the sorted list has place i.
LEMMA IndexIsPlace ==
  ASSUME NEW S \in SUBSET Nat, IsFiniteSet(S), NEW s, Sorts(s, S),
         NEW i \in 1 .. Cardinality(S)
  PROVE  Place(S, s[i]) = i
<1> DEFINE n == Cardinality(S)
           A == Ahead(S, s[i])
           f == [j \in 1 .. (i - 1) |-> s[j]]
<1>1. n \in Nat
  BY FS_CardinalityType
<1>2. /\ s \in [1 .. n -> S]
      /\ \A t \in S : \E j \in 1 .. n : s[j] = t
      /\ \A j, k \in 1 .. n : j < k => Before(s[j], s[k])
  BY DEF Sorts
<1>3. \A j \in 1 .. n : s[j] \in Nat
  BY <1>2
<1>4. \A j \in 1 .. n : s[j] \in A <=> j < i
  <2> SUFFICES ASSUME NEW j \in 1 .. n PROVE s[j] \in A <=> j < i
    OBVIOUS
  <2>1. CASE j < i
    BY <1>2, <2>1 DEF Ahead
  <2>2. CASE j = i
    BY <1>3, <2>2, BeforeIsAnOrder DEF Ahead
  <2>3. CASE i < j
    BY <1>2, <1>3, <2>3, BeforeIsAnOrder DEF Ahead
  <2>4. QED BY <1>1, <2>1, <2>2, <2>3
<1>5. \A j \in 1 .. (i - 1) : j \in 1 .. n /\ j < i
  BY <1>1
<1>6. f \in [1 .. (i - 1) -> A]
  BY <1>4, <1>5
<1>7. IsInjective(f)
  <2> SUFFICES ASSUME NEW j \in 1 .. (i - 1), NEW k \in 1 .. (i - 1), j # k
               PROVE  f[j] # f[k]
    BY DEF IsInjective
  <2>1. j < k \/ k < j
    OBVIOUS
  <2>2. s[j] # s[k]
    BY <1>2, <1>3, <1>5, <2>1, BeforeIsAnOrder
  <2>3. QED BY <2>2
<1>8. \A t \in A : \E j \in 1 .. (i - 1) : f[j] = t
  <2> SUFFICES ASSUME NEW t \in A PROVE \E j \in 1 .. (i - 1) : f[j] = t
    OBVIOUS
  <2>1. PICK j \in 1 .. n : s[j] = t
    BY <1>2 DEF Ahead
  <2>2. j < i
    BY <1>4, <2>1
  <2>3. j \in 1 .. (i - 1)
    BY <1>1, <2>2
  <2>4. QED BY <2>1, <2>3
<1>9. f \in Bijection(1 .. (i - 1), A)
  BY <1>6, <1>7, <1>8 DEF Bijection, Injection, Surjection
<1>10. i - 1 \in Nat
  BY <1>1
<1>11. Cardinality(A) = i - 1
  BY <1>9, <1>10, FS_CountingElements DEF ExistsBijection
<1>12. QED BY <1>10, <1>11 DEF Place

----------------------------------------------------------------------------
\* No caller of the timeline names an action: with one, a requester is answered rows
\* that were not asked for (ExportFilter).
NobodyFilters == Filtering => "timeline" \notin Lists

Running == {"asking", "counting", "counted"}

ListTypeOK ==
  /\ list \in Lists
  /\ opened \in 0 .. MaxItems
  /\ listed \in SUBSET (1 .. opened)
  /\ unasked = {}
  /\ notes \in SUBSET (1 .. MaxItems)
  /\ staff \in BOOLEAN /\ asStaff \in BOOLEAN
  /\ pc \in {"idle", "done", "refused"} \cup Running
  /\ page \in Nat \ {0}
  /\ total \in Nat
  /\ rows \in Seq(1 .. MaxItems)
  /\ first \in SUBSET (1 .. MaxItems)
  /\ entered \in SUBSET (1 .. MaxItems)
  /\ left \in SUBSET (1 .. MaxItems)
  /\ pc = "idle" => page = 1 /\ rows = <<>>

\* What is listed was listed, or entered since; what was listed still is, or left since.
ListedOK ==
  pc # "idle" => /\ Listable \subseteq first \cup entered
                 /\ first \subseteq Listable \cup left
                 /\ Returned \subseteq first \cup entered

\* The rows that are not behind r, those that entered during the reading apart, were
\* on the pages that have been read.
Passed(r) == {t \in Listable \ entered : t = r \/ Before(t, r)}
PassedOK ==
  pc \in Running =>
    \A r \in Returned : Cardinality(Passed(r)) <= (page - 1) * PerPage

\* A row that stayed, while nothing before it moved, has the place it had at first: it
\* was read, or is on a page to come, and was counted.
Steady(t) == t \in first \ left /\ \A u \in left \cup entered : ~Before(u, t)
SteadyOK ==
  /\ pc \in Running =>
       \A t \in first : Steady(t) =>
         t \in Returned \/ Place(first, t) > (page - 1) * PerPage
  /\ pc = "counted" =>
       \A t \in first : Steady(t) => Place(first, t) <= total
  /\ pc = "done" /\ Len(rows) < MaxRows =>
       \A t \in first : Steady(t) => t \in Returned

ListInv == ListTypeOK /\ ListedOK /\ RowsStayInOrder /\ PassedOK /\ SteadyOK

LEMMA ListInitInv == NobodyFilters /\ ListInit => ListInv
<1> SUFFICES ASSUME NobodyFilters, ListInit PROVE ListInv
  OBVIOUS
<1> USE BoundsAssumption DEF ListInit
<1>1. listed \in SUBSET (1 .. opened) /\ notes \in SUBSET (1 .. MaxItems)
  OBVIOUS
<1>2. rows \in Seq(1 .. MaxItems) /\ Len(rows) = 0
  OBVIOUS
<1>3. ListTypeOK
  BY <1>1, <1>2 DEF ListTypeOK
<1>4. QED
  BY <1>2, <1>3 DEF ListInv, ListedOK, RowsStayInOrder, PassedOK, SteadyOK, Running

\* Sets of rows are finite sets of numbers.
LEMMA RowSets ==
  ASSUME NEW S \in SUBSET (1 .. MaxItems)
  PROVE  S \in SUBSET Nat /\ IsFiniteSet(S) /\ Cardinality(S) \in Nat
<1>1. IsFiniteSet(1 .. MaxItems)
  BY BoundsAssumption, FS_Interval
<1>2. S \in SUBSET Nat
  BY BoundsAssumption
<1>3. IsFiniteSet(S)
  BY <1>1, FS_Subset
<1>4. QED BY <1>2, <1>3, FS_CardinalityType

LEMMA ListableRows ==
  ASSUME ListTypeOK
  PROVE  Listable \in SUBSET (1 .. MaxItems)
<1>1. \A t \in 1 .. opened : t \in 1 .. MaxItems
  BY BoundsAssumption DEF ListTypeOK
<1>2. listed \in SUBSET (1 .. opened)
  BY DEF ListTypeOK
<1>3. QED BY <1>1, <1>2 DEF Listable

\* What a step that is tracked leaves true of the rows that did not move.
LEMMA TrackedStep ==
  ASSUME ListTypeOK, ListTypeOK', ListedOK, pc # "idle", pc' # "idle",
         Tracked, UNCHANGED <<first, list>>
  PROVE  /\ Listable' \subseteq first \cup entered'
         /\ first \subseteq Listable' \cup left'
         /\ entered \subseteq entered'
         /\ \A r : Passed(r)' \subseteq Passed(r)
         /\ \A t : Steady(t)' => Steady(t)
         /\ \A r : Cardinality(Passed(r)') \in Nat
                   /\ Cardinality(Passed(r)') <= Cardinality(Passed(r))
<1>1. /\ Listable' \subseteq first \cup entered'
      /\ first \subseteq Listable' \cup left'
      /\ entered \subseteq entered' /\ left \subseteq left'
  BY DEF Tracked, ListedOK
<1>2. \A r, t : Before(t, r)' <=> Before(t, r)
  BY DEF Before
<1>3. \A r : Passed(r)' \subseteq Passed(r)
  <2> SUFFICES ASSUME NEW r, NEW t \in Passed(r)' PROVE t \in Passed(r)
    OBVIOUS
  <2>1. t \in Listable' /\ t \notin entered' /\ (t = r \/ Before(t, r))
    BY <1>2 DEF Passed
  <2>2. t \in Listable /\ t \notin entered
    BY <1>1, <2>1 DEF Tracked
  <2>3. QED BY <2>1, <2>2 DEF Passed
<1>4. \A t : Steady(t)' => Steady(t)
  BY <1>1, <1>2 DEF Steady
<1>5. ASSUME NEW r
      PROVE  /\ Cardinality(Passed(r)') \in Nat
             /\ Cardinality(Passed(r)') <= Cardinality(Passed(r))
  <2>1. Passed(r) \in SUBSET (1 .. MaxItems)
    BY ListableRows DEF Passed
  <2>2. Passed(r)' \in SUBSET Passed(r)
    BY <1>3
  <2>3. IsFiniteSet(Passed(r))
    BY <2>1, RowSets
  <2>4. IsFiniteSet(Passed(r)')
    BY <2>2, <2>3, FS_Subset
  <2>5. QED BY <2>2, <2>3, <2>4, FS_Subset, FS_CardinalityType
<1>6. QED BY <1>1, <1>3, <1>4, <1>5

\* What others do between the statements of the reading.
LEMMA MeanwhileInv ==
  ASSUME ListInv, ListTypeOK', Meanwhile
  PROVE  ListInv'
<1> USE DEF ListInv
<1>1. UNCHANGED <<list, notes, pc, asStaff, page, total, rows, first>> /\ Tracked
  BY DEF Meanwhile, fixed, local
<1>2. CASE pc = "idle"
  BY <1>1, <1>2
     DEF ListTypeOK, ListedOK, RowsStayInOrder, PassedOK, SteadyOK, Running
<1>3. CASE pc # "idle"
  <2>1. /\ Listable' \subseteq first \cup entered'
        /\ first \subseteq Listable' \cup left'
        /\ entered \subseteq entered'
        /\ \A r : Cardinality(Passed(r)') \in Nat
                  /\ Cardinality(Passed(r)') <= Cardinality(Passed(r))
        /\ \A t : Steady(t)' => Steady(t)
    BY <1>1, <1>3, TrackedStep
  <2>2. Returned' = Returned /\ \A t, u : Before(t, u)' <=> Before(t, u)
    BY <1>1 DEF Returned, Before
  <2>3. ListedOK'
    BY <1>1, <2>1, <2>2 DEF ListedOK
  <2>4. RowsStayInOrder'
    BY <1>1, <2>1, <2>2 DEF RowsStayInOrder
  <2>5. PassedOK'
    <3> SUFFICES ASSUME pc \in Running, NEW r \in Returned
                 PROVE  Cardinality(Passed(r)') <= (page - 1) * PerPage
      BY <1>1, <2>2 DEF PassedOK
    <3>1. Cardinality(Passed(r)) <= (page - 1) * PerPage
      BY DEF PassedOK
    <3>2. Cardinality(Passed(r)) \in Nat
      BY ListableRows, RowSets DEF Passed
    <3>3. (page - 1) * PerPage \in Int
      BY BoundsAssumption DEF ListTypeOK
    <3>4. QED BY <2>1, <3>1, <3>2, <3>3
  <2>6. SteadyOK'
    <3>1. \A t : Place(first, t)' = Place(first, t)
      BY <1>1, <2>2 DEF Place, Ahead
    <3>2. QED BY <1>1, <2>1, <2>2, <3>1 DEF SteadyOK
  <2>7. QED BY <2>3, <2>4, <2>5, <2>6
<1>4. QED BY <1>2, <1>3

\* The rows of the other users: inserted, committed late, closed, reopened or filtered.
LEMMA OthersInv ==
  ASSUME NobodyFilters, ListInv,
         InsertRow \/ ChangeRole \/ \E t \in 1 .. MaxItems : Enter(t) \/ Leave(t)
  PROVE  ListInv'
<1> USE DEF ListInv
<1> USE BoundsAssumption
<1>1. Meanwhile
  BY DEF InsertRow, ChangeRole, Enter, Leave
<1>2. /\ UNCHANGED <<list, notes, pc, asStaff, page, total, rows, first>>
      /\ entered' \subseteq entered \cup Listable'
      /\ left' \subseteq left \cup Listable
  BY <1>1 DEF Meanwhile, fixed, local, Tracked
<1>3. /\ opened' \in 0 .. MaxItems
      /\ listed' \in SUBSET (1 .. opened')
      /\ unasked' = {}
      /\ staff' \in BOOLEAN
  <2>1. CASE InsertRow
    <3>1. opened' = opened + 1 /\ opened < MaxItems /\ staff' = staff
      BY <2>1 DEF InsertRow
    <3>2. listed' \subseteq listed \cup {opened'} /\ unasked' = unasked
      BY <2>1 DEF InsertRow, NobodyFilters, ListTypeOK
    <3>3. QED BY <3>1, <3>2 DEF ListTypeOK
  <2>2. CASE ChangeRole
    BY <2>2 DEF ChangeRole, ListTypeOK
  <2>3. ASSUME NEW t \in 1 .. MaxItems, Enter(t) \/ Leave(t)
        PROVE  /\ opened' \in 0 .. MaxItems
               /\ listed' \in SUBSET (1 .. opened')
               /\ unasked' = {}
               /\ staff' \in BOOLEAN
    BY <2>3 DEF Enter, Leave, ListTypeOK
  <2>4. QED BY <2>1, <2>2, <2>3
<1>4. listed' \in SUBSET (1 .. MaxItems)
  <2>1. \A t \in 1 .. opened' : t \in 1 .. MaxItems
    BY <1>3
  <2>2. QED BY <1>3, <2>1
<1>5. entered' \in SUBSET (1 .. MaxItems) /\ left' \in SUBSET (1 .. MaxItems)
  BY <1>2, <1>4, ListableRows DEF ListTypeOK, Listable
<1>6. ListTypeOK'
  BY <1>2, <1>3, <1>5 DEF ListTypeOK
<1>7. QED BY <1>1, <1>6, MeanwhileInv

\* A reading starts: every row has the place it has.
LEMMA BeginInv ==
  ASSUME ListInv, Begin
  PROVE  ListInv'
<1> USE DEF ListInv
<1>1. /\ pc = "idle" /\ pc' = "asking" /\ first' = Listable /\ entered' = {} /\ left' = {}
      /\ page = 1 /\ rows = <<>>
      /\ UNCHANGED <<list, notes, opened, listed, unasked, staff, asStaff, page, total,
                     rows>>
  BY DEF Begin, fixed, ListTypeOK
<1>2. Listable' = Listable
  BY <1>1 DEF Listable, Hidden
<1>3. ListTypeOK'
  BY <1>1, ListableRows DEF ListTypeOK, Running
<1>4. Returned' = {} /\ Len(rows') = 0
  BY <1>1 DEF Returned
<1>5. ListedOK'
  BY <1>1, <1>2, <1>4 DEF ListedOK
<1>6. RowsStayInOrder' /\ PassedOK'
  BY <1>1, <1>4 DEF RowsStayInOrder, PassedOK
<1>7. SteadyOK'
  <2>1. \A t \in first' : Place(first, t)' > 0
    <3> SUFFICES ASSUME NEW t \in first' PROVE Place(first, t)' > 0
      OBVIOUS
    <3>1. Ahead(first, t)' \in SUBSET (1 .. MaxItems)
      BY <1>1, ListableRows DEF Ahead
    <3>2. Cardinality(Ahead(first, t)') \in Nat
      BY <3>1, RowSets
    <3>3. QED BY <3>2 DEF Place
  <2>2. (page' - 1) * PerPage = 0
    BY <1>1, BoundsAssumption
  <2>3. QED BY <1>1, <2>1, <2>2 DEF SteadyOK
<1>8. QED BY <1>3, <1>5, <1>6, <1>7

\* A page is asked for, or refused.
LEMMA AcceptInv ==
  ASSUME ListInv, Accept
  PROVE  ListInv'
<1> USE DEF ListInv
<1>1. /\ pc = "asking" /\ pc' \in {"counting", "refused"} /\ asStaff' = staff
      /\ UNCHANGED <<list, notes, opened, listed, unasked, staff, page, total, rows,
                     first, entered, left>>
  BY DEF Accept, fixed
<1>2. Listable' = Listable
  BY <1>1 DEF Listable, Hidden
<1>3. /\ \A r : Passed(r)' = Passed(r)
      /\ \A t : Steady(t)' <=> Steady(t)
      /\ Returned' = Returned
      /\ \A t : Place(first, t)' = Place(first, t)
      /\ \A t, u : Before(t, u)' <=> Before(t, u)
  BY <1>1, <1>2 DEF Passed, Steady, Returned, Place, Ahead, Before
<1>4. ListTypeOK'
  BY <1>1 DEF ListTypeOK, Running
<1>5. ListedOK' /\ RowsStayInOrder'
  BY <1>1, <1>2, <1>3 DEF ListedOK, RowsStayInOrder
<1>6. PassedOK'
  BY <1>1, <1>3 DEF PassedOK, Running
<1>7. SteadyOK'
  BY <1>1, <1>3 DEF SteadyOK, Running
<1>8. QED BY <1>4, <1>5, <1>6, <1>7

\* In the list a steady row is behind the rows that it was behind at first.
LEMMA SteadyPlace ==
  ASSUME ListTypeOK, ListedOK, pc # "idle", NEW t \in first, Steady(t)
  PROVE  t \in Listable /\ Place(Listable, t) = Place(first, t)
<1>1. t \in Listable
  BY DEF ListedOK, Steady
<1>2. Ahead(Listable, t) = Ahead(first, t)
  BY DEF ListedOK, Steady, Ahead
<1>3. QED BY <1>1, <1>2 DEF Place

\* While a page is read, the filter finds what the reader can list.
LEMMA WhereListable ==
  ASSUME ListTypeOK, pc \in {"counting", "counted"}
  PROVE  Where = Listable
BY DEF ListTypeOK, Where, Listable, Hidden

\* The count includes every steady row and all before it.
LEMMA CountInv ==
  ASSUME ListInv, Count
  PROVE  ListInv'
<1> USE DEF ListInv
<1>1. /\ pc = "counting" /\ pc' = "counted" /\ total' = Cardinality(Where)
      /\ UNCHANGED <<list, notes, opened, listed, unasked, staff, asStaff, page, rows,
                     first, entered, left>>
  BY DEF Count, fixed
<1>2. Listable' = Listable
  BY <1>1 DEF Listable, Hidden
<1>3. /\ \A r : Passed(r)' = Passed(r)
      /\ \A t : Steady(t)' <=> Steady(t)
      /\ Returned' = Returned
      /\ \A t : Place(first, t)' = Place(first, t)
      /\ \A t, u : Before(t, u)' <=> Before(t, u)
  BY <1>1, <1>2 DEF Passed, Steady, Returned, Place, Ahead, Before
<1>4. Where = Listable /\ Listable \in SUBSET Nat /\ IsFiniteSet(Listable)
  BY <1>1, WhereListable, ListableRows, RowSets
<1>5. total' \in Nat
  BY <1>1, <1>4, FS_CardinalityType
<1>6. ListTypeOK'
  BY <1>1, <1>5 DEF ListTypeOK, Running
<1>7. ListedOK' /\ RowsStayInOrder'
  BY <1>1, <1>2, <1>3 DEF ListedOK, RowsStayInOrder
<1>8. PassedOK'
  BY <1>1, <1>3 DEF PassedOK, Running
<1>9. ASSUME NEW t \in first, Steady(t)
      PROVE  Place(first, t) <= total'
  <2>1. t \in Listable /\ Place(Listable, t) = Place(first, t)
    BY <1>1, <1>9, SteadyPlace
  <2>2. Place(Listable, t) \in 1 .. Cardinality(Listable)
    BY <1>4, <2>1, Places
  <2>3. QED BY <1>1, <1>4, <2>1, <2>2, FS_CardinalityType
<1>10. SteadyOK'
  BY <1>1, <1>3, <1>9 DEF SteadyOK, Running
<1>11. QED BY <1>6, <1>7, <1>8, <1>10

\* The rows of a page: those whose places are on it.
LEMMA PageRows ==
  ASSUME ListTypeOK, pc = "counted"
  PROVE  LET lo == (page - 1) * PerPage
         IN  /\ lo \in Nat /\ page * PerPage = lo + PerPage
             /\ Data \in Seq(Listable)
             /\ \A k \in 1 .. Len(Data) :
                  Place(Listable, Data[k]) = lo + k /\ k <= PerPage
             /\ \A t \in Listable :
                  lo < Place(Listable, t) /\ Place(Listable, t) <= lo + PerPage =>
                    \E k \in 1 .. Len(Data) : Data[k] = t
<1> DEFINE lo == (page - 1) * PerPage
           W == Listable
           n == Cardinality(W)
           s == Sequenced(W, Before)
           hi == IF lo + PerPage < n THEN lo + PerPage ELSE n
<1>1. lo \in Nat /\ page * PerPage = lo + PerPage /\ PerPage \in Nat \ {0}
  BY BoundsAssumption DEF ListTypeOK
<1>2. W \in SUBSET Nat /\ IsFiniteSet(W) /\ n \in Nat
  BY ListableRows, RowSets
<1>3. Sorts(s, W)
  BY <1>2, Sorted
<1> HIDE DEF s
<1>4. /\ s \in [1 .. n -> W] /\ Len(s) = n
      /\ \A t \in W : \E i \in 1 .. n : s[i] = t
  BY <1>2, <1>3 DEF Sorts
<1>5. Ordered = s
  BY WhereListable DEF Ordered, s
<1>6. Data = SubSeq(s, lo + 1, hi)
  <2>1. Data = Cut(s, lo + 1, lo + PerPage)
    BY <1>1, <1>5 DEF Data
  <2>2. QED BY <1>4, <2>1 DEF Cut
<1> HIDE DEF lo, W, n
<1>7. hi \in Nat /\ hi <= n /\ hi <= lo + PerPage
  BY <1>1, <1>2
<1>8. \A i \in (lo + 1) .. hi : s[i] \in W
  BY <1>1, <1>2, <1>4, <1>7
<1>9. /\ Data \in Seq(W)
      /\ Len(Data) = IF lo + 1 <= hi THEN hi - (lo + 1) + 1 ELSE 0
      /\ \A k \in 1 .. (hi - (lo + 1) + 1) : Data[k] = s[lo + 1 + k - 1]
  <2>1. lo + 1 \in Int /\ hi \in Int
    BY <1>1, <1>7
  <2> HIDE DEF hi
  <2>2. QED BY <1>6, <1>8, <2>1, SubSeqProperties
<1> HIDE DEF hi
<1>10. ASSUME NEW k \in 1 .. Len(Data)
       PROVE  Place(W, Data[k]) = lo + k /\ k <= PerPage
  <2>1. k \in 1 .. (hi - (lo + 1) + 1) /\ lo + k \in 1 .. n /\ k <= PerPage
    BY <1>1, <1>2, <1>7, <1>9
  <2>2. Data[k] = s[lo + k]
    BY <1>1, <1>9, <2>1
  <2>3. Place(W, s[lo + k]) = lo + k
    BY <1>2, <1>3, <2>1, IndexIsPlace DEF n
  <2>4. QED BY <2>1, <2>2, <2>3
<1>11. ASSUME NEW t \in W, lo < Place(W, t), Place(W, t) <= lo + PerPage
       PROVE  \E k \in 1 .. Len(Data) : Data[k] = t
  <2>1. PICK i \in 1 .. n : s[i] = t
    BY <1>4
  <2>2. Place(W, t) = i
    BY <1>2, <1>3, <2>1, IndexIsPlace DEF n
  <2>3. i - lo \in 1 .. Len(Data) /\ i - lo \in 1 .. (hi - (lo + 1) + 1)
    BY <1>1, <1>2, <1>9, <1>11, <2>2 DEF hi
  <2>4. Data[i - lo] = s[i]
    BY <1>1, <1>9, <2>3
  <2>5. QED BY <2>1, <2>3, <2>4
<1>12. QED BY <1>1, <1>9, <1>10, <1>11 DEF lo, W

\* What Cut keeps of the rows that were collected.
LEMMA CutRows ==
  ASSUME NEW S, NEW s \in Seq(S), NEW m \in Nat
  PROVE  /\ Cut(s, 1, m) \in Seq(S)
         /\ Len(Cut(s, 1, m)) = IF m < Len(s) THEN m ELSE Len(s)
         /\ \A i \in 1 .. Len(Cut(s, 1, m)) : Cut(s, 1, m)[i] = s[i]
         /\ Len(Cut(s, 1, m)) < m => Cut(s, 1, m) = s
<1> DEFINE k == IF m < Len(s) THEN m ELSE Len(s)
           c == SubSeq(s, 1, k)
<1>1. k \in Nat /\ \A i \in 1 .. k : s[i] \in S
  OBVIOUS
<1>2. Cut(s, 1, m) = c
  BY DEF Cut
<1> HIDE DEF k
<1>3. /\ c \in Seq(S) /\ Len(c) = IF 1 <= k THEN k - 1 + 1 ELSE 0
      /\ \A i \in 1 .. (k - 1 + 1) : c[i] = s[1 + i - 1]
  BY <1>1, SubSeqProperties
<1>4. Len(c) = k /\ \A i \in 1 .. k : c[i] = s[i]
  BY <1>1, <1>3
<1>5. k < m => c = s
  <2>1. SUFFICES ASSUME k < m PROVE c = s
    OBVIOUS
  <2>2. k = Len(s)
    BY <2>1 DEF k
  <2>3. QED BY <2>2, SubSeqFull
<1>6. QED BY <1>2, <1>3, <1>4, <1>5 DEF k

\* The last page is the one that holds the last row that was counted.
LEMMA LastPage ==
  ASSUME NEW n \in Nat, n = total, NEW p \in Nat \ {0}, p >= TotalPages
  PROVE  n <= p * PerPage
<1> USE BoundsAssumption
<1>1. CASE n = 0
  BY <1>1
<1>2. CASE n # 0
  <2> DEFINE q == (n + PerPage - 1) \div PerPage
  <2>1. q \in Nat /\ n + PerPage - 1 < PerPage * (q + 1)
    OBVIOUS
  <2>2. q <= p
    BY <1>2 DEF TotalPages
  <2> HIDE DEF q
  <2>3. PerPage * (q + 1) = PerPage * q + PerPage
    BY <2>1
  <2>4. PerPage * q <= PerPage * p
    BY <2>1, <2>2
  <2>5. QED BY <2>1, <2>3, <2>4
<1>3. QED BY <1>1, <1>2

\* The next page is added to what was read; others may have moved the list on.
LEMMA FindManyInv ==
  ASSUME ListInv, FindMany
  PROVE  ListInv'
<1> USE DEF ListInv
<1> DEFINE lo == (page - 1) * PerPage
           both == rows \o Data
           W == Listable
<1>1. /\ pc = "counted" /\ pc' \in {"asking", "done"}
      /\ rows' = Cut(both, 1, MaxRows) /\ Tracked
      /\ UNCHANGED <<list, notes, opened, listed, unasked, staff, asStaff, total, first>>
      /\ pc' = "asking" => ~NoNextPage /\ page' = page + 1
      /\ pc' = "done" => NoNextPage /\ page' = page
  BY DEF FindMany, fixed
<1>2. /\ lo \in Nat /\ page * PerPage = lo + PerPage
      /\ Data \in Seq(W)
      /\ \A k \in 1 .. Len(Data) : Place(W, Data[k]) = lo + k /\ k <= PerPage
      /\ \A t \in W : lo < Place(W, t) /\ Place(W, t) <= lo + PerPage =>
                       \E k \in 1 .. Len(Data) : Data[k] = t
  BY <1>1, PageRows
<1> HIDE DEF lo, W
<1>3. W \in SUBSET (1 .. MaxItems) /\ W \in SUBSET Nat /\ IsFiniteSet(W)
  BY ListableRows, RowSets DEF W
<1>4. /\ both \in Seq(1 .. MaxItems) /\ Len(both) = Len(rows) + Len(Data)
      /\ \A i \in 1 .. Len(both) :
           both[i] = IF i <= Len(rows) THEN rows[i] ELSE Data[i - Len(rows)]
      /\ Len(rows) \in Nat /\ Len(Data) \in Nat
  <2>1. Data \in Seq(1 .. MaxItems) /\ rows \in Seq(1 .. MaxItems)
    <3>1. Data \in Seq(1 .. MaxItems)
      BY <1>2, <1>3, SeqMonotonic
    <3>2. QED BY <3>1 DEF ListTypeOK
  <2>2. QED BY <2>1, ConcatProperties
<1> HIDE DEF both
<1>5. /\ rows' \in Seq(1 .. MaxItems) /\ Len(rows') \in Nat
      /\ Len(rows') <= Len(both) /\ Len(rows') <= MaxRows
      /\ \A i \in 1 .. Len(rows') : rows'[i] = both[i]
      /\ Len(rows') < MaxRows => rows' = both
  <2>1. MaxRows \in Nat /\ Len(both) \in Nat
    BY <1>4, BoundsAssumption
  <2> DEFINE c == Cut(both, 1, MaxRows)
  <2>2. /\ c \in Seq(1 .. MaxItems)
        /\ Len(c) = IF MaxRows < Len(both) THEN MaxRows ELSE Len(both)
        /\ \A i \in 1 .. Len(c) : c[i] = both[i]
        /\ Len(c) < MaxRows => c = both
    BY <1>4, <2>1, CutRows
  <2> HIDE DEF c
  <2>3. rows' = c
    BY <1>1 DEF c
  <2>4. QED BY <2>1, <2>2, <2>3
<1>6. ListTypeOK'
  <2>1. entered' \in SUBSET (1 .. MaxItems) /\ left' \in SUBSET (1 .. MaxItems)
    <3>1. Listable' \in SUBSET (1 .. MaxItems)
      <4>1. listed' \in SUBSET (1 .. MaxItems)
        BY <1>1, BoundsAssumption DEF ListTypeOK
      <4>2. QED BY <4>1 DEF Listable
    <3>2. QED BY <1>1, <3>1, ListableRows DEF ListTypeOK, Tracked
  <2>2. page' \in Nat \ {0} /\ pc' \in {"asking", "done"}
    BY <1>1 DEF ListTypeOK
  <2>3. QED BY <1>1, <1>5, <2>1, <2>2 DEF ListTypeOK, Running
<1>7. /\ Listable' \subseteq first \cup entered'
      /\ first \subseteq Listable' \cup left'
      /\ entered \subseteq entered'
      /\ \A t : Steady(t)' => Steady(t)
      /\ \A r : Cardinality(Passed(r)') \in Nat
                /\ Cardinality(Passed(r)') <= Cardinality(Passed(r))
  BY <1>1, <1>6, TrackedStep
<1>8. \A t, u : Before(t, u)' <=> Before(t, u)
  BY <1>1 DEF Before
<1>9. \A i \in 1 .. Len(rows') :
        \/ i \in 1 .. Len(rows) /\ rows'[i] = rows[i] /\ rows'[i] \in Returned
        \/ \E k \in 1 .. Len(Data) : i = Len(rows) + k /\ rows'[i] = Data[k]
  <2> SUFFICES ASSUME NEW i \in 1 .. Len(rows')
               PROVE
                 \/ i \in 1 .. Len(rows) /\ rows'[i] = rows[i] /\ rows'[i] \in Returned
                 \/ \E k \in 1 .. Len(Data) : i = Len(rows) + k /\ rows'[i] = Data[k]
    OBVIOUS
  <2>1. i \in 1 .. Len(both) /\ rows'[i] = both[i]
    BY <1>4, <1>5
  <2>2. CASE i <= Len(rows)
    <3>1. i \in 1 .. Len(rows) /\ rows'[i] = rows[i]
      BY <1>4, <2>1, <2>2
    <3>2. QED BY <3>1 DEF Returned
  <2>3. CASE ~(i <= Len(rows))
    <3>1. i - Len(rows) \in 1 .. Len(Data)
      BY <1>4, <2>1, <2>3
    <3>2. QED BY <1>4, <2>1, <2>3, <3>1
  <2>4. QED BY <2>2, <2>3
<1>10. \A k \in 1 .. Len(Data) : Data[k] \in W
  BY <1>2
<1>11. \A t, u \in W : Before(t, u) <=> Place(W, t) < Place(W, u)
  BY <1>3, Places
<1>12. ListedOK'
  <2>1. Returned' \subseteq Returned \cup W
    <3> SUFFICES ASSUME NEW i \in 1 .. Len(rows') PROVE rows'[i] \in Returned \cup W
      BY DEF Returned
    <3>1. QED BY <1>9, <1>10
  <2>2. W \subseteq first \cup entered /\ Returned \subseteq first \cup entered
    BY <1>1 DEF ListedOK, W
  <2>3. QED BY <1>1, <1>7, <2>1, <2>2 DEF ListedOK
\* With a row of the list, those that are not behind it.
<1>13. \A t \in W : LET A == Ahead(W, t) \cup {t}
                    IN  IsFiniteSet(A) /\ Cardinality(A) = Place(W, t)
  <2> SUFFICES ASSUME NEW t \in W
               PROVE  /\ IsFiniteSet(Ahead(W, t) \cup {t})
                      /\ Cardinality(Ahead(W, t) \cup {t}) = Place(W, t)
    OBVIOUS
  <2>1. IsFiniteSet(Ahead(W, t)) /\ t \notin Ahead(W, t)
    <3>1. Ahead(W, t) \in SUBSET W /\ t \in Nat
      BY <1>3 DEF Ahead
    <3>2. QED BY <1>3, <3>1, FS_Subset, BeforeIsAnOrder DEF Ahead
  <2>2. QED BY <2>1, FS_AddElement DEF Place
<1>14. RowsStayInOrder'
  <2> SUFFICES ASSUME NEW i \in 1 .. Len(rows'), NEW j \in 1 .. Len(rows'), i < j,
                      ~Before(rows'[i], rows'[j])
               PROVE  \E t \in entered' : t = rows'[j] \/ Before(t, rows'[j])
    BY <1>8 DEF RowsStayInOrder
  <2>1. CASE j \in 1 .. Len(rows)
    <3>1. i \in 1 .. Len(rows) /\ rows'[i] = rows[i] /\ rows'[j] = rows[j]
      BY <1>4, <1>5, <2>1
    <3>2. QED BY <1>7, <2>1, <3>1 DEF RowsStayInOrder
  <2>2. CASE i \notin 1 .. Len(rows)
    <3>1. PICK k \in 1 .. Len(Data) : i = Len(rows) + k /\ rows'[i] = Data[k]
      BY <1>9, <2>2
    <3>2. j \notin 1 .. Len(rows)
      BY <1>4, <2>2
    <3>3. PICK l \in 1 .. Len(Data) : j = Len(rows) + l /\ rows'[j] = Data[l]
      BY <1>9, <3>2
    <3>4. k < l
      BY <1>4, <3>1, <3>3
    <3>5. Place(W, Data[k]) < Place(W, Data[l])
      BY <1>2, <3>4
    <3>6. QED BY <1>10, <1>11, <3>1, <3>3, <3>5
  <2>3. CASE i \in 1 .. Len(rows) /\ j \notin 1 .. Len(rows)
    <3> DEFINE r == rows[i]
               q == rows'[j]
               A == Ahead(W, q) \cup {q}
    <3>1. PICK k \in 1 .. Len(Data) : j = Len(rows) + k /\ q = Data[k]
      BY <1>9, <2>3
    <3>2. r \in Returned /\ rows'[i] = r /\ r \in Nat /\ q \in W /\ q \in Nat
      <4>1. rows'[i] = r
        BY <1>4, <1>5, <2>3
      <4>2. r \in Returned
        BY <2>3 DEF Returned
      <4>3. r \in 1 .. MaxItems
        BY <2>3, ElementOfSeq DEF ListTypeOK
      <4>4. r \in Nat
        BY <4>3
      <4>5. q \in W /\ q \in Nat
        BY <1>3, <1>10, <3>1
      <4>6. QED BY <4>1, <4>2, <4>4, <4>5
    <3>3. q = r \/ Before(q, r)
      BY <3>2, BeforeIsAnOrder
    <3>4. SUFFICES ASSUME \A t \in entered : ~(t = q \/ Before(t, q)) PROVE FALSE
      BY <1>7
    <3>5. A \in SUBSET Passed(r)
      <4> SUFFICES ASSUME NEW t \in A PROVE t \in Passed(r)
        OBVIOUS
      <4>1. t \in W /\ t \in Nat /\ (t = q \/ Before(t, q))
        BY <1>3, <3>2 DEF Ahead
      <4>2. t \notin entered
        BY <3>4, <4>1
      <4>3. t = r \/ Before(t, r)
        BY <3>2, <3>3, <4>1, BeforeIsAnOrder
      <4>4. QED BY <4>1, <4>2, <4>3 DEF Passed, W
    <3>6. IsFiniteSet(Passed(r)) /\ Cardinality(Passed(r)) \in Nat
      <4>1. Passed(r) \in SUBSET (1 .. MaxItems)
        BY ListableRows DEF Passed
      <4>2. QED BY <4>1, RowSets
    <3>7. Cardinality(A) <= Cardinality(Passed(r))
      BY <3>5, <3>6, FS_Subset
    <3>8. Cardinality(Passed(r)) <= lo
      BY <1>1, <3>2 DEF PassedOK, Running, lo
    <3>9. Cardinality(A) = lo + k
      BY <1>2, <1>13, <3>1, <3>2
    <3>10. QED BY <1>2, <3>6, <3>7, <3>8, <3>9
  <2>4. QED BY <2>1, <2>2, <2>3
<1>15. PassedOK'
  <2> SUFFICES ASSUME pc' = "asking", NEW r \in Returned'
               PROVE  Cardinality(Passed(r)') <= lo + PerPage
    <3>1. pc' = "asking" => (page' - 1) * PerPage = lo + PerPage
      BY <1>1, <1>2 DEF ListTypeOK
    <3>2. pc' \in Running => pc' = "asking"
      BY <1>1 DEF Running
    <3>3. QED BY <3>1, <3>2 DEF PassedOK
  <2>1. Cardinality(Passed(r)') \in Nat /\ Cardinality(Passed(r)') <= Cardinality(Passed(r))
    BY <1>7
  <2>2. Passed(r) \in SUBSET (1 .. MaxItems)
    BY ListableRows DEF Passed
  <2>3. Cardinality(Passed(r)) \in Nat
    BY <2>2, RowSets
  <2>4. PerPage \in Nat
    BY BoundsAssumption
  <2>5. CASE r \in Returned
    <3>1. Cardinality(Passed(r)) <= lo
      BY <1>1, <2>5 DEF PassedOK, Running, lo
    <3>2. QED BY <1>2, <2>1, <2>3, <2>4, <3>1
  <2>6. CASE \E k \in 1 .. Len(Data) : r = Data[k]
    <3>1. PICK k \in 1 .. Len(Data) : r = Data[k]
      BY <2>6
    <3>2. r \in W /\ Place(W, r) = lo + k /\ k <= PerPage
      BY <1>2, <1>10, <3>1
    <3>3. Passed(r) \in SUBSET (Ahead(W, r) \cup {r})
      BY DEF Passed, Ahead, W
    <3>4. Cardinality(Passed(r)) <= lo + k
      <4>1. /\ IsFiniteSet(Ahead(W, r) \cup {r})
            /\ Cardinality(Ahead(W, r) \cup {r}) = lo + k
        BY <1>13, <3>2
      <4>2. QED BY <3>3, <4>1, FS_Subset
    <3>5. QED BY <1>2, <2>1, <2>3, <2>4, <3>2, <3>4
  <2>7. r \in Returned \/ \E k \in 1 .. Len(Data) : r = Data[k]
    BY <1>9 DEF Returned
  <2>8. QED BY <2>5, <2>6, <2>7
<1>16. SteadyOK'
  <2>1. ASSUME NEW t \in first, Steady(t), rows' = both,
               t \notin Returned'
        PROVE  t \in W /\ Place(W, t) = Place(first, t) /\ Place(W, t) > lo + PerPage
    <3>1. t \in W /\ Place(W, t) = Place(first, t)
      BY <1>1, <2>1, SteadyPlace DEF W
    <3>2. t \notin Returned
      <4>1. Returned \subseteq Returned'
        BY <1>4, <2>1 DEF Returned
      <4>2. QED BY <2>1, <4>1
    <3>3. Place(W, t) > lo
      BY <1>1, <2>1, <3>1, <3>2 DEF SteadyOK, Running, lo
    <3>4. \A k \in 1 .. Len(Data) : Data[k] \in Returned'
      <4> SUFFICES ASSUME NEW k \in 1 .. Len(Data) PROVE Data[k] \in Returned'
        OBVIOUS
      <4>1. Len(rows) + k \in 1 .. Len(both) /\ ~(Len(rows) + k <= Len(rows))
        BY <1>4
      <4>2. both[Len(rows) + k] = Data[Len(rows) + k - Len(rows)]
        BY <1>4, <4>1
      <4>3. rows'[Len(rows) + k] = Data[k]
        BY <1>4, <2>1, <4>2
      <4>4. QED BY <2>1, <4>1, <4>3 DEF Returned
    <3>5. ~(Place(W, t) <= lo + PerPage)
      BY <1>2, <2>1, <3>1, <3>3, <3>4
    <3>6. Place(W, t) \in Nat
      BY <1>3, <3>1, Places
    <3>7. QED BY <1>2, <3>1, <3>5, <3>6, BoundsAssumption
  <2>2. \A t : Place(first, t)' = Place(first, t)
    BY <1>1, <1>8 DEF Place, Ahead
  <2>3. ASSUME pc' = "asking", NEW t \in first, Steady(t), t \notin Returned'
        PROVE  Place(first, t) > (page' - 1) * PerPage
    <3>1. Len(both) < MaxRows
      BY <1>1, <1>4, <2>3, BoundsAssumption DEF NoNextPage, both
    <3>2. rows' = both
      <4>1. ~(MaxRows < Len(both)) /\ MaxRows \in Nat
        BY <1>4, <3>1, BoundsAssumption
      <4>2. Len(rows') < MaxRows
        BY <1>4, <1>5, <3>1, <4>1
      <4>3. QED BY <1>5, <4>2
    <3>3. page' - 1 = page
      BY <1>1, <2>3 DEF ListTypeOK
    <3>4. QED BY <1>2, <2>1, <2>3, <3>2, <3>3
  <2>4. ASSUME pc' = "done", Len(rows') < MaxRows, NEW t \in first, Steady(t)
        PROVE  t \in Returned'
    <3>1. SUFFICES ASSUME t \notin Returned' PROVE FALSE
      OBVIOUS
    <3>2. rows' = both
      BY <1>5, <2>4
    <3>3. /\ t \in W /\ Place(W, t) = Place(first, t)
          /\ Place(W, t) > lo + PerPage
      BY <2>1, <2>4, <3>1, <3>2
    <3>4. Place(W, t) \in 1 .. Cardinality(W) /\ Cardinality(W) \in Nat
      BY <1>3, <3>3, Places
    <3>5. Data # <<>>
      <4>1. PICK u \in W : Place(W, u) = lo + 1
        <5>1. lo + 1 \in 1 .. Cardinality(W)
          BY <1>2, <3>3, <3>4, BoundsAssumption
        <5>2. QED BY <1>3, <5>1, Places
      <4>2. \E k \in 1 .. Len(Data) : Data[k] = u
        BY <1>2, <4>1, BoundsAssumption
      <4>3. QED BY <4>2
    <3>6. page >= TotalPages
      BY <1>1, <2>4, <3>2, <3>5, BoundsAssumption DEF NoNextPage, both
    <3>7. total <= lo + PerPage
      BY <1>2, <3>6, LastPage DEF ListTypeOK
    <3>8. Place(first, t) <= total
      BY <1>1, <2>4 DEF SteadyOK
    <3>9. QED BY <1>2, <3>3, <3>4, <3>7, <3>8, BoundsAssumption DEF ListTypeOK
  <2>5. QED
    <3>1. \A t \in first : Steady(t)' => Steady(t)
      BY <1>7
    <3>2. first' = first /\ pc' # "counted"
      BY <1>1
    <3>3. pc' \in Running => pc' = "asking"
      BY <1>1 DEF Running
    <3>4. QED BY <2>2, <2>3, <2>4, <3>1, <3>2, <3>3 DEF SteadyOK
<1>17. QED BY <1>6, <1>12, <1>14, <1>15, <1>16

LEMMA ListStepInv == NobodyFilters /\ ListInv /\ [ListNext]_listVars => ListInv'
<1> SUFFICES ASSUME NobodyFilters, ListInv, [ListNext]_listVars PROVE ListInv'
  OBVIOUS
<1>1. CASE InsertRow \/ ChangeRole \/ \E t \in 1 .. MaxItems : Enter(t) \/ Leave(t)
  BY <1>1, OthersInv
<1>2. CASE Begin
  BY <1>2, BeginInv
<1>3. CASE Accept
  BY <1>3, AcceptInv
<1>4. CASE Count
  BY <1>4, CountInv
<1>5. CASE FindMany
  BY <1>5, FindManyInv
<1>6. CASE UNCHANGED listVars
  <2> USE <1>6 DEF listVars, ListInv
  <2>1. Listable' = Listable /\ Returned' = Returned /\ ListTypeOK'
    BY DEF Listable, Hidden, Returned, ListTypeOK
  <2>2. /\ \A r : Passed(r)' = Passed(r)
        /\ \A t : Steady(t)' <=> Steady(t)
        /\ \A t : Place(first, t)' = Place(first, t)
        /\ \A t, u : Before(t, u)' <=> Before(t, u)
    BY <2>1 DEF Passed, Steady, Place, Ahead, Before
  <2>3. ListedOK' /\ RowsStayInOrder'
    BY <2>1, <2>2 DEF ListedOK, RowsStayInOrder
  <2>4. PassedOK' /\ SteadyOK'
    BY <2>1, <2>2 DEF PassedOK, SteadyOK
  <2>5. QED BY <2>1, <2>3, <2>4
<1>7. QED BY <1>1, <1>2, <1>3, <1>4, <1>5, <1>6 DEF ListNext

LEMMA ListInvariant ==
  ASSUME NobodyFilters
  PROVE  ListSpec => []ListInv
<1>1. ListInit => ListInv
  BY ListInitInv
<1>2. ListInv /\ [ListNext]_listVars => ListInv'
  BY ListStepInv
<1>3. QED BY <1>1, <1>2, PTL DEF ListSpec

\* RowsWereListed: whoever reads a list, and whatever changes between its pages and
\* between the two statements of a page, is answered rows that were listed for them.
THEOREM RowsAlwaysWereListed ==
  ASSUME NobodyFilters
  PROVE  ListSpec => []RowsWereListed
<1>1. ListInv => RowsWereListed
  BY DEF ListInv, ListedOK, RowsWereListed, Returned, ListTypeOK
<1>2. QED BY <1>1, ListInvariant, PTL

\* RowsStayInOrder, for lists and pages of any size.
THEOREM RowsAlwaysStayInOrder ==
  ASSUME NobodyFilters
  PROVE  ListSpec => []RowsStayInOrder
<1>1. ListInv => RowsStayInOrder
  BY DEF ListInv
<1>2. QED BY <1>1, ListInvariant, PTL

\* MissesArePulledUp, for lists and pages of any size.
THEOREM MissesAlwaysArePulledUp ==
  ASSUME NobodyFilters
  PROVE  ListSpec => []MissesArePulledUp
<1>1. ListInv => MissesArePulledUp
  BY DEF ListInv, SteadyOK, Steady, MissesArePulledUp
<1>2. QED BY <1>1, ListInvariant, PTL

\* A reading during which nothing entered or left the list, and that was not cut, is
\* the list: every row once, in its order.
QuietReadingIsTheList ==
  pc = "done" /\ Len(rows) < MaxRows /\ entered = {} /\ left = {} =>
    /\ Returned = first
    /\ \A i, j \in 1 .. Len(rows) : i < j => Before(rows[i], rows[j])

THEOREM QuietReadingsAreExact ==
  ASSUME NobodyFilters
  PROVE  ListSpec => []QuietReadingIsTheList
<1>1. ListInv => QuietReadingIsTheList
  BY DEF ListInv, ListedOK, RowsStayInOrder, SteadyOK, Steady, QuietReadingIsTheList
<1>2. QED BY <1>1, ListInvariant, PTL

\* TotalMatchesPage needs that no commit enters or leaves the list between the count and
\* the page: the READ COMMITTED transaction around the two is not enough.
THEOREM QuietPagesMatchTheirTotal ==
  ListSpec /\ [][pc = "counted" => UNCHANGED <<listed, unasked>>]_listVars
    => TotalMatchesPage
<1> DEFINE Counted == pc = "counted" => total = Cardinality(Where)
           Quiet == pc = "counted" => UNCHANGED <<listed, unasked>>
<1>1. ListInit => Counted
  BY DEF ListInit
<1>2. Counted /\ [ListNext]_listVars /\ [Quiet]_listVars => Counted'
  <2> SUFFICES ASSUME Counted, [ListNext]_listVars, [Quiet]_listVars, pc' = "counted"
               PROVE  total' = Cardinality(Where')
    OBVIOUS
  <2>1. CASE UNCHANGED listVars
    BY <2>1 DEF listVars, Where, Hidden
  <2>2. CASE Count
    <3>1. Where' = Where
      BY <2>2 DEF Count, fixed, Where, Hidden
    <3>2. QED BY <2>2, <3>1 DEF Count
  <2>3. CASE InsertRow \/ ChangeRole \/ \E t \in 1 .. MaxItems : Enter(t) \/ Leave(t)
    <3>1. UNCHANGED <<list, notes, pc, asStaff, total>>
      BY <2>3 DEF InsertRow, ChangeRole, Enter, Leave, Meanwhile, fixed, local
    <3>2. UNCHANGED <<listed, unasked>>
      BY <3>1 DEF listVars
    <3>3. Where' = Where
      BY <3>1, <3>2 DEF Where, Hidden
    <3>4. QED BY <3>1, <3>3
  <2>4. CASE Begin \/ Accept \/ FindMany
    BY <2>4 DEF Begin, Accept, FindMany
  <2>5. QED BY <2>1, <2>2, <2>3, <2>4 DEF ListNext
<1>3. Counted /\ FindMany => total = Cardinality(Where)
  BY DEF FindMany
<1>4. QED BY <1>1, <1>2, <1>3, PTL DEF ListSpec, TotalMatchesPage
==============================================================================
