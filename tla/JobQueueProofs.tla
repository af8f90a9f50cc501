-------------------------- MODULE JobQueueProofs --------------------------
(***************************************************************************)
(* Machine-checked proofs about the job queue, for any handler and any     *)
(* number of jobs, workers and attempts.                                   *)
(***************************************************************************)
EXTENDS JobQueue, TLAPS

-----------------------------------------------------------------------------
(* Rows                                                                    *)

LEMMA ReleasedType ==
    ASSUME NEW row \in Job, NEW status \in {"queued", "succeeded", "failed"}
    PROVE  /\ Released(row, status) \in Job
           /\ Released(row, status).attempt = row.attempt
BY DEF Released, Job

LEMMA SweptType ==
    ASSUME QueueTypeOK, NEW S
    PROVE  /\ Swept(S) \in [DOMAIN jobs -> Job]
           /\ \A j \in DOMAIN jobs : Swept(S)[j] = IF j \in S
                                                   THEN Released(jobs[j], "failed")
                                                   ELSE jobs[j]
<1>1. \A j \in DOMAIN jobs : jobs[j] \in Job /\ Released(jobs[j], "failed") \in Job
  BY ReleasedType DEF QueueTypeOK
<1>2. QED
  BY <1>1 DEF Swept

LEMMA IdleType == Idle \in WorkerState /\ [Idle EXCEPT !.pc = "dead"] \in WorkerState
BY DEF Idle, WorkerState

\* The table after a row of it was replaced.
LEMMA RowType ==
    ASSUME QueueTypeOK, NEW rows \in [DOMAIN jobs -> Job], NEW j \in DOMAIN jobs,
           NEW row \in Job
    PROVE  [rows EXCEPT ![j] = row] \in [DOMAIN jobs -> Job]
OBVIOUS

\* The types of a table with the same keys and of processes that moved.
LEMMA TablesType ==
    ASSUME QueueTypeOK, jobs' \in [DOMAIN jobs -> Job],
           worker' \in [Workers -> WorkerState]
    PROVE  QueueTypeOK'
BY DEF QueueTypeOK

-----------------------------------------------------------------------------
(* Steps                                                                   *)

LEMMA EnqueueType ==
    ASSUME QueueTypeOK, NEW j \in JobIds, NEW kind \in {"known", "unknown"},
           NEW ready \in BOOLEAN, Enqueue(j, kind, ready)
    PROVE  QueueTypeOK'
<1>1. [kind |-> kind, status |-> "queued", attempt |-> 0, ready |-> ready,
       owner |-> NoWorker, lapsed |-> FALSE] \in Job
  BY QueueAssumption DEF Job
<1>2. QED
  BY <1>1 DEF QueueTypeOK, Enqueue

LEMMA TimePassesType ==
    ASSUME QueueTypeOK, NEW R, NEW L, TimePasses(R, L)
    PROVE  QueueTypeOK'
<1>1. ASSUME NEW j \in DOMAIN jobs
      PROVE  [jobs[j] EXCEPT !.ready = @ \/ j \in R, !.lapsed = @ \/ j \in L] \in Job
  BY DEF QueueTypeOK, Job
<1>2. QED
  BY <1>1, TablesType DEF TimePasses, QueueTypeOK

LEMMA ClaimType ==
    ASSUME QueueTypeOK, NEW w \in Workers, NEW j \in DOMAIN jobs, NEW S,
           NEW lapsed \in BOOLEAN, Claim(w, j, S, lapsed)
    PROVE  QueueTypeOK'
<1>1. PICK rows : rows = Swept(S)
  OBVIOUS
<1>2. rows \in [DOMAIN jobs -> Job] /\ rows[j].attempt = jobs[j].attempt
  BY <1>1, SweptType, ReleasedType DEF QueueTypeOK
<1>3. rows[j] \in Job /\ rows[j].attempt + 1 \in 0..MaxAttempts
  BY <1>2, QueueAssumption DEF Claim, Claimable, Job
<1>4. PICK row : row = [rows[j] EXCEPT !.status = "running", !.owner = w,
                                       !.attempt = @ + 1, !.lapsed = lapsed]
  OBVIOUS
<1>5. row \in Job
  BY <1>3, <1>4 DEF Job
<1>6. jobs' = [rows EXCEPT ![j] = row]
  BY <1>1, <1>2, <1>4 DEF Claim
<1>7. worker' \in [Workers -> WorkerState]
  BY DEF Claim, QueueTypeOK, WorkerState
<1>8. QED
  BY <1>2, <1>5, <1>6, <1>7, RowType, TablesType

LEMMA SweepType ==
    ASSUME QueueTypeOK, NEW w, NEW S, Sweep(w, S)
    PROVE  QueueTypeOK'
BY SweptType, TablesType DEF Sweep, QueueTypeOK

\* A row that a process owns is in the table.
LEMMA OwnedRow ==
    ASSUME QueueTypeOK, NEW w, Owns(w)
    PROVE  worker[w].job \in DOMAIN jobs /\ jobs[worker[w].job] \in Job
BY DEF Owns, QueueTypeOK

LEMMA HeartbeatType ==
    ASSUME QueueTypeOK, NEW w \in Workers, NEW lapsed \in BOOLEAN, Heartbeat(w, lapsed)
    PROVE  QueueTypeOK'
<1>1. CASE Owns(w) /\ jobs' = [jobs EXCEPT ![worker[w].job].lapsed = lapsed]
           /\ UNCHANGED worker
  <2>1. PICK j : j = worker[w].job
    OBVIOUS
  <2>2. [jobs[j] EXCEPT !.lapsed = lapsed] \in Job /\ j \in DOMAIN jobs
    BY <1>1, <2>1, OwnedRow DEF Job
  <2>3. jobs' = [jobs EXCEPT ![j] = [jobs[j] EXCEPT !.lapsed = lapsed]]
    BY <1>1, <2>1, <2>2
  <2>4. jobs' \in [DOMAIN jobs -> Job]
    BY <2>2, <2>3, RowType DEF QueueTypeOK
  <2>5. QED
    BY <1>1, <2>4, TablesType DEF QueueTypeOK
<1>2. CASE worker' = [worker EXCEPT ![w].lost = TRUE] /\ UNCHANGED jobs
  BY <1>2, TablesType DEF QueueTypeOK, WorkerState
<1>3. QED
  BY <1>1, <1>2 DEF Heartbeat

LEMMA HandlerCommitsType ==
    ASSUME QueueTypeOK, NEW w \in Workers, NEW status \in Terminal,
           HandlerCommits(w, status)
    PROVE  QueueTypeOK'
<1>1. PICK j : j = worker[w].job
  OBVIOUS
<1>2. j \in DOMAIN jobs /\ Released(jobs[j], status) \in Job
  BY <1>1, OwnedRow, ReleasedType DEF HandlerCommits, Terminal
<1>3. jobs' = [jobs EXCEPT ![j] = Released(jobs[j], status)]
  BY <1>1, <1>2 DEF HandlerCommits
<1>4. jobs' \in [DOMAIN jobs -> Job]
  BY <1>2, <1>3, RowType DEF QueueTypeOK
<1>5. worker' \in [Workers -> WorkerState]
  BY DEF HandlerCommits, QueueTypeOK, WorkerState
<1>6. QED
  BY <1>4, <1>5, TablesType

\* Steps of a process that leave the table alone.
LEMMA ProcessType ==
    ASSUME QueueTypeOK, NEW w \in Workers,
           \/ \E pc \in {"returned", "retrying"} : HandlerLeaves(w, pc)
           \/ HandlerRaises(w) \/ Return(w) \/ Crash(w) \/ Restart(w)
    PROVE  QueueTypeOK'
<1>1. jobs' \in [DOMAIN jobs -> Job]
  BY DEF QueueTypeOK, HandlerLeaves, HandlerRaises, Return, Crash, Restart
<1>2. CASE \E pc \in {"returned", "retrying"} : HandlerLeaves(w, pc)
  BY <1>2, <1>1, TablesType DEF QueueTypeOK, HandlerLeaves, WorkerState
<1>3. CASE Return(w)
  <2>1. [worker[w] EXCEPT !.pc = "breached"] \in WorkerState
    BY DEF QueueTypeOK, WorkerState
  <2>2. QED
    BY <1>1, <1>3, <2>1, IdleType, TablesType DEF QueueTypeOK, Return
<1>4. CASE HandlerRaises(w) \/ Crash(w) \/ Restart(w)
  BY <1>4, <1>1, IdleType, TablesType
     DEF QueueTypeOK, HandlerRaises, Crash, Restart
<1>5. QED
  BY <1>2, <1>3, <1>4

LEMMA FailType ==
    ASSUME QueueTypeOK, NEW w \in Workers, NEW ready \in BOOLEAN, Fail(w, ready)
    PROVE  QueueTypeOK'
<1>1. PICK j : j = worker[w].job
  OBVIOUS
<1>2. jobs' \in [DOMAIN jobs -> Job]
  <2>1. CASE Owns(w)
    <3>1. j \in DOMAIN jobs /\ jobs[j] \in Job
      BY <1>1, <2>1, OwnedRow
    <3>2. Released(jobs[j], "failed") \in Job /\ Released(jobs[j], "queued") \in Job
      BY <3>1, ReleasedType
    <3>3. PICK again : again = [Released(jobs[j], "queued") EXCEPT !.ready = ready]
      OBVIOUS
    <3>4. again \in Job
      BY <3>2, <3>3 DEF Job
    <3>5. \/ jobs' = jobs
          \/ jobs' = [jobs EXCEPT ![j] = again]
          \/ jobs' = [jobs EXCEPT ![j] = Released(jobs[j], "failed")]
      BY <1>1, <3>1, <3>3 DEF Fail
    <3>6. QED
      BY <3>1, <3>2, <3>4, <3>5, RowType DEF QueueTypeOK
  <2>2. CASE ~Owns(w)
    BY <2>2 DEF Fail, QueueTypeOK
  <2>3. QED
    BY <2>1, <2>2
<1>3. worker' \in [Workers -> WorkerState]
  BY IdleType DEF Fail, QueueTypeOK
<1>4. QED
  BY <1>2, <1>3, TablesType

LEMMA NextQueueType == QueueTypeOK /\ [Next]_vars => QueueTypeOK'
<1>1. SUFFICES ASSUME QueueTypeOK, [Next]_vars PROVE QueueTypeOK'
  OBVIOUS
<1>2. CASE UNCHANGED vars
  BY <1>1, <1>2 DEF vars, QueueTypeOK
<1>3. ASSUME NEW w \in Workers,
             \/ \E j \in DOMAIN jobs, S \in SUBSET Overdue, lapsed \in BOOLEAN :
                   Claim(w, j, S, lapsed)
             \/ \E S \in SUBSET Overdue : Sweep(w, S)
             \/ \E lapsed \in BOOLEAN : Heartbeat(w, lapsed)
      PROVE  QueueTypeOK'
  BY <1>1, <1>3, ClaimType, SweepType, HeartbeatType
<1>4. ASSUME NEW w \in Workers,
             \/ Handle(w) \/ Return(w) \/ \E ready \in BOOLEAN : Fail(w, ready)
             \/ Crash(w) \/ Restart(w)
      PROVE  QueueTypeOK'
  BY <1>1, <1>4, HandlerCommitsType, ProcessType, FailType DEF Handle
<1>5. QED
  BY <1>1, <1>2, <1>3, <1>4, EnqueueType, TimePassesType DEF Next

\* Every row and every process holds values of its type; in particular no job
\* is claimed more often than its attempts allow, whatever the handlers do.
THEOREM QueueTypeCorrect == Spec => []QueueTypeOK
<1>1. Init => QueueTypeOK
  BY IdleType DEF Init, QueueTypeOK
<1>2. QueueTypeOK /\ [Next]_vars => QueueTypeOK'
  BY NextQueueType
<1>3. QED
  BY <1>1, <1>2, PTL DEF Spec

-----------------------------------------------------------------------------
(* Settled rows                                                            *)

\* A job that succeeded or failed keeps its outcome and its attempts: no late
\* heartbeat, failure, claim or commit of a worker reaches it.
SettledIsFinal ==
    [][ \A j \in DOMAIN jobs : jobs[j].status \in Terminal =>
          /\ j \in DOMAIN jobs'
          /\ jobs'[j].status = jobs[j].status
          /\ jobs'[j].attempt = jobs[j].attempt ]_vars

LEMMA SweptSettled ==
    ASSUME QueueTypeOK, NEW S \in SUBSET Overdue, NEW j \in DOMAIN jobs,
           jobs[j].status \in Terminal
    PROVE  j \in DOMAIN Swept(S) /\ Swept(S)[j] = jobs[j]
BY DEF Overdue, Swept, Terminal

\* Only a claim, a commit, a failure and the passing of time change rows, and
\* those of the first three are queued or running.
LEMMA StepSettled ==
    ASSUME QueueTypeOK, [Next]_vars, NEW j \in DOMAIN jobs,
           jobs[j].status \in Terminal
    PROVE  /\ j \in DOMAIN jobs'
           /\ jobs'[j].status = jobs[j].status
           /\ jobs'[j].attempt = jobs[j].attempt
<1>1. CASE UNCHANGED jobs
  BY <1>1
<1>2. ASSUME NEW i \in JobIds, NEW kind, NEW ready, Enqueue(i, kind, ready)
      PROVE  j \in DOMAIN jobs' /\ jobs'[j] = jobs[j]
  BY <1>2 DEF Enqueue
<1>3. ASSUME NEW R, NEW L, TimePasses(R, L)
      PROVE  /\ j \in DOMAIN jobs' /\ jobs'[j].status = jobs[j].status
             /\ jobs'[j].attempt = jobs[j].attempt
  BY <1>3 DEF TimePasses, QueueTypeOK, Job
<1>4. ASSUME NEW w \in Workers, NEW i \in DOMAIN jobs, NEW S \in SUBSET Overdue,
             NEW lapsed, Claim(w, i, S, lapsed)
      PROVE  j \in DOMAIN jobs' /\ jobs'[j] = jobs[j]
  <2>1. i # j
    BY <1>4 DEF Claim, Claimable, Terminal
  <2>2. j \in DOMAIN Swept(S) /\ Swept(S)[j] = jobs[j]
    BY SweptSettled
  <2>3. QED
    BY <1>4, <2>1, <2>2 DEF Claim
<1>5. ASSUME NEW w \in Workers, NEW S \in SUBSET Overdue, Sweep(w, S)
      PROVE  j \in DOMAIN jobs' /\ jobs'[j] = jobs[j]
  BY <1>5, SweptSettled DEF Sweep
<1>6. ASSUME NEW w \in Workers,
             \/ \E lapsed \in BOOLEAN : Heartbeat(w, lapsed)
             \/ \E status \in Terminal : HandlerCommits(w, status)
             \/ \E ready \in BOOLEAN : Fail(w, ready)
      PROVE  j \in DOMAIN jobs' /\ jobs'[j] = jobs[j]
  <2>1. Owns(w) => worker[w].job # j
    BY DEF Owns, Terminal
  <2>2. QED
    BY <1>6, <2>1 DEF Heartbeat, HandlerCommits, Fail
<1>7. ASSUME NEW w \in Workers,
             \/ \E pc \in {"returned", "retrying"} : HandlerLeaves(w, pc)
             \/ HandlerRaises(w) \/ Return(w) \/ Crash(w) \/ Restart(w)
      PROVE  UNCHANGED jobs
  BY <1>7 DEF HandlerLeaves, HandlerRaises, Return, Crash, Restart
<1>8. CASE Next
  <2>1. ASSUME NEW w \in Workers,
               \/ \E i \in DOMAIN jobs, S \in SUBSET Overdue, lapsed \in BOOLEAN :
                     Claim(w, i, S, lapsed)
               \/ \E S \in SUBSET Overdue : Sweep(w, S)
        PROVE  j \in DOMAIN jobs' /\ jobs'[j] = jobs[j]
    BY <1>4, <1>5, <2>1
  <2>2. CASE \E R, L \in SUBSET DOMAIN jobs : TimePasses(R, L)
    BY <1>3, <2>2
  <2>3. CASE \E i \in JobIds, kind \in {"known", "unknown"}, ready \in BOOLEAN :
                Enqueue(i, kind, ready)
    BY <1>2, <2>3
  <2>4. QED
    BY <1>1, <1>6, <1>7, <1>8, <2>1, <2>2, <2>3 DEF Next, Handle
<1>9. QED
  BY <1>1, <1>8 DEF vars

\* What the queue says of settled rows holds whatever the handlers do.
THEOREM SettledStays == Spec => SettledIsFinal
<1>1. QueueTypeOK /\ [Next]_vars =>
         [ \A j \in DOMAIN jobs : jobs[j].status \in Terminal =>
             /\ j \in DOMAIN jobs'
             /\ jobs'[j].status = jobs[j].status
             /\ jobs'[j].attempt = jobs[j].attempt ]_vars
  BY StepSettled
<1>2. QED
  BY <1>1, QueueTypeCorrect, PTL DEF Spec, SettledIsFinal

=============================================================================
