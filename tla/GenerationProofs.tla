------------------------- MODULE GenerationProofs -------------------------
(***************************************************************************)
(* Machine-checked proofs about the generation lifecycle, for any number   *)
(* of projects, keys, jobs, workers and sessions.  Its tables have their   *)
(* types; IInv is inductive, and implies that terminal transactions are    *)
(* always admissible, that a project has at most one active job and that   *)
(* no unique constraint can be violated.                                   *)
(***************************************************************************)
EXTENDS GenerationProperties, TLAPS

-----------------------------------------------------------------------------
(* Tables                                                                  *)

\* Upsert extends the table by the row and keeps every other row.
LEMMA UpsertRows ==
    ASSUME NEW table, NEW id, NEW row
    PROVE  /\ DOMAIN Upsert(table, id, row) = DOMAIN table \cup {id}
           /\ Upsert(table, id, row)[id] = row
           /\ \A i \in DOMAIN table : i # id => Upsert(table, id, row)[i] = table[i]
BY DEF Upsert

\* A finished job is a job.
LEMMA FinishedType ==
    ASSUME NEW job \in Job,
           NEW status \in {"succeeded", "failed"},
           NEW error \in {"none", "LeaseExpired", "RetryableError", "Permanent"}
    PROVE  Finished(job, status, error) \in Job
BY DEF Finished, Released, Job

\* The sweep keeps the keys of the table and changes overdue rows only.
LEMMA SweptRows ==
    ASSUME TypeOK, NEW now \in Nat
    PROVE  /\ DOMAIN Swept(now) = DOMAIN jobs
           /\ Swept(now) \in [DOMAIN jobs -> Job]
           /\ \A j \in DOMAIN jobs :
                 Swept(now)[j] = IF Overdue(j, now)
                                 THEN Finished(jobs[j], "failed", "LeaseExpired")
                                 ELSE jobs[j]
<1>1. \A j \in DOMAIN jobs : jobs[j] \in Job
  BY DEF TypeOK
<1>2. \A j \in DOMAIN jobs : Finished(jobs[j], "failed", "LeaseExpired") \in Job
  BY <1>1, FinishedType
<1>3. QED
  BY <1>1, <1>2 DEF Swept

\* The state of a session that is not reviewing.
LEMMA IdleClientType == IdleClient \in ClientState
<1>1. (CHOOSE p \in Projects : TRUE) \in Projects
  BY ConstantsAssumption
<1>2. 0 \in Time
  BY ConstantsAssumption DEF Time
<1>3. QED
  BY <1>1, <1>2 DEF IdleClient, ClientState

LEMMA IdleWorkerType == IdleWorker \in WorkerState
BY DEF IdleWorker, WorkerState

\* A transition of a project row yields a project row.
LEMMA TransitionedType ==
    ASSUME NEW row \in Project, NEW target \in Statuses, NEW at \in Nat
    PROVE  Transitioned(row, target, at) \in Project
BY DEF Transitioned, Project, FailureStage, Stages, Statuses

-----------------------------------------------------------------------------
(* Type correctness                                                        *)

LEMMA InitType == Init => TypeOK
<1>1. SUFFICES ASSUME Init PROVE TypeOK
  OBVIOUS
<1>2. project \in [Projects -> Project] /\ current \in [Projects -> Nat]
  BY <1>1 DEF Init, Project, Statuses, Stages
<1>3. jobs \in [DOMAIN jobs -> Job] /\ DOMAIN jobs = {}
  BY <1>1 DEF Init
<1>4. requests \in [DOMAIN requests -> Request] /\ DOMAIN requests = {}
  BY <1>1 DEF Init
<1>5. worker \in [Workers -> WorkerState] /\ clock \in [Workers -> Time]
  BY <1>1, IdleWorkerType, ConstantsAssumption DEF Init, Time
<1>6. client \in [Clients -> ClientState]
  BY <1>1, IdleClientType DEF Init
<1>7. QED
  BY <1>1, <1>2, <1>3, <1>4, <1>5, <1>6 DEF TypeOK, Init

LEMMA ReserveType ==
    ASSUME TypeOK, NEW p \in Projects, NEW k \in Keys, NEW s \in Specs,
           NEW j \in JobIds, NEW now \in Time, Reserve(p, k, s, j, now)
    PROVE  TypeOK'
<1>1. now \in Nat
  BY ConstantsAssumption DEF Time
<1>2. project' \in [Projects -> Project]
  <2>1. Transitioned(project[p], "generating", now) \in Project
    BY <1>1, TransitionedType DEF TypeOK, Statuses
  <2>2. QED
    BY <2>1 DEF Reserve, TypeOK
<1>3. DOMAIN jobs' = DOMAIN jobs \cup {j} /\ jobs' \in [DOMAIN jobs' -> Job]
  <2>1. [status |-> "queued", attempt |-> 0, availableAt |-> now,
         owner |-> NoWorker, expires |-> 0, error |-> "none"] \in Job
    BY <1>1, ConstantsAssumption DEF Job
  <2>2. QED
    BY <2>1 DEF Reserve, TypeOK, Upsert
<1>4. DOMAIN requests' = DOMAIN requests \cup {j} /\ requests' \in [DOMAIN requests' -> Request]
  <2>1. PICK latest \in Versions(p) \cup {0} :
           requests' = Upsert(requests, j,
                [project |-> p, key |-> k, spec |-> s, version |-> latest + 1,
                 revision |-> project[p].revision + 1])
    BY DEF Reserve
  <2>2. latest \in Nat
    BY <2>1 DEF Versions, RequestsOf, TypeOK, Request, Artifact
  <2>3. project[p].revision \in Nat
    BY DEF TypeOK, Project
  <2>4. [project |-> p, key |-> k, spec |-> s, version |-> latest + 1,
         revision |-> project[p].revision + 1] \in Request
    BY <2>2, <2>3 DEF Request
  <2>5. QED
    BY <2>1, <2>4 DEF TypeOK, Upsert
<1>5. QED
  BY <1>2, <1>3, <1>4 DEF Reserve, TypeOK

\* Rows that the lease operations write.
LEMMA LeasedType ==
    ASSUME NEW job \in Job, job.attempt < MaxAttempts,
           NEW w \in Workers, NEW now \in Nat
    PROVE  Leased(job, w, now) \in Job
BY ConstantsAssumption DEF Leased, Job

LEMMA ReleasedType ==
    ASSUME NEW job \in Job,
           NEW status \in {"queued", "succeeded", "failed"},
           NEW error \in {"none", "LeaseExpired", "RetryableError", "Permanent"},
           NEW at \in Nat
    PROVE  Released(job, status, error, at) \in Job
BY DEF Released, Job

LEMMA ClockType ==
    ASSUME TypeOK, NEW w \in Workers
    PROVE  clock[w] \in Nat
BY ConstantsAssumption DEF TypeOK, Time

\* Changing worker w's local state to another of the type keeps the types.
LEMMA WorkerType ==
    ASSUME TypeOK, NEW w \in Workers, NEW state \in WorkerState,
           worker' = [worker EXCEPT ![w] = state]
    PROVE  worker' \in [Workers -> WorkerState]
BY DEF TypeOK

LEMMA ClaimType ==
    ASSUME TypeOK, NEW w \in Workers, NEW j \in DOMAIN jobs, Claim(w, j)
    PROVE  TypeOK'
<1>1. clock[w] \in Nat
  BY ClockType
<1>2. Leased(jobs[j], w, clock[w]) \in Job
  BY <1>1, LeasedType DEF Claim, Claimable, TypeOK
<1>3. DOMAIN jobs' = DOMAIN jobs /\ jobs' \in [DOMAIN jobs -> Job]
  BY <1>1, <1>2, SweptRows DEF Claim
<1>4. [pc |-> "handling", job |-> j, lost |-> FALSE] \in WorkerState
  BY DEF WorkerState, HandlerSteps, TypeOK
<1>5. worker' \in [Workers -> WorkerState]
  BY <1>4, WorkerType DEF Claim
<1>6. QED
  BY <1>3, <1>5 DEF Claim, TypeOK

LEMMA SweepType ==
    ASSUME TypeOK, NEW w \in Workers, Sweep(w)
    PROVE  TypeOK'
<1>1. DOMAIN jobs' = DOMAIN jobs /\ jobs' \in [DOMAIN jobs -> Job]
  BY ClockType, SweptRows DEF Sweep
<1>2. QED
  BY <1>1 DEF Sweep, TypeOK

LEMMA HeartbeatType ==
    ASSUME TypeOK, NEW w \in Workers, Heartbeat(w)
    PROVE  TypeOK'
<1>1. CASE HoldsLease(w)
  <2>1. jobs[worker[w].job] \in Job
    BY <1>1 DEF HoldsLease, TypeOK
  <2>2. clock[w] + Lease \in Nat
    BY ClockType, ConstantsAssumption
  <2>3. [jobs[worker[w].job] EXCEPT !.expires = clock[w] + Lease] \in Job
    BY <2>1, <2>2 DEF Job
  <2>4. DOMAIN jobs' = DOMAIN jobs /\ jobs' \in [DOMAIN jobs -> Job]
    BY <1>1, <2>3 DEF Heartbeat, HoldsLease, TypeOK
  <2>5. QED
    BY <1>1, <2>4 DEF Heartbeat, TypeOK
<1>2. CASE ~HoldsLease(w)
  <2>1. [worker[w] EXCEPT !.lost = TRUE] \in WorkerState
    BY DEF TypeOK, WorkerState
  <2>2. worker' \in [Workers -> WorkerState]
    BY <1>2, <2>1 DEF Heartbeat, TypeOK
  <2>3. QED
    BY <1>2, <2>2 DEF Heartbeat, TypeOK
<1>3. QED
  BY <1>1, <1>2

LEMMA FailAttemptType ==
    ASSUME TypeOK, NEW w \in Workers, FailAttempt(w)
    PROVE  TypeOK'
<1>1. worker' \in [Workers -> WorkerState]
  BY IdleWorkerType, WorkerType DEF FailAttempt
<1>2. DOMAIN jobs' = DOMAIN jobs /\ jobs' \in [DOMAIN jobs -> Job]
  <2> DEFINE error == IF worker[w].pc = "retrying" THEN "RetryableError"
                                                   ELSE "Permanent"
             row == jobs[worker[w].job]
  <2>1. CASE ~HoldsLease(w)
    BY <2>1 DEF FailAttempt, TypeOK
  <2>2. CASE HoldsLease(w)
    <3>1. row \in Job /\ worker[w].job \in DOMAIN jobs
      BY <2>2 DEF HoldsLease, TypeOK
    <3>2. clock[w] + Poll \in Nat
      BY ClockType, ConstantsAssumption
    <3>3. Released(row, "queued", error, clock[w] + Poll) \in Job
      BY <3>1, <3>2, ReleasedType
    <3>4. Finished(row, "failed", error) \in Job
      BY <3>1, FinishedType
    <3>5. \/ jobs' = [jobs EXCEPT ![worker[w].job] =
                        Released(row, "queued", error, clock[w] + Poll)]
          \/ jobs' = [jobs EXCEPT ![worker[w].job] = Finished(row, "failed", error)]
      BY <2>2 DEF FailAttempt
    <3> HIDE DEF error, row
    <3>6. QED
      BY <3>1, <3>3, <3>4, <3>5 DEF TypeOK
  <2>3. QED
    BY <2>1, <2>2
<1>3. QED
  BY <1>1, <1>2 DEF FailAttempt, TypeOK

\* A step of the handler that changes nothing but the program counter.
LEMMA GotoType ==
    ASSUME TypeOK, NEW w \in Workers,
           NEW pc \in HandlerSteps \cup {"retrying", "returned"}, Goto(w, pc)
    PROVE  worker' \in [Workers -> WorkerState]
<1>1. [worker[w] EXCEPT !.pc = pc] \in WorkerState
  BY DEF TypeOK, WorkerState
<1>2. QED
  BY <1>1 DEF Goto, TypeOK

LEMMA GenerateType ==
    ASSUME TypeOK, NEW w \in Workers, Generate(w) \/ RejectEvidence(w)
    PROVE  TypeOK'
<1>1. worker' \in [Workers -> WorkerState]
  BY GotoType DEF Generate, RejectEvidence, HandlerSteps
<1>2. QED
  BY <1>1 DEF Generate, RejectEvidence, tables, TypeOK

\* The artifact of a reservation.
LEMMA ProducedType ==
    ASSUME TypeOK, NEW w \in Workers, HoldsLease(w), NEW accepted \in BOOLEAN
    PROVE  Produced(w, accepted) \in Artifact
BY DEF Produced, HoldsLease, TypeOK, Request, Artifact

LEMMA SucceedType ==
    ASSUME TypeOK, NEW w \in Workers, Succeed(w)
    PROVE  TypeOK'
<1> DEFINE j == worker[w].job
           p == requests[j].project
<1>1. /\ j \in DOMAIN jobs /\ jobs[j] \in Job
      /\ p \in Projects /\ requests[j].version \in Nat
  BY DEF Succeed, HoldsLease, TypeOK, Request
<1>2. worker' \in [Workers -> WorkerState]
  BY GotoType DEF Succeed, HandlerSteps
<1>3. CASE Admissible(w, "review_required")
  <2>1. artifacts' \subseteq Artifact
    <3>1. Produced(w, TRUE) \in Artifact
      BY ProducedType DEF Succeed
    <3>2. artifacts' = artifacts \cup {Produced(w, TRUE)}
      BY <1>3 DEF Succeed
    <3>3. QED
      BY <3>1, <3>2 DEF TypeOK
  <2>2. current' \in [Projects -> Nat]
    BY <1>1, <1>3 DEF Succeed, PointTo, TypeOK
  <2>3. project' \in [Projects -> Project]
    <3>1. Transitioned(project[p], "review_required", clock[w]) \in Project
      BY <1>1, ClockType, TransitionedType DEF TypeOK, Statuses
    <3>2. QED
      BY <1>1, <1>3, <3>1 DEF Succeed, TypeOK
  <2>4. DOMAIN jobs' = DOMAIN jobs /\ jobs' \in [DOMAIN jobs -> Job]
    <3>1. Finished(jobs[j], "succeeded", "none") \in Job
      BY <1>1, FinishedType
    <3>2. QED
      BY <1>1, <1>3, <3>1 DEF Succeed, TypeOK
  <2>5. QED
    BY <1>2, <2>1, <2>2, <2>3, <2>4 DEF Succeed, TypeOK
<1>4. CASE ~Admissible(w, "review_required")
  BY <1>2, <1>4 DEF Succeed, TypeOK
<1>5. QED
  BY <1>3, <1>4

LEMMA FailPermanentlyType ==
    ASSUME TypeOK, NEW w \in Workers, FailPermanently(w)
    PROVE  TypeOK'
<1> DEFINE j == worker[w].job
           p == requests[j].project
<1>1. j \in DOMAIN jobs /\ jobs[j] \in Job /\ p \in Projects
  BY DEF FailPermanently, HoldsLease, TypeOK, Request
<1>2. CASE Admissible(w, "failed")
  <2>1. worker' \in [Workers -> WorkerState]
    BY <1>2, GotoType DEF FailPermanently, HandlerSteps
  <2>2. artifacts' \subseteq Artifact
    <3>1. Produced(w, FALSE) \in Artifact
      BY ProducedType DEF FailPermanently
    <3>2. artifacts' \in {artifacts, artifacts \cup {Produced(w, FALSE)}}
      BY <1>2 DEF FailPermanently
    <3>3. QED
      BY <3>1, <3>2 DEF TypeOK
  <2>3. project' \in [Projects -> Project]
    <3>1. Transitioned(project[p], "failed", clock[w]) \in Project
      BY <1>1, ClockType, TransitionedType DEF TypeOK, Statuses
    <3>2. QED
      BY <1>1, <1>2, <3>1 DEF FailPermanently, TypeOK
  <2>4. DOMAIN jobs' = DOMAIN jobs /\ jobs' \in [DOMAIN jobs -> Job]
    <3>1. Finished(jobs[j], "failed", "Permanent") \in Job
      BY <1>1, FinishedType
    <3>2. QED
      BY <1>1, <1>2, <3>1 DEF FailPermanently, TypeOK
  <2>5. QED
    BY <2>1, <2>2, <2>3, <2>4 DEF FailPermanently, TypeOK
<1>3. CASE ~Admissible(w, "failed")
  <2>1. worker' \in [Workers -> WorkerState]
    BY <1>3, IdleWorkerType, WorkerType DEF FailPermanently
  <2>2. QED
    BY <1>3, <2>1 DEF FailPermanently, TypeOK
<1>4. QED
  BY <1>2, <1>3

\* The steps that only move a worker out of its handler, and its clock.
LEMMA WorkerLeavesType ==
    ASSUME TypeOK, NEW w \in Workers,
           LoseLease(w) \/ Raise(w) \/ Return(w) \/ Crash(w)
    PROVE  TypeOK'
<1>1. [IdleWorker EXCEPT !.pc = "dead"] \in WorkerState
  BY IdleWorkerType DEF WorkerState
<1>2. [worker[w] EXCEPT !.pc = "breached"] \in WorkerState
  BY DEF TypeOK, WorkerState
<1>3. worker' \in [Workers -> WorkerState]
  BY <1>1, <1>2, IdleWorkerType, WorkerType DEF LoseLease, Raise, Return, Crash, TypeOK
<1>4. QED
  BY <1>3 DEF LoseLease, Raise, Return, Crash, tables, TypeOK

LEMMA TickType ==
    ASSUME TypeOK, NEW w \in Workers, Tick(w)
    PROVE  TypeOK'
<1>1. clock[w] + 1 \in Time
  BY ConstantsAssumption DEF Tick, TypeOK, Time
<1>2. clock' \in [Workers -> Time]
  BY <1>1 DEF Tick, TypeOK
<1>3. QED
  BY <1>2 DEF Tick, tables, TypeOK

\* The steps of a reviewing session.
LEMMA ViewType ==
    ASSUME TypeOK, NEW c \in Clients,
           (\E p \in Projects : ReadProject(c, p)) \/ ReadPointer(c)
    PROVE  TypeOK'
<1>1. CASE ReadPointer(c)
  <2>1. [client[c] EXCEPT !.pc = "viewed", !.seen = current[client[c].project]]
           \in ClientState
    BY DEF TypeOK, ClientState
  <2>2. QED
    BY <1>1, <2>1 DEF ReadPointer, tables, TypeOK
<1>2. ASSUME NEW p \in Projects, ReadProject(c, p) PROVE TypeOK'
  <2>1. project[p].revision \in Nat
    BY DEF TypeOK, Project
  <2>2. [IdleClient EXCEPT !.pc = "row", !.project = p,
                           !.revision = project[p].revision] \in ClientState
    BY <2>1, IdleClientType DEF ClientState
  <2>3. QED
    BY <1>2, <2>2 DEF ReadProject, tables, TypeOK
<1>3. QED
  BY <1>1, <1>2

LEMMA CheckReviewType ==
    ASSUME TypeOK, NEW c \in Clients, NEW decision \in {"approve", "reject"},
           NEW now \in Time, CheckReview(c, decision, now)
    PROVE  TypeOK'
<1>1. [client[c] EXCEPT !.pc = "checked", !.decision = decision, !.at = now]
         \in ClientState
  BY DEF TypeOK, ClientState
<1>2. client' \in [Clients -> ClientState]
  BY <1>1, IdleClientType DEF CheckReview, TypeOK
<1>3. QED
  BY <1>2 DEF CheckReview, tables, TypeOK

LEMMA ApplyReviewType ==
    ASSUME TypeOK, NEW c \in Clients, ApplyReview(c)
    PROVE  TypeOK'
<1> DEFINE state == client[c]
           row == [status |-> Outcome(state.decision),
                   revision |-> state.revision + 1, updatedAt |-> state.at,
                   failedStage |-> IF state.decision = "reject"
                                   THEN "generation" ELSE "none"]
           review == [project |-> state.project, revision |-> row.revision,
                      seen |-> state.seen, decision |-> state.decision]
<1>1. state \in ClientState /\ state.at \in Nat
  BY ConstantsAssumption DEF TypeOK, ClientState, Time
<1>2. row \in Project
  BY <1>1 DEF Outcome, Project, Statuses, Stages, ClientState
<1>3. review \in Review
  BY <1>1 DEF Review, ClientState
<1>4. /\ project' \in {project, [project EXCEPT ![state.project] = row]}
      /\ reviews' \in {reviews, reviews \cup {review}}
  BY DEF ApplyReview
<1>5. client' \in [Clients -> ClientState]
  BY IdleClientType DEF ApplyReview, TypeOK
<1> HIDE DEF row, review
<1>6. project' \in [Projects -> Project] /\ reviews' \subseteq Review
  BY <1>2, <1>3, <1>4 DEF TypeOK
<1>7. QED
  BY <1>5, <1>6 DEF ApplyReview, TypeOK

\* Every step keeps the types, one lemma per action.
LEMMA NextType == TypeOK /\ [Next]_vars => TypeOK'
<1>1. SUFFICES ASSUME TypeOK, [Next]_vars PROVE TypeOK'
  OBVIOUS
<1>2. CASE ApiStep
  BY <1>1, <1>2, ReserveType DEF ApiStep
<1>3. ASSUME NEW w \in Workers, WorkerStep(w) PROVE TypeOK'
  BY <1>1, <1>3, ClaimType, SweepType, HeartbeatType, FailAttemptType, GenerateType,
     SucceedType, FailPermanentlyType, WorkerLeavesType, TickType DEF WorkerStep
<1>4. ASSUME NEW c \in Clients, ClientStep(c) PROVE TypeOK'
  BY <1>1, <1>4, ViewType, CheckReviewType, ApplyReviewType DEF ClientStep
<1>5. CASE UNCHANGED vars
  BY <1>1, <1>5 DEF vars, tables, TypeOK
<1>6. QED
  BY <1>1, <1>2, <1>3, <1>4, <1>5 DEF Next

\* In every reachable state all tables, processes and sessions hold values of
\* their types; in particular no job is claimed more than MaxAttempts times.
THEOREM TypeCorrect == Spec => []TypeOK
<1>1. Init => TypeOK
  BY InitType
<1>2. TypeOK /\ [Next]_vars => TypeOK'
  BY NextType
<1>3. QED
  BY <1>1, <1>2, PTL DEF Spec

-----------------------------------------------------------------------------
(* What the ledger says of one job                                         *)

\* The rows a job leads to have their types.
LEMMA RowTypes ==
    ASSUME TypeOK, NEW j \in DOMAIN jobs
    PROVE  /\ jobs[j] \in Job
           /\ j \in DOMAIN requests
           /\ requests[j] \in Request
           /\ requests[j].project \in Projects
           /\ requests[j].revision \in Nat
           /\ project[requests[j].project] \in Project
           /\ project[requests[j].project].revision \in Nat
           /\ project[requests[j].project].updatedAt \in Nat
BY DEF TypeOK, Job, Request, Project

\* A job that may be claimed is claimed at or after its project's time.
LEMMA ClaimedAfterProject ==
    ASSUME TypeOK, Ledger, NEW w \in Workers, NEW j \in DOMAIN jobs,
           Claimable(j, clock[w])
    PROVE  /\ Active(j)
           /\ project[requests[j].project].updatedAt <= clock[w]
<1>1. Active(j)
  BY DEF Claimable, Active
<1>2. /\ jobs[j].availableAt \in Nat /\ jobs[j].expires \in Nat
      /\ clock[w] \in Nat
      /\ project[requests[j].project].updatedAt \in Nat
  BY RowTypes, ClockType DEF Job
<1>3. QED
  BY <1>1, <1>2 DEF Claimable, Ledger, ActiveAfterProject

\* Whoever holds the lease of its job can finish it.
LEMMA LeaseAdmissible == TypeOK /\ Ledger => TerminalAdmissible
<1>1. SUFFICES ASSUME TypeOK, Ledger, NEW w \in Workers, HoldsLease(w)
               PROVE  /\ Admissible(w, "review_required")
                      /\ Admissible(w, "failed")
                      /\ \A a \in artifacts :
                           ~ /\ a.project = requests[worker[w].job].project
                             /\ a.version = requests[worker[w].job].version
  BY DEF TerminalAdmissible
<1> DEFINE j == worker[w].job
           p == requests[j].project
<1>2. j \in DOMAIN jobs /\ Active(j) /\ jobs[j].status = "running" /\ jobs[j].owner = w
  BY <1>1 DEF HoldsLease, Active
<1>3. /\ project[p].status = "generating"
      /\ project[p].revision = requests[j].revision
  BY <1>1, <1>2 DEF Ledger, ActiveMatchesProject
<1>4. clock[w] >= project[p].updatedAt
  BY <1>1, <1>2, RowTypes, ClockType DEF Ledger, ActiveAfterProject
<1>5. /\ MayTransition(project[p], "review_required", clock[w])
      /\ MayTransition(project[p], "failed", clock[w])
  BY <1>3, <1>4 DEF MayTransition, Transitions
<1>6. ASSUME NEW a \in artifacts,
             a.project = p, a.version = requests[j].version
      PROVE  FALSE
  <2>1. /\ a.job \in DOMAIN jobs /\ ~Active(a.job)
        /\ requests[a.job].project = p
        /\ requests[a.job].version = requests[j].version
    BY <1>1, <1>6 DEF Ledger, ArtifactsMatchRequests
  <2>2. a.job \in DOMAIN requests /\ j \in DOMAIN requests
    BY <1>1, <1>2, <2>1, RowTypes
  <2>3. a.job = j
    BY <1>1, <2>1, <2>2 DEF Ledger, ReservationsDistinct
  <2>4. QED
    BY <1>2, <2>1, <2>3
<1>7. QED
  BY <1>3, <1>5, <1>6 DEF Admissible

\* Active jobs of one project share its revision, and revisions are distinct.
LEMMA ActiveAlone == TypeOK /\ Ledger => SingleActiveJob
<1>1. SUFFICES ASSUME TypeOK, Ledger, NEW i \in DOMAIN jobs, NEW j \in DOMAIN jobs,
                      Active(i), Active(j),
                      requests[i].project = requests[j].project
               PROVE  i = j
  BY DEF SingleActiveJob
<1>2. requests[i].revision = requests[j].revision
  BY <1>1 DEF Ledger, ActiveMatchesProject
<1>3. i \in DOMAIN requests /\ j \in DOMAIN requests
  BY <1>1, RowTypes
<1>4. QED
  BY <1>1, <1>2, <1>3 DEF Ledger, ReservationsDistinct

-----------------------------------------------------------------------------
(* The ledger is inductive                                                 *)

\* A job row that an active job may become.
ActiveRow(job, since) ==
    /\ since <= job.availableAt
    /\ job.status = "running" =>
          /\ job.owner \in Workers
          /\ since <= clock[job.owner]
          /\ since <= job.expires

\* Statements that change job rows only, and clocks that advance.
LEMMA JobsLedger ==
    ASSUME TypeOK, TypeOK', Ledger,
           UNCHANGED <<project, requests, artifacts>>,
           DOMAIN jobs' = DOMAIN jobs,
           \A w \in Workers : clock[w] <= clock'[w],
           \A j \in DOMAIN jobs : Active(j)' =>
              /\ Active(j)
              /\ \/ jobs'[j] = jobs[j]
                 \/ ActiveRow(jobs'[j], project[requests[j].project].updatedAt)
    PROVE  Ledger'
<1>1. ActiveMatchesProject'
  BY DEF Ledger, ActiveMatchesProject
<1>2. ASSUME NEW j \in DOMAIN jobs, Active(j)'
      PROVE  LET since == project[requests[j].project].updatedAt
             IN  /\ since <= jobs'[j].availableAt
                 /\ jobs'[j].status = "running" =>
                      /\ jobs'[j].owner \in Workers
                      /\ since <= clock'[jobs'[j].owner]
                      /\ since <= jobs'[j].expires
  <2> DEFINE since == project[requests[j].project].updatedAt
  <2>1. ActiveRow(jobs'[j], since)
    BY <1>2 DEF Ledger, ActiveAfterProject, ActiveRow
  <2>2. since \in Nat
    BY RowTypes
  <2>3. \A w \in Workers : clock[w] \in Nat /\ clock'[w] \in Nat
    BY ConstantsAssumption DEF TypeOK, Time
  <2>4. QED
    BY <2>1, <2>2, <2>3 DEF ActiveRow
<1>3. ActiveAfterProject'
  BY <1>2 DEF ActiveAfterProject
<1>4. RevisionsReached' /\ ReservationsDistinct'
  BY DEF Ledger, RevisionsReached, ReservationsDistinct
<1>5. ArtifactsMatchRequests'
  BY DEF Ledger, ArtifactsMatchRequests
<1>6. QED
  BY <1>1, <1>3, <1>4, <1>5 DEF Ledger

\* Steps that leave all tables and clocks alone.
LEMMA LocalLedger ==
    ASSUME Ledger, UNCHANGED <<tables, clock>>
    PROVE  Ledger'
BY DEF Ledger, ActiveMatchesProject, ActiveAfterProject, RevisionsReached,
       ReservationsDistinct, ArtifactsMatchRequests, Active, tables

LEMMA TickLedger ==
    ASSUME TypeOK, TypeOK', Ledger, NEW w \in Workers, Tick(w)
    PROVE  Ledger'
<1>1. \A v \in Workers : clock[v] <= clock'[v]
  BY ConstantsAssumption DEF Tick, TypeOK, Time
<1>2. QED
  BY <1>1, JobsLedger DEF Tick, tables, Active

\* A clock does not move in the statements of a worker.
LEMMA ClockStays ==
    ASSUME TypeOK, UNCHANGED clock
    PROVE  \A v \in Workers : clock[v] <= clock'[v]
BY ClockType

LEMMA ClaimLedger ==
    ASSUME TypeOK, TypeOK', Ledger, NEW w \in Workers, NEW j \in DOMAIN jobs,
           Claim(w, j)
    PROVE  Ledger'
<1> DEFINE now == clock[w]
<1>1. now \in Nat
  BY ClockType
<1>2. /\ DOMAIN jobs' = DOMAIN jobs
      /\ jobs'[j] = Leased(jobs[j], w, now)
      /\ \A i \in DOMAIN jobs : i # j => jobs'[i] = Swept(now)[i]
  BY <1>1, SweptRows DEF Claim
<1>3. ASSUME NEW i \in DOMAIN jobs, Active(i)'
      PROVE  /\ Active(i)
             /\ \/ jobs'[i] = jobs[i]
                \/ ActiveRow(jobs'[i], project[requests[i].project].updatedAt)
  <2>1. CASE i = j
    <3> DEFINE since == project[requests[j].project].updatedAt
    <3>1. Active(j) /\ since <= now
      BY ClaimedAfterProject DEF Claim
    <3>2. since <= jobs[j].availableAt
      BY <3>1 DEF Ledger, ActiveAfterProject
    <3>3. since <= now + Lease
      BY <1>1, <3>1, RowTypes, ConstantsAssumption
    <3>4. ActiveRow(Leased(jobs[j], w, now), since)
      BY <3>1, <3>2, <3>3 DEF ActiveRow, Leased
    <3>5. QED
      BY <1>2, <2>1, <3>1, <3>4
  <2>2. CASE i # j
    <3>1. jobs'[i] = IF Overdue(i, now) THEN Finished(jobs[i], "failed", "LeaseExpired")
                                        ELSE jobs[i]
      BY <1>1, <1>2, <2>2, SweptRows
    <3>2. QED
      BY <1>3, <3>1 DEF Active, Finished, Released
  <2>3. QED
    BY <2>1, <2>2
<1>4. QED
  BY <1>2, <1>3, ClockStays, JobsLedger DEF Claim

LEMMA SweepLedger ==
    ASSUME TypeOK, TypeOK', Ledger, NEW w \in Workers, Sweep(w)
    PROVE  Ledger'
<1>1. /\ DOMAIN jobs' = DOMAIN jobs
      /\ \A i \in DOMAIN jobs :
            jobs'[i] = IF Overdue(i, clock[w])
                       THEN Finished(jobs[i], "failed", "LeaseExpired") ELSE jobs[i]
  BY ClockType, SweptRows DEF Sweep
<1>2. \A i \in DOMAIN jobs : Active(i)' => Active(i) /\ jobs'[i] = jobs[i]
  BY <1>1 DEF Active, Finished, Released
<1>3. QED
  BY <1>1, <1>2, ClockStays, JobsLedger DEF Sweep

\* The owner of a live lease has seen its project's time.
LEMMA HeldRow ==
    ASSUME TypeOK, Ledger, NEW w \in Workers, HoldsLease(w)
    PROVE  /\ worker[w].job \in DOMAIN jobs
           /\ Active(worker[w].job)
           /\ jobs[worker[w].job].owner = w
           /\ project[requests[worker[w].job].project].updatedAt
                <= jobs[worker[w].job].availableAt
           /\ project[requests[worker[w].job].project].updatedAt <= clock[w]
BY DEF HoldsLease, Active, Ledger, ActiveAfterProject

LEMMA HeartbeatLedger ==
    ASSUME TypeOK, TypeOK', Ledger, NEW w \in Workers, Heartbeat(w)
    PROVE  Ledger'
<1>1. CASE ~HoldsLease(w)
  BY <1>1, LocalLedger DEF Heartbeat, tables
<1>2. CASE HoldsLease(w)
  <2> DEFINE j == worker[w].job
             since == project[requests[j].project].updatedAt
  <2>1. /\ j \in DOMAIN jobs /\ Active(j) /\ jobs[j].owner = w
        /\ since <= jobs[j].availableAt /\ since <= clock[w]
    BY <1>2, HeldRow
  <2>2. jobs' = [jobs EXCEPT ![j].expires = clock[w] + Lease]
    BY <1>2 DEF Heartbeat
  <2>3. jobs'[j] = [jobs[j] EXCEPT !.expires = clock[w] + Lease]
    BY <2>1, <2>2
  <2>4. since <= clock[w] + Lease
    BY <2>1, RowTypes, ClockType, ConstantsAssumption
  <2>5. /\ jobs'[j].availableAt = jobs[j].availableAt
        /\ jobs'[j].owner = jobs[j].owner
        /\ jobs'[j].expires = clock[w] + Lease
    BY <2>1, <2>3, RowTypes DEF Job
  <2>6. ActiveRow(jobs'[j], since)
    BY <2>1, <2>4, <2>5 DEF ActiveRow
  <2>7. \A i \in DOMAIN jobs : i # j => jobs'[i] = jobs[i]
    BY <2>2
  <2>8. \A i \in DOMAIN jobs : Active(i)' =>
          /\ Active(i)
          /\ jobs'[i] = jobs[i] \/ ActiveRow(jobs'[i], project[requests[i].project].updatedAt)
    BY <2>1, <2>6, <2>7 DEF Active
  <2>9. QED
    BY <1>2, <2>2, <2>8, ClockStays, JobsLedger DEF Heartbeat
<1>3. QED
  BY <1>1, <1>2

LEMMA FailAttemptLedger ==
    ASSUME TypeOK, TypeOK', Ledger, NEW w \in Workers, FailAttempt(w)
    PROVE  Ledger'
<1>1. CASE ~HoldsLease(w)
  BY <1>1, LocalLedger DEF FailAttempt, tables
<1>2. CASE HoldsLease(w)
  <2> DEFINE j == worker[w].job
             since == project[requests[j].project].updatedAt
  <2>1. j \in DOMAIN jobs /\ Active(j) /\ since <= clock[w]
    BY <1>2, HeldRow
  <2>2. PICK error :
          \/ jobs' = [jobs EXCEPT ![j] = Released(@, "queued", error, clock[w] + Poll)]
          \/ jobs' = [jobs EXCEPT ![j] = Finished(@, "failed", error)]
    BY <1>2 DEF FailAttempt
  <2>3. since <= clock[w] + Poll
    BY <2>1, RowTypes, ClockType, ConstantsAssumption
  <2>4. jobs'[j].status \in {"queued", "running"} => ActiveRow(jobs'[j], since)
    BY <2>1, <2>2, <2>3 DEF ActiveRow, Released, Finished
  <2>5. DOMAIN jobs' = DOMAIN jobs /\ \A i \in DOMAIN jobs : i # j => jobs'[i] = jobs[i]
    BY <2>2
  <2>6. \A i \in DOMAIN jobs : Active(i)' =>
          /\ Active(i)
          /\ jobs'[i] = jobs[i] \/ ActiveRow(jobs'[i], project[requests[i].project].updatedAt)
    BY <2>1, <2>4, <2>5 DEF Active
  <2>7. QED
    BY <1>2, <2>5, <2>6, ClockStays, JobsLedger DEF FailAttempt
<1>3. QED
  BY <1>1, <1>2

\* A terminal transaction ends the only active job of its project, moves the
\* project one revision on and may store the artifact its job reserved.
LEMMA SettleLedger ==
    ASSUME TypeOK, TypeOK', Ledger, NEW w \in Workers, HoldsLease(w),
           NEW j, j = worker[w].job,
           NEW p, p = requests[j].project,
           NEW status \in {"succeeded", "failed"}, NEW error, NEW accepted,
           NEW target,
           project' = [project EXCEPT ![p] = Transitioned(@, target, clock[w])],
           jobs' = [jobs EXCEPT ![j] = Finished(@, status, error)],
           artifacts' \in {artifacts, artifacts \cup {Produced(w, accepted)}},
           UNCHANGED <<requests, clock>>
    PROVE  Ledger'
<1>1. /\ j \in DOMAIN jobs /\ j \in DOMAIN requests /\ Active(j)
      /\ p \in Projects
  BY HeldRow, RowTypes
<1>2. /\ DOMAIN jobs' = DOMAIN jobs
      /\ ~Active(j)'
      /\ \A i \in DOMAIN jobs : i # j => jobs'[i] = jobs[i]
  BY <1>1 DEF Active, Finished, Released
<1>3. /\ project'[p].revision = project[p].revision + 1
      /\ \A q \in Projects : q # p => project'[q] = project[q]
  BY <1>1 DEF Transitioned, TypeOK
<1>4. ASSUME NEW i \in DOMAIN jobs, Active(i)'
      PROVE  /\ i # j /\ Active(i) /\ jobs'[i] = jobs[i]
             /\ project'[requests[i].project] = project[requests[i].project]
  <2>1. i # j /\ jobs'[i] = jobs[i] /\ Active(i)
    BY <1>2, <1>4 DEF Active
  <2>2. requests[i].project # p
    BY <1>1, <2>1, ActiveAlone DEF SingleActiveJob
  <2>3. QED
    BY <1>3, <2>1, <2>2, RowTypes
<1>5. ActiveMatchesProject'
  BY <1>2, <1>4 DEF Ledger, ActiveMatchesProject
<1>6. ActiveAfterProject'
  BY <1>2, <1>4 DEF Ledger, ActiveAfterProject
<1>7. RevisionsReached'
  <2>1. ASSUME NEW i \in DOMAIN requests
        PROVE  requests[i].revision <= project'[requests[i].project].revision
    <3>1. i \in DOMAIN jobs
      BY DEF TypeOK
    <3>2. requests[i].revision <= project[requests[i].project].revision
      BY DEF Ledger, RevisionsReached
    <3>3. QED
      BY <1>3, <3>1, <3>2, RowTypes
  <2>2. QED
    BY <2>1 DEF RevisionsReached
<1>8. \A a \in artifacts : ~ /\ a.project = p
                             /\ a.version = requests[j].version
  BY LeaseAdmissible DEF TerminalAdmissible
<1>9. /\ Produced(w, accepted).project = p
      /\ Produced(w, accepted).version = requests[j].version
      /\ Produced(w, accepted).job = j
  BY DEF Produced
<1>10. ReservationsDistinct'
  BY <1>8, <1>9 DEF Ledger, ReservationsDistinct
<1>11. ArtifactsMatchRequests'
  <2>1. ASSUME NEW a \in artifacts
        PROVE  /\ a.job \in DOMAIN jobs
               /\ ~(jobs'[a.job].status \in {"queued", "running"})
               /\ a.project = requests[a.job].project
               /\ a.version = requests[a.job].version
    BY <1>2 DEF Ledger, ArtifactsMatchRequests, Active
  <2>2. QED
    BY <1>1, <1>2, <1>9, <2>1 DEF ArtifactsMatchRequests, Active
<1>12. QED
  BY <1>5, <1>6, <1>7, <1>10, <1>11 DEF Ledger

LEMMA SucceedLedger ==
    ASSUME TypeOK, TypeOK', Ledger, NEW w \in Workers, Succeed(w)
    PROVE  Ledger'
<1>1. HoldsLease(w)
  BY DEF Succeed
<1>2. Admissible(w, "review_required")
  BY <1>1, LeaseAdmissible DEF TerminalAdmissible
<1>3. QED
  BY <1>1, <1>2, SettleLedger DEF Succeed

LEMMA FailPermanentlyLedger ==
    ASSUME TypeOK, TypeOK', Ledger, NEW w \in Workers, FailPermanently(w)
    PROVE  Ledger'
<1>1. HoldsLease(w)
  BY DEF FailPermanently
<1>2. Admissible(w, "failed")
  BY <1>1, LeaseAdmissible DEF TerminalAdmissible
<1>3. QED
  BY <1>1, <1>2, SettleLedger DEF FailPermanently

\* A reservation finds no active job of its project, draws the next version
\* and writes the next revision.
LEMMA ReserveLedger ==
    ASSUME TypeOK, TypeOK', Ledger,
           NEW p \in Projects, NEW k \in Keys, NEW s \in Specs,
           NEW j \in JobIds, NEW now \in Time, Reserve(p, k, s, j, now)
    PROVE  Ledger'
<1> DEFINE next == project[p].revision + 1
           row == [status |-> "queued", attempt |-> 0, availableAt |-> now,
                   owner |-> NoWorker, expires |-> 0, error |-> "none"]
<1>1. PICK latest \in Versions(p) \cup {0} :
         /\ IsLatest(p, latest)
         /\ requests' = Upsert(requests, j,
               [project |-> p, key |-> k, spec |-> s, version |-> latest + 1,
                revision |-> next])
  BY DEF Reserve
<1> DEFINE request == [project |-> p, key |-> k, spec |-> s,
                       version |-> latest + 1, revision |-> next]
<1>2. /\ project[p].revision \in Nat /\ now \in Nat /\ latest \in Nat
      /\ \A v \in Versions(p) : v \in Nat
  BY ConstantsAssumption DEF TypeOK, Project, Time, Versions, RequestsOf, Request, Artifact
<1>3. /\ j \notin DOMAIN jobs
      /\ DOMAIN jobs' = DOMAIN jobs \cup {j}
      /\ jobs'[j] = row
      /\ \A i \in DOMAIN jobs : i # j /\ jobs'[i] = jobs[i]
  <2>1. j \notin DOMAIN jobs /\ jobs' = Upsert(jobs, j, row)
    BY DEF Reserve
  <2>2. QED
    BY <2>1 DEF Upsert
<1>4. /\ DOMAIN requests = DOMAIN jobs
      /\ DOMAIN requests' = DOMAIN jobs \cup {j}
      /\ requests'[j] = request
      /\ \A i \in DOMAIN jobs : requests'[i] = requests[i]
  <2>1. DOMAIN requests = DOMAIN jobs
    BY DEF TypeOK
  <2>2. QED
    BY <1>1, <1>3, <2>1 DEF Upsert
<1>5. /\ project'[p].status = "generating"
      /\ project'[p].revision = next
      /\ project'[p].updatedAt = now
      /\ \A q \in Projects : q # p => project'[q] = project[q]
  BY DEF Reserve, Transitioned, TypeOK
<1>6. project[p].status # "generating"
  BY DEF Reserve, MayReserve
<1>7. ASSUME NEW i \in DOMAIN jobs, Active(i)
      PROVE  project'[requests[i].project] = project[requests[i].project]
  BY <1>5, <1>6, <1>7, RowTypes DEF Ledger, ActiveMatchesProject
<1>8. ActiveMatchesProject'
  BY <1>3, <1>4, <1>5, <1>7 DEF Ledger, ActiveMatchesProject, Active
<1>9. ActiveAfterProject'
  <2>1. clock' = clock
    BY DEF Reserve
  <2>2. now <= now
    BY <1>2
  <2>3. QED
    BY <1>3, <1>4, <1>5, <1>7, <2>1, <2>2 DEF Ledger, ActiveAfterProject, Active
<1>10. RevisionsReached'
  <2>1. ASSUME NEW i \in DOMAIN jobs
        PROVE  requests[i].revision <= project'[requests[i].project].revision
    BY <1>2, <1>4, <1>5, RowTypes DEF Ledger, RevisionsReached
  <2>2. next <= next
    BY <1>2
  <2>3. QED
    BY <1>4, <1>5, <2>1, <2>2 DEF RevisionsReached
<1>11. ASSUME NEW i \in DOMAIN jobs, requests[i].project = p
       PROVE  /\ requests[i].key # k
              /\ requests[i].version # latest + 1
              /\ requests[i].revision # next
  <2>1. i \in RequestsOf(p) /\ requests[i].version \in Versions(p)
    BY <1>4, <1>11 DEF RequestsOf, Versions
  <2>2. requests[i].key # k
    BY <2>1 DEF Reserve, KeyUsed
  <2>3. requests[i].version <= latest
    BY <1>1, <2>1 DEF IsLatest
  <2>4. requests[i].revision <= project[p].revision
    BY <1>4, <1>11 DEF Ledger, RevisionsReached
  <2>5. QED
    BY <1>2, <2>1, <2>2, <2>3, <2>4, <1>11, RowTypes
<1>12. artifacts' = artifacts
  BY DEF Reserve
<1>13. ReservationsDistinct'
  <2>1. ASSUME NEW i \in DOMAIN requests', NEW l \in DOMAIN requests', i # l,
               requests'[i].project = requests'[l].project
        PROVE  /\ requests'[i].key # requests'[l].key
               /\ requests'[i].version # requests'[l].version
               /\ requests'[i].revision # requests'[l].revision
    <3>1. CASE i = j
      BY <1>4, <1>11, <2>1, <3>1
    <3>2. CASE l = j
      BY <1>4, <1>11, <2>1, <3>2
    <3>3. CASE i # j /\ l # j
      BY <1>4, <2>1, <3>3 DEF Ledger, ReservationsDistinct
    <3>4. QED
      BY <3>1, <3>2, <3>3
  <2>2. QED
    BY <1>12, <2>1 DEF Ledger, ReservationsDistinct
<1>14. ArtifactsMatchRequests'
  BY <1>3, <1>4, <1>12 DEF Ledger, ArtifactsMatchRequests, Active
<1>15. QED
  BY <1>8, <1>9, <1>10, <1>13, <1>14 DEF Ledger

\* A decision is stored for a project in review, which has no active job.
LEMMA ApplyReviewLedger ==
    ASSUME TypeOK, TypeOK', Ledger, NEW c \in Clients, ApplyReview(c)
    PROVE  Ledger'
<1>1. CASE ~ReviewApplies(c)
  BY <1>1, LocalLedger DEF ApplyReview, tables
<1>2. CASE ReviewApplies(c)
  <2>1. PICK p \in Projects :
          /\ p = client[c].project
          /\ project[p].status = "review_required"
          /\ project'[p].revision = project[p].revision + 1
          /\ \A q \in Projects : q # p => project'[q] = project[q]
    BY <1>2 DEF ApplyReview, ReviewApplies, TypeOK, ClientState
  <2>2. UNCHANGED <<jobs, requests, artifacts, clock>>
    BY DEF ApplyReview
  <2>3. ASSUME NEW i \in DOMAIN jobs, Active(i)
        PROVE  project'[requests[i].project] = project[requests[i].project]
    BY <2>1, <2>3, RowTypes DEF Ledger, ActiveMatchesProject
  <2>4. ActiveMatchesProject' /\ ActiveAfterProject'
    BY <2>2, <2>3 DEF Ledger, ActiveMatchesProject, ActiveAfterProject, Active
  <2>5. RevisionsReached'
    <3>1. ASSUME NEW i \in DOMAIN jobs
          PROVE  requests[i].revision <= project'[requests[i].project].revision
      BY <2>1, RowTypes DEF Ledger, RevisionsReached
    <3>2. QED
      BY <2>2, <3>1 DEF RevisionsReached, TypeOK
  <2>6. ReservationsDistinct' /\ ArtifactsMatchRequests'
    BY <2>2 DEF Ledger, ReservationsDistinct, ArtifactsMatchRequests, Active
  <2>7. QED
    BY <2>4, <2>5, <2>6 DEF Ledger
<1>3. QED
  BY <1>1, <1>2

LEMMA InitLedger == Init => Ledger
BY DEF Init, Ledger, ActiveMatchesProject, ActiveAfterProject, RevisionsReached,
       ReservationsDistinct, ArtifactsMatchRequests

\* Every step keeps the ledger, one lemma per action that writes a table.
LEMMA NextLedger == IInv /\ [Next]_vars => IInv'
<1>1. SUFFICES ASSUME TypeOK, TypeOK', Ledger, [Next]_vars PROVE Ledger'
  BY NextType DEF IInv
<1>2. CASE ApiStep
  BY <1>1, <1>2, ReserveLedger DEF ApiStep
<1>3. ASSUME NEW w \in Workers, WorkerStep(w) PROVE Ledger'
  <2>1. ASSUME Generate(w) \/ RejectEvidence(w) \/ LoseLease(w) \/ Raise(w)
               \/ Return(w) \/ Crash(w)
        PROVE  UNCHANGED <<tables, clock>>
    BY <2>1 DEF Generate, RejectEvidence, LoseLease, Raise, Return, Crash
  <2>2. QED
    BY <1>1, <1>3, <2>1, LocalLedger, ClaimLedger, SweepLedger, HeartbeatLedger,
       FailAttemptLedger, SucceedLedger, FailPermanentlyLedger, TickLedger
       DEF WorkerStep
<1>4. ASSUME NEW c \in Clients, ClientStep(c) PROVE Ledger'
  <2>1. ASSUME ~ApplyReview(c) PROVE UNCHANGED <<tables, clock>>
    BY <1>4, <2>1 DEF ClientStep, ReadProject, ReadPointer, CheckReview
  <2>2. QED
    BY <1>1, <1>4, <2>1, LocalLedger, ApplyReviewLedger
<1>5. CASE UNCHANGED vars
  BY <1>1, <1>5, LocalLedger DEF vars
<1>6. QED
  BY <1>1, <1>2, <1>3, <1>4, <1>5 DEF Next

THEOREM LedgerKept == Spec => []IInv
<1>1. Init => IInv
  BY InitType, InitLedger DEF IInv
<1>2. IInv /\ [Next]_vars => IInv'
  BY NextLedger
<1>3. QED
  BY <1>1, <1>2, PTL DEF Spec

-----------------------------------------------------------------------------
(* The safety properties                                                   *)

\* A worker with a live lease can always commit its terminal transaction.
THEOREM LeaseIsEnough == Spec => []TerminalAdmissible
<1>1. IInv => TerminalAdmissible
  BY LeaseAdmissible DEF IInv
<1>2. QED
  BY <1>1, LedgerKept, PTL

\* A project never has two jobs queued or running.
THEOREM OneActiveJob == Spec => []SingleActiveJob
<1>1. IInv => SingleActiveJob
  BY ActiveAlone DEF IInv
<1>2. QED
  BY <1>1, LedgerKept, PTL

\* Keys, versions, revisions and artifacts of a project never collide.
THEOREM NoCollision == Spec => []ReservationsDistinct
<1>1. IInv => ReservationsDistinct
  BY DEF IInv, Ledger
<1>2. QED
  BY <1>1, LedgerKept, PTL

\* What HistoryIsFinal says of one step.
HistoryKept ==
    /\ \A j \in DOMAIN jobs : ~Active(j) => jobs'[j] = jobs[j]
    /\ \A j \in DOMAIN requests : requests'[j] = requests[j]
    /\ artifacts \subseteq artifacts'
    /\ reviews \subseteq reviews'

\* A worker touches active jobs only: those it sweeps or claims, and the one
\* whose lease it holds.
LEMMA WorkerKeepsHistory ==
    ASSUME TypeOK, NEW w \in Workers, WorkerStep(w)
    PROVE  HistoryKept
<1>1. ASSUME NEW j \in DOMAIN jobs, Claim(w, j) \/ Sweep(w) PROVE HistoryKept
  <2>1. /\ DOMAIN Swept(clock[w]) = DOMAIN jobs
        /\ \A i \in DOMAIN jobs : ~Active(i) => Swept(clock[w])[i] = jobs[i]
    BY ClockType, SweptRows DEF Overdue, Active
  <2>2. CASE Claim(w, j)
    <3>1. Active(j)
      BY <2>2 DEF Claim, Claimable, Active
    <3>2. QED
      BY <2>1, <2>2, <3>1 DEF Claim, HistoryKept
  <2>3. CASE Sweep(w)
    BY <2>1, <2>3 DEF Sweep, HistoryKept
  <2>4. QED
    BY <1>1, <2>2, <2>3
<1>2. HoldsLease(w) => Active(worker[w].job)
  BY DEF HoldsLease, Active
<1>3. CASE Heartbeat(w)
  BY <1>2, <1>3 DEF Heartbeat, HistoryKept
<1>4. CASE FailAttempt(w)
  BY <1>2, <1>4 DEF FailAttempt, HistoryKept
<1>5. CASE Succeed(w)
  BY <1>2, <1>5 DEF Succeed, HistoryKept
<1>6. CASE FailPermanently(w)
  BY <1>2, <1>6 DEF FailPermanently, HistoryKept
<1>7. ASSUME UNCHANGED tables PROVE HistoryKept
  BY <1>7 DEF tables, HistoryKept
<1>8. Sweep(w) => \E j \in DOMAIN jobs : TRUE
  BY DEF Sweep
<1>9. QED
  BY <1>1, <1>3, <1>4, <1>5, <1>6, <1>7, <1>8
     DEF WorkerStep, Generate, RejectEvidence, LoseLease, Raise, Return, Crash, Tick

LEMMA StepKeepsHistory ==
    ASSUME TypeOK, Next
    PROVE  HistoryKept
<1>1. ASSUME NEW p \in Projects, NEW k \in Keys, NEW s \in Specs,
             NEW j \in JobIds, NEW now \in Time, Reserve(p, k, s, j, now)
      PROVE  HistoryKept
  <2>1. \A i \in DOMAIN jobs : i # j
    BY <1>1 DEF Reserve
  <2>2. \A i \in DOMAIN jobs : jobs'[i] = jobs[i]
    BY <1>1, <2>1 DEF Reserve, Upsert
  <2>3. \A i \in DOMAIN requests : requests'[i] = requests[i]
    BY <1>1, <2>1 DEF Reserve, Upsert, TypeOK
  <2>4. QED
    BY <1>1, <2>2, <2>3 DEF Reserve, HistoryKept
<1>2. ASSUME NEW c \in Clients, ClientStep(c) PROVE HistoryKept
  BY <1>2 DEF ClientStep, ReadProject, ReadPointer, CheckReview, ApplyReview,
              tables, HistoryKept
<1>3. QED
  BY <1>1, <1>2, WorkerKeepsHistory DEF Next, ApiStep

\* Terminal jobs, requests, artifacts and reviews are never rewritten.
THEOREM HistoryStays == Spec => HistoryIsFinal
<1>1. TypeOK /\ [Next]_vars => HistoryKept \/ UNCHANGED vars
  BY StepKeepsHistory
<1>2. QED
  BY <1>1, TypeCorrect, PTL DEF Spec, HistoryIsFinal, HistoryKept

=============================================================================
