---------------------------- MODULE Generation ----------------------------
(***************************************************************************)
(* The fact-card generation lifecycle: the API reserves a request and      *)
(* enqueues its job in one transaction, polling workers claim jobs under a *)
(* lease, run the handler and commit one terminal transaction, and people  *)
(* review the outcome.  One action is one database transaction (or one     *)
(* step of a process between two transactions); the tables are variables.  *)
(*                                                                         *)
(* Time.  Every timestamp the code compares is read from the clock of the  *)
(* process that runs the statement, before the transaction starts.  Each   *)
(* worker process has a clock of its own that never goes back; clocks of   *)
(* different processes are unrelated, so a slow clock also stands for a    *)
(* timestamp read early and used late.  An API request takes an arbitrary  *)
(* timestamp.                                                              *)
(***************************************************************************)
EXTENDS ProjectState

CONSTANTS
    Projects,     \* project ids
    Keys,         \* Idempotency-Key values
    Specs,        \* canonical request digests: one per distinct specification
    JobIds,       \* ids the API may draw; bounds the number of reservations
    Workers,      \* worker processes; an id is never used by two processes
    Clients,      \* browser sessions that review projects
    NoWorker,     \* the NULL of jobs.lease_owner
    NoJob,        \* a worker that runs no handler
    MaxAttempts,  \* jobs.max_attempts
    Lease,        \* lease_for of the worker
    Poll,         \* delay before a retried job is available again
    MaxTime       \* bound on every clock

ASSUME ConstantsAssumption ==
    /\ NoWorker \notin Workers
    /\ NoJob \notin JobIds
    /\ MaxAttempts \in Nat \ {0}
    /\ Lease \in Nat \ {0}
    /\ Poll \in Nat
    /\ MaxTime \in Nat
    /\ Projects # {}

VARIABLES
    project,    \* table projects, by id
    current,    \* fact_card row of project_current_artifacts; 0 when absent
    jobs,       \* table jobs, by id
    requests,   \* table generation_requests, by its unique job_id
    artifacts,  \* table artifacts; accepted marks the rows of a success
    reviews,    \* table reviews; seen is the version the reviewer looked at
    worker,     \* local state of each worker process
    clock,      \* clock of each worker process
    client      \* local state of each reviewing session

tables == <<project, current, jobs, requests, artifacts, reviews>>
vars == <<tables, worker, clock, client>>

Time == 0..MaxTime

Job == [status : {"queued", "running", "succeeded", "failed"},
        attempt : 0..MaxAttempts, availableAt : Nat,
        owner : Workers \cup {NoWorker}, expires : Nat,
        error : {"none", "LeaseExpired", "RetryableError", "Permanent"}]

Request == [project : Projects, key : Keys, spec : Specs,
            version : Nat \ {0}, revision : Nat \ {0}]

Artifact == [project : Projects, version : Nat \ {0}, job : JobIds,
             accepted : BOOLEAN]

Review == [project : Projects, revision : Nat, seen : Nat,
           decision : {"approve", "reject"}]

\* Where a worker process is: its poll loop, the handler's steps, or gone.
HandlerSteps == {"handling", "committing", "failing", "auditing"}
WorkerState == [pc : HandlerSteps \cup {"polling", "retrying", "returned",
                                        "breached", "dead"},
                job : JobIds \cup {NoJob}, lost : BOOLEAN]

ClientState == [pc : {"idle", "row", "viewed", "checked"}, project : Projects,
                revision : Nat, seen : Nat, at : Time,
                decision : {"approve", "reject"}]

IdleClient == [pc |-> "idle", project |-> CHOOSE p \in Projects : TRUE,
               revision |-> 0, seen |-> 0, at |-> 0, decision |-> "approve"]

\* A table with the row of key id inserted or replaced.
Upsert(table, id, row) ==
    [i \in DOMAIN table \cup {id} |-> IF i = id THEN row ELSE table[i]]

IdleWorker == [pc |-> "polling", job |-> NoJob, lost |-> FALSE]

Init ==
    /\ project = [p \in Projects |-> [status |-> "draft", revision |-> 1,
                                      updatedAt |-> 0, failedStage |-> "none"]]
    /\ current = [p \in Projects |-> 0]
    /\ jobs = [j \in {} |-> 0]
    /\ requests = [j \in {} |-> 0]
    /\ artifacts = {}
    /\ reviews = {}
    /\ worker = [w \in Workers |-> IdleWorker]
    /\ clock = [w \in Workers |-> 0]
    /\ client = [c \in Clients |-> IdleClient]

-----------------------------------------------------------------------------
(* Reservation: POST /projects/{id}/generate                               *)

RequestsOf(p) == {j \in DOMAIN requests : requests[j].project = p}

Versions(p) == {requests[j].version : j \in RequestsOf(p)}
          \cup {a.version : a \in {b \in artifacts : b.project = p}}

\* Mutation: the version is taken from the stored artifacts alone.
IsLatestArtifact(p, v) ==
    LET stored == {a.version : a \in {b \in artifacts : b.project = p}}
    IN  v \in stored \cup {0} /\ \A u \in stored : u <= v

\* v = GREATEST(MAX(artifacts.version), MAX(requests.version)), 0 when empty.
IsLatest(p, v) == v \in Versions(p) \cup {0} /\ \A u \in Versions(p) : u <= v

KeyUsed(p, k) == \E j \in RequestsOf(p) : requests[j].key = k

MayReserve(p) ==
    \/ project[p].status = "draft"
    \/ project[p].status = "failed" /\ project[p].failedStage = "generation"

\* A new key: the project, the job and the request change together.  A key
\* already in the table changes nothing, whether its digest matches or not.
Reserve(p, k, s, j, now) ==
    /\ ~KeyUsed(p, k)
    /\ MayReserve(p)
    /\ MayTransition(project[p], "generating", now)
    /\ j \in JobIds \ DOMAIN jobs
    /\ \E latest \in Versions(p) \cup {0} :
          /\ IsLatest(p, latest)
          /\ requests' = Upsert(requests, j,
                [project |-> p, key |-> k, spec |-> s, version |-> latest + 1,
                 revision |-> project[p].revision + 1])
    /\ project' = [project EXCEPT ![p] = Transitioned(@, "generating", now)]
    /\ jobs' = Upsert(jobs, j,
          [status |-> "queued", attempt |-> 0, availableAt |-> now,
           owner |-> NoWorker, expires |-> 0, error |-> "none"])
    /\ UNCHANGED <<current, artifacts, reviews, worker, clock, client>>

-----------------------------------------------------------------------------
(* The lease: JobStore.claim, heartbeat and fail                           *)

\* Mutation: the lease check forgets the owner.
HoldsAnyLease(w) ==
    LET j == worker[w].job
    IN  j \in DOMAIN jobs /\ jobs[j].status = "running" /\ jobs[j].expires > clock[w]

\* Every lease check of the code: running, owned by this worker, not expired.
HoldsLease(w) ==
    LET j == worker[w].job
    IN  /\ j \in DOMAIN jobs
        /\ jobs[j].status = "running"
        /\ jobs[j].owner = w
        /\ jobs[j].expires > clock[w]

\* Mutation: a permanent failure is requeued unless attempts are exceeded.
ReleasedForRetry(job, status, error, at) ==
    [status |-> IF status = "failed" /\ job.attempt =< MaxAttempts
                THEN "queued" ELSE status,
     attempt |-> job.attempt, availableAt |-> at,
     owner |-> NoWorker, expires |-> 0, error |-> error]

\* A job without its lease, available again at the given time.
Released(job, status, error, at) ==
    [status |-> status, attempt |-> job.attempt, availableAt |-> at,
     owner |-> NoWorker, expires |-> 0, error |-> error]

Finished(job, status, error) == Released(job, status, error, job.availableAt)

Leased(job, w, now) ==
    [status |-> "running", attempt |-> job.attempt + 1,
     availableAt |-> job.availableAt, owner |-> w, expires |-> now + Lease,
     error |-> job.error]

\* Mutation: the sweep gives up one attempt too early.
OverdueEarly(j, now) ==
    /\ jobs[j].status = "running"
    /\ jobs[j].expires <= now
    /\ jobs[j].attempt + 1 >= MaxAttempts

Overdue(j, now) ==
    /\ jobs[j].status = "running"
    /\ jobs[j].expires <= now
    /\ jobs[j].attempt >= MaxAttempts

\* The first statement of claim: overdue jobs fail, their projects untouched.
Swept(now) ==
    [j \in DOMAIN jobs |->
        IF Overdue(j, now) THEN Finished(jobs[j], "failed", "LeaseExpired")
                           ELSE jobs[j]]

\* Mutation: attempts are not limited.
ClaimableForever(j, now) ==
    \/ jobs[j].status = "queued" /\ jobs[j].availableAt <= now
    \/ jobs[j].status = "running" /\ jobs[j].expires <= now

\* Mutation: available_at is ignored.
ClaimableEarly(j, now) ==
    /\ jobs[j].attempt < MaxAttempts
    /\ \/ jobs[j].status = "queued"
       \/ jobs[j].status = "running" /\ jobs[j].expires <= now

\* Mutation: every available job that is not running counts as queued.
ClaimableUnlessRunning(j, now) ==
    /\ jobs[j].attempt < MaxAttempts
    /\ \/ jobs[j].status # "running" /\ jobs[j].availableAt <= now
       \/ jobs[j].status = "running" /\ jobs[j].expires <= now

Claimable(j, now) ==
    /\ jobs[j].attempt < MaxAttempts
    /\ \/ jobs[j].status = "queued" /\ jobs[j].availableAt <= now
       \/ jobs[j].status = "running" /\ jobs[j].expires <= now

\* Rows locked by other transactions are skipped, so that any candidate, not
\* only the oldest, may be the one returned.
Claim(w, j) ==
    /\ worker[w].pc = "polling"
    /\ Claimable(j, clock[w])
    /\ jobs' = [Swept(clock[w]) EXCEPT ![j] = Leased(jobs[j], w, clock[w])]
    /\ worker' = [worker EXCEPT ![w] = [pc |-> "handling", job |-> j,
                                        lost |-> FALSE]]
    /\ UNCHANGED <<project, current, requests, artifacts, reviews, clock, client>>

\* A poll that returns no job still sweeps.
Sweep(w) ==
    /\ worker[w].pc = "polling"
    /\ \E j \in DOMAIN jobs : Overdue(j, clock[w])
    /\ jobs' = Swept(clock[w])
    /\ UNCHANGED <<project, current, requests, artifacts, reviews, worker,
                   clock, client>>

\* The heartbeat thread, alive from the claim until the handler's outcome is
\* settled; it stops for good at the first lost lease.
Heartbeat(w) ==
    /\ worker[w].pc \notin {"polling", "dead"}
    /\ ~worker[w].lost
    /\ IF HoldsLease(w)
       THEN /\ jobs' = [jobs EXCEPT ![worker[w].job].expires = clock[w] + Lease]
            /\ UNCHANGED worker
       ELSE /\ worker' = [worker EXCEPT ![w].lost = TRUE]
            /\ UNCHANGED jobs
    /\ UNCHANGED <<project, current, requests, artifacts, reviews, clock, client>>

\* PollingWorker._fail after a retryable error or a breached contract: only
\* the job changes; a lost lease is logged and forgotten.
FailAttempt(w) ==
    /\ worker[w].pc \in {"retrying", "breached"}
    /\ LET j == worker[w].job
           again == worker[w].pc = "retrying" /\ jobs[j].attempt < MaxAttempts
           error == IF worker[w].pc = "retrying" THEN "RetryableError"
                                                 ELSE "Permanent"
       IN  jobs' = IF ~HoldsLease(w) THEN jobs
                   ELSE IF again
                   THEN [jobs EXCEPT ![j] =
                           Released(@, "queued", error, clock[w] + Poll)]
                   ELSE [jobs EXCEPT ![j] = Finished(@, "failed", error)]
    /\ worker' = [worker EXCEPT ![w] = IdleWorker]
    /\ UNCHANGED <<project, current, requests, artifacts, reviews, clock, client>>

-----------------------------------------------------------------------------
(* The handler: FactCardGenerationHandler and its terminal transactions    *)

Goto(w, pc) == worker' = [worker EXCEPT ![w].pc = pc]

\* Mutation: permanent errors are left to PollingWorker._fail.
GenerateWithoutTerminal(w) ==
    /\ worker[w].pc = "handling"
    /\ \E next \in {"committing", "breached", "retrying"} : Goto(w, next)
    /\ UNCHANGED <<tables, clock, client>>

\* Sources, citations and the provider, up to the terminal transaction.
Generate(w) ==
    /\ worker[w].pc = "handling"
    /\ \E next \in {"committing", "failing", "retrying"} : Goto(w, next)
    /\ UNCHANGED <<tables, clock, client>>

\* _lock_context and _finish_project accept the project as it is now.
Admissible(w, target) ==
    LET r == requests[worker[w].job]
    IN  /\ project[r.project].status = "generating"
        /\ project[r.project].revision = r.revision
        /\ MayTransition(project[r.project], target, clock[w])

\* The row _insert_artifact adds for the reservation of worker w's job.
Produced(w, accepted) ==
    LET r == requests[worker[w].job]
    IN  [project |-> r.project, version |-> r.version, job |-> worker[w].job,
         accepted |-> accepted]

\* Mutation: ON CONFLICT DO NOTHING, the first delivery stays current.
PointToFirst(p, version) ==
    current' = [current EXCEPT ![p] = IF @ = 0 THEN version ELSE @]

\* The upsert of project_current_artifacts.
PointTo(p, version) == current' = [current EXCEPT ![p] = version]

\* GenerationTerminalRepository.succeed with valid evidence.  A project that
\* moved raises InvalidStateTransition, which the handler turns into a failure.
Succeed(w) ==
    /\ worker[w].pc = "committing"
    /\ HoldsLease(w)
    /\ LET j == worker[w].job
           p == requests[j].project
       IN  IF Admissible(w, "review_required")
           THEN /\ artifacts' = artifacts \cup {Produced(w, TRUE)}
                /\ PointTo(p, requests[j].version)
                /\ project' = [project EXCEPT ![p] =
                                 Transitioned(@, "review_required", clock[w])]
                /\ jobs' = [jobs EXCEPT ![j] = Finished(@, "succeeded", "none")]
                /\ Goto(w, "returned")
           ELSE /\ Goto(w, "failing")
                /\ UNCHANGED <<artifacts, current, project, jobs>>
    /\ UNCHANGED <<requests, reviews, clock, client>>

\* Mutation: the handler swallows rejected evidence.
SwallowEvidence(w) ==
    /\ worker[w].pc = "committing"
    /\ HoldsLease(w)
    /\ Goto(w, "returned")
    /\ UNCHANGED <<tables, clock, client>>

\* succeed with evidence that does not match the reserved sources rolls back;
\* the handler then records the artifact as a failed candidate.
RejectEvidence(w) ==
    /\ worker[w].pc = "committing"
    /\ HoldsLease(w)
    /\ Goto(w, "auditing")
    /\ UNCHANGED <<tables, clock, client>>

\* GenerationTerminalRepository.fail_permanently, with the candidate artifact
\* when there is one.  An exception here leaves the handler.
FailPermanently(w) ==
    /\ worker[w].pc \in {"failing", "auditing"}
    /\ HoldsLease(w)
    /\ LET j == worker[w].job
           p == requests[j].project
       IN  IF Admissible(w, "failed")
           THEN /\ artifacts' = IF worker[w].pc = "auditing"
                                THEN artifacts \cup {Produced(w, FALSE)}
                                ELSE artifacts
                /\ project' = [project EXCEPT ![p] =
                                 Transitioned(@, "failed", clock[w])]
                /\ jobs' = [jobs EXCEPT ![j] = Finished(@, "failed", "Permanent")]
                /\ Goto(w, "returned")
           ELSE /\ worker' = [worker EXCEPT ![w] = IdleWorker]
                /\ UNCHANGED <<artifacts, project, jobs>>
    /\ UNCHANGED <<current, requests, reviews, clock, client>>

\* _lock_context finds the lease gone: LostLeaseError leaves the handler, the
\* worker logs it and polls again.
LoseLease(w) ==
    /\ worker[w].pc \in {"committing", "failing", "auditing"}
    /\ ~HoldsLease(w)
    /\ worker' = [worker EXCEPT ![w] = IdleWorker]
    /\ UNCHANGED <<tables, clock, client>>

\* Any other exception out of the handler: the job keeps its lease until it
\* expires.
Raise(w) ==
    /\ worker[w].pc \in HandlerSteps
    /\ worker' = [worker EXCEPT ![w] = IdleWorker]
    /\ UNCHANGED <<tables, clock, client>>

\* The handler returned: require_terminal, unless the heartbeat saw the lease
\* lost.
Return(w) ==
    /\ worker[w].pc = "returned"
    /\ worker' = [worker EXCEPT ![w] =
          IF worker[w].lost \/ jobs[worker[w].job].status \in {"succeeded", "failed"}
          THEN IdleWorker ELSE [@ EXCEPT !.pc = "breached"]]
    /\ UNCHANGED <<tables, clock, client>>

\* The process stops or is killed, at any point; its successor has a new id.
Crash(w) ==
    /\ worker[w].pc # "dead"
    /\ worker' = [worker EXCEPT ![w] = [IdleWorker EXCEPT !.pc = "dead"]]
    /\ UNCHANGED <<tables, clock, client>>

Tick(w) ==
    /\ clock[w] < MaxTime
    /\ clock' = [clock EXCEPT ![w] = @ + 1]
    /\ UNCHANGED <<tables, worker, client>>

-----------------------------------------------------------------------------
(* Review: GET /projects/{id}, then POST /projects/{id}/reviews            *)

\* ProjectRepository.get reads the row and, in a second statement, the
\* pointers: a commit may fall between the two.
ReadProject(c, p) ==
    /\ client[c].pc = "idle"
    /\ project[p].status = "review_required"
    /\ client' = [client EXCEPT ![c] =
          [IdleClient EXCEPT !.pc = "row", !.project = p,
                             !.revision = project[p].revision]]
    /\ UNCHANGED <<tables, worker, clock>>

ReadPointer(c) ==
    /\ client[c].pc = "row"
    /\ client' = [client EXCEPT ![c] =
          [@ EXCEPT !.pc = "viewed", !.seen = current[client[c].project]]]
    /\ UNCHANGED <<tables, worker, clock>>

Outcome(decision) == IF decision = "approve" THEN "approved" ELSE "failed"

\* The first transaction of the POST: read, compare the revision, compute the
\* new row.  A mismatch is a 409 and changes nothing.
CheckReview(c, decision, now) ==
    /\ client[c].pc = "viewed"
    /\ LET p == client[c].project
           ok == /\ project[p].revision = client[c].revision
                 /\ MayTransition(project[p], Outcome(decision), now)
       IN  client' = [client EXCEPT ![c] =
             IF ok THEN [@ EXCEPT !.pc = "checked", !.decision = decision,
                                  !.at = now]
                   ELSE IdleClient]
    /\ UNCHANGED <<tables, worker, clock>>

\* Mutation: the update is not conditional on the revision.
ReviewAppliesAnyRevision(c) ==
    project[client[c].project].status = "review_required"

ReviewApplies(c) ==
    /\ project[client[c].project].revision = client[c].revision
    /\ project[client[c].project].status = "review_required"

\* apply_review: the update is conditional on the revision and the status; the
\* review row is inserted with it.  No row updated is a 409.
ApplyReview(c) ==
    /\ client[c].pc = "checked"
    /\ LET p == client[c].project
           row == [status |-> Outcome(client[c].decision),
                   revision |-> client[c].revision + 1,
                   updatedAt |-> client[c].at,
                   failedStage |-> IF client[c].decision = "reject"
                                   THEN "generation" ELSE "none"]
       IN  IF ReviewApplies(c)
           THEN /\ project' = [project EXCEPT ![p] = row]
                /\ reviews' = reviews \cup
                     {[project |-> p, revision |-> row.revision,
                       seen |-> client[c].seen, decision |-> client[c].decision]}
           ELSE UNCHANGED <<project, reviews>>
    /\ client' = [client EXCEPT ![c] = IdleClient]
    /\ UNCHANGED <<current, jobs, requests, artifacts, worker, clock>>

-----------------------------------------------------------------------------
WorkerStep(w) ==
    \/ \E j \in DOMAIN jobs : Claim(w, j)
    \/ Sweep(w) \/ Heartbeat(w) \/ FailAttempt(w)
    \/ Generate(w) \/ Succeed(w) \/ RejectEvidence(w) \/ FailPermanently(w)
    \/ LoseLease(w) \/ Raise(w) \/ Return(w) \/ Crash(w) \/ Tick(w)

ClientStep(c) ==
    \/ \E p \in Projects : ReadProject(c, p)
    \/ ReadPointer(c)
    \/ \E decision \in {"approve", "reject"}, now \in Time :
          CheckReview(c, decision, now)
    \/ ApplyReview(c)

ApiStep ==
    \E p \in Projects, k \in Keys, s \in Specs, j \in JobIds, now \in Time :
        Reserve(p, k, s, j, now)

Next ==
    \/ ApiStep
    \/ \E w \in Workers : WorkerStep(w)
    \/ \E c \in Clients : ClientStep(c)

Spec == Init /\ [][Next]_vars

=============================================================================
