----------------------- MODULE GenerationProperties -----------------------
(***************************************************************************)
(* What the generation lifecycle guarantees: the invariants and action     *)
(* properties that the runs check and the proof modules prove.             *)
(***************************************************************************)
EXTENDS Generation

\* Every table, process and session holds values of its type.
TypeOK ==
    /\ project \in [Projects -> Project]
    /\ current \in [Projects -> Nat]
    /\ DOMAIN jobs \subseteq JobIds
    /\ jobs \in [DOMAIN jobs -> Job]
    /\ DOMAIN requests = DOMAIN jobs
    /\ requests \in [DOMAIN requests -> Request]
    /\ artifacts \subseteq Artifact
    /\ reviews \subseteq Review
    /\ worker \in [Workers -> WorkerState]
    /\ clock \in [Workers -> Time]
    /\ client \in [Clients -> ClientState]

Active(j) == jobs[j].status \in {"queued", "running"}

\* The newest reservation of a project: the one of the greatest version.
Newest(p) == {j \in RequestsOf(p) :
                 \A i \in RequestsOf(p) : requests[i].version <= requests[j].version}

\* The versions whose jobs succeeded.
Delivered(p) ==
    {requests[j].version : j \in {i \in RequestsOf(p) : jobs[i].status = "succeeded"}}

\* Mutation: only failed jobs are recoverable, a rejected review is not.
RecoverableFailedJobs(p, revision) ==
    {j \in Newest(p) : jobs[j].status = "failed"}

\* JobStore.recoverable_generation_job_id at a project revision.
RecoverableJobs(p, revision) ==
    {j \in Newest(p) :
        \/ jobs[j].status = "failed"
        \/ /\ jobs[j].status = "succeeded"
           /\ \E r \in reviews : /\ r.project = p
                                 /\ r.decision = "reject"
                                 /\ r.revision = revision}

-----------------------------------------------------------------------------
(* Invariants                                                              *)

\* A worker that holds the live lease of its job can always finish it: the
\* project is still generating at the reserved revision, the worker's clock is
\* not behind the project row, and nobody has stored the reserved version.  So
\* InvalidStateTransition and a primary-key violation, which would leave the
\* job running until its attempts are used up, cannot come out of succeed or
\* fail_permanently.
TerminalAdmissible ==
    \A w \in Workers : HoldsLease(w) =>
        /\ Admissible(w, "review_required")
        /\ Admissible(w, "failed")
        /\ \A a \in artifacts :
              ~ /\ a.project = requests[worker[w].job].project
                /\ a.version = requests[worker[w].job].version

\* Two jobs of one project are never queued or running together, however
\* often requests, failures, rejections and reclaims follow one another.
SingleActiveJob ==
    \A i, j \in DOMAIN jobs :
        Active(i) /\ Active(j) /\ requests[i].project = requests[j].project => i = j

\* Every reservation of a project has a version and a revision of its own, a
\* key identifies one reservation, and an artifact row fills exactly the
\* version its job reserved: no row of generation_requests or artifacts can
\* violate a unique constraint.
ReservationsDistinct ==
    /\ \A i, j \in DOMAIN requests :
          i # j /\ requests[i].project = requests[j].project =>
              /\ requests[i].key # requests[j].key
              /\ requests[i].version # requests[j].version
              /\ requests[i].revision # requests[j].revision
    /\ \A a, b \in artifacts :
          a.project = b.project /\ a.version = b.version => a = b

\* The current pointer is the artifact of the newest job that succeeded: never
\* a failed candidate, never an older delivery, never a dangling version.
CurrentIsNewestSuccess ==
    \A p \in Projects :
        /\ current[p] \in Delivered(p) \cup {0}
        /\ \A v \in Delivered(p) : v <= current[p]
        /\ current[p] # 0 => \E a \in artifacts : /\ a.project = p
                                                  /\ a.version = current[p]
                                                  /\ a.accepted

\* An approval is for the version its reviewer looked at, although the row and
\* the pointer were read by two statements and the decision is applied later.
ApprovalPinsArtifact ==
    \A p \in Projects : project[p].status = "approved" =>
        \E r \in reviews : /\ r.project = p
                           /\ r.decision = "approve"
                           /\ r.revision = project[p].revision
                           /\ r.seen = current[p]

\* A project that failed in generation always offers a job to recover from.
FailedIsRecoverable ==
    \A p \in Projects :
        project[p].status = "failed" => RecoverableJobs(p, project[p].revision) # {}

\* A generating project without an active job was left behind by one of the
\* two statements that fail a job alone: the sweep of claim and JobStore.fail.
\* No terminal transaction, review or reservation does it.
StrandedOnlyByJobStore ==
    \A p \in Projects : project[p].status = "generating" =>
        \A j \in Newest(p) :
            Active(j) \/ jobs[j].error \in {"LeaseExpired", "RetryableError"}

\* A job is given up for an expired lease or a retryable error only when all
\* its attempts are used.
RetriesUsedUp ==
    \A j \in DOMAIN jobs :
        jobs[j].status = "failed" /\ jobs[j].error # "Permanent" =>
            jobs[j].attempt = MaxAttempts

\* The handler returns normally only after a terminal transaction, whatever
\* other workers did to the job: require_terminal never finds a breach.
ReturnIsTerminal ==
    \A w \in Workers :
        /\ worker[w].pc # "breached"
        /\ worker[w].pc = "returned" =>
              jobs[worker[w].job].status \in {"succeeded", "failed"}

\* ADR-006: a generating project has a queued or running generation job.
GeneratingHasActiveJob ==
    \A p \in Projects : project[p].status = "generating" =>
        \E j \in RequestsOf(p) : Active(j)

-----------------------------------------------------------------------------
(* Why the invariants hold: the inductive invariants of GenerationProofs   *)
(* (IInv) and GenerationOutcomeProofs (OutcomeInv)                         *)

\* A queued or running job belongs to a project that is still generating at
\* the revision the reservation wrote.
ActiveMatchesProject ==
    \A j \in DOMAIN jobs : Active(j) =>
        /\ project[requests[j].project].status = "generating"
        /\ project[requests[j].project].revision = requests[j].revision

\* Whoever may claim, extend or finish a job has a clock at or past the time
\* of its project row: the job is not available, and its lease does not
\* expire, before that time.
ActiveAfterProject ==
    \A j \in DOMAIN jobs : Active(j) =>
        LET since == project[requests[j].project].updatedAt
        IN  /\ since <= jobs[j].availableAt
            /\ jobs[j].status = "running" =>
                  /\ jobs[j].owner \in Workers
                  /\ since <= clock[jobs[j].owner]
                  /\ since <= jobs[j].expires

\* The revision a request reserved has been written to its project.
RevisionsReached ==
    \A j \in DOMAIN requests :
        requests[j].revision <= project[requests[j].project].revision

\* An artifact fills the version its job reserved, and that job is over.
ArtifactsMatchRequests ==
    \A a \in artifacts :
        /\ a.job \in DOMAIN jobs
        /\ ~Active(a.job)
        /\ a.project = requests[a.job].project
        /\ a.version = requests[a.job].version

Ledger == /\ ActiveMatchesProject
          /\ ActiveAfterProject
          /\ RevisionsReached
          /\ ReservationsDistinct
          /\ ArtifactsMatchRequests

IInv == TypeOK /\ Ledger

\* A queued or running job is the newest one of its project.
ActiveIsNewest ==
    \A j \in DOMAIN jobs : Active(j) => j \in Newest(requests[j].project)

\* The next version can always be drawn: the versions in use have a maximum.
LatestExists ==
    \A p \in Projects : \E v \in Versions(p) \cup {0} : IsLatest(p, v)

\* What is in review was delivered by the newest job.
ReviewHasSuccess ==
    \A p \in Projects : project[p].status = "review_required" =>
        \E j \in Newest(p) : jobs[j].status = "succeeded"

\* A worker that is neither polling nor dead works on a job of the table.
BusyHasJob ==
    \A w \in Workers :
        worker[w].pc \notin {"polling", "dead"} => worker[w].job \in DOMAIN jobs

\* A session knows no revision before it is written.  As long as its project
\* has the revision it read, what it saw is still current, and the time of its
\* decision is not behind the row.
SessionsFit ==
    \A c \in Clients : client[c].pc # "idle" =>
        LET p == client[c].project
        IN  /\ client[c].revision <= project[p].revision
            /\ client[c].revision = project[p].revision =>
                  /\ client[c].pc \in {"viewed", "checked"} =>
                        client[c].seen = current[p]
                  /\ client[c].pc = "checked" =>
                        client[c].at >= project[p].updatedAt

TableOutcomes == /\ ActiveIsNewest
                 /\ LatestExists
                 /\ ReviewHasSuccess
                 /\ CurrentIsNewestSuccess
                 /\ FailedIsRecoverable
                 /\ ApprovalPinsArtifact
                 /\ StrandedOnlyByJobStore
                 /\ RetriesUsedUp

Outcomes == TableOutcomes /\ ReturnIsTerminal /\ BusyHasJob /\ SessionsFit

OutcomeInv == IInv /\ Outcomes

-----------------------------------------------------------------------------
(* Action properties                                                       *)

\* A job that succeeded or failed never changes again, and its request, the
\* artifacts and the reviews are only ever added to: late heartbeats, late
\* failures and late commits of workers that lost the lease change nothing.
HistoryIsFinal ==
    [][ /\ \A j \in DOMAIN jobs : ~Active(j) => jobs'[j] = jobs[j]
        /\ \A j \in DOMAIN requests : requests'[j] = requests[j]
        /\ artifacts \subseteq artifacts'
        /\ reviews \subseteq reviews' ]_vars

\* Nobody but its owner ends a lease that every worker's clock still shows as
\* live: a stale worker can neither requeue, finish nor take over the job.
LiveLeaseNotTaken ==
    [][ \A w \in Workers, j \in DOMAIN jobs :
          /\ jobs[j].status = "running"
          /\ jobs[j].owner = w
          /\ \A v \in Workers : clock[v] < jobs[j].expires
          /\ jobs'[j].owner # w
          => worker'[w] # worker[w] ]_vars

\* A project row is never overwritten by an older one: each change moves its
\* revision by exactly one and its time not backwards.
ProjectMovesForward ==
    [][ \A p \in Projects : project'[p] # project[p] =>
          /\ project'[p].revision = project[p].revision + 1
          /\ project'[p].updatedAt >= project[p].updatedAt ]_vars

-----------------------------------------------------------------------------
(* The lifecycle that the tables implement                                 *)

\* The version last reserved for a project, 0 when there is none.
LatestVersion(p) == CHOOSE v \in Versions(p) \cup {0} : IsLatest(p, v)

\* How the newest job of a project stands, and the revisions of its rejections.
StandingOf(j) == IF Active(j) THEN "active" ELSE jobs[j].status

JobOf(p) ==
    IF RequestsOf(p) = {} THEN "none"
    ELSE StandingOf(CHOOSE j \in Newest(p) : TRUE)

Rejections(p) ==
    {r.revision : r \in {x \in reviews : x.project = p /\ x.decision = "reject"}}

Lifecycle == INSTANCE ProjectLifecycle WITH
    stage <- [p \in Projects |-> project[p].status],
    revision <- [p \in Projects |-> project[p].revision],
    asked <- [p \in Projects |-> LatestVersion(p)],
    delivered <- current,
    job <- [p \in Projects |-> JobOf(p)],
    rejected <- [p \in Projects |-> Rejections(p)]

\* JobStore.recoverable_generation_job_id finds a job exactly when the newest
\* request may be taken up again, at whatever revision it is asked.
OffersWhatIsRecoverable ==
    \A p \in Projects : \A atRevision \in 0..project[p].revision :
        Lifecycle!Recoverable(p, atRevision) <=> RecoverableJobs(p, atRevision) # {}

\* Jobs, leases, retries, crashes and concurrent reviews are invisible in the
\* projects: each request is answered at most once and by its own version, in
\* the order of ProjectLifecycle.
ImplementsLifecycle == Lifecycle!Spec

\* A job row as the queue sees it: a lease has lapsed, and a job is available,
\* as soon as one worker's clock says so.
Ready(j) == \E v \in Workers : clock[v] >= jobs[j].availableAt

Lapsed(j) == /\ jobs[j].status = "running"
             /\ \E v \in Workers : clock[v] >= jobs[j].expires

QueueRow(j) ==
    [kind |-> "known", status |-> jobs[j].status, attempt |-> jobs[j].attempt,
     ready |-> Ready(j), owner |-> jobs[j].owner, lapsed |-> Lapsed(j)]

QueueRows == [j \in DOMAIN jobs |-> QueueRow(j)]

\* The queue does not see the steps of the handler.
InQueue(state) ==
    [state EXCEPT !.pc = IF state.pc \in HandlerSteps THEN "handling" ELSE state.pc]

QueueWorkers == [w \in Workers |-> InQueue(worker[w])]

Queue == INSTANCE JobQueue WITH jobs <- QueueRows, worker <- QueueWorkers

\* With clocks and the fact-card handler in place of the abstract ones, workers
\* do to a job row only what the job queue allows.
ImplementsJobQueue == Queue!Spec

=============================================================================
