---------------------- MODULE GenerationOutcomeProofs ----------------------
(***************************************************************************)
(* What the generation lifecycle leaves behind: which version is current,  *)
(* what an approval is for, what a failed project recovers from and which  *)
(* projects are stranded.  OutcomeInv is inductive relative to the ledger  *)
(* of GenerationProofs and implies each of them.                           *)
(*                                                                         *)
(* The proof sorts the steps by what they do to the tables.  A step moves  *)
(* jobs only (JobsMove), settles one job together with its project         *)
(* (Settles), reserves (Reserve), decides a review (Decides) or leaves the *)
(* tables alone; each part of the invariant is then kept by each sort.     *)
(***************************************************************************)
EXTENDS GenerationProofs

-----------------------------------------------------------------------------
(* The sorts of steps                                                      *)

\* A job given up without a terminal transaction.
GivenUp(job) ==
    /\ job.status = "failed"
    /\ job.error \in {"LeaseExpired", "RetryableError"}
    /\ job.attempt = MaxAttempts

\* Claim, sweep, heartbeat and JobStore.fail: active jobs stay active or are
\* given up.
JobsMove ==
    /\ UNCHANGED <<project, current, requests, artifacts, reviews>>
    /\ DOMAIN jobs' = DOMAIN jobs
    /\ \A j \in DOMAIN jobs : jobs'[j] # jobs[j] =>
          Active(j) /\ (Active(j)' \/ GivenUp(jobs'[j]))

\* A terminal transaction ends job j, moves its project to the target and may
\* store what the job produced; a success becomes the current artifact.
Settles(j, target, at) ==
    LET p == requests[j].project
        status == IF target = "failed" THEN "failed" ELSE "succeeded"
        produced == [project |-> p, version |-> requests[j].version, job |-> j,
                     accepted |-> target # "failed"]
    IN  /\ target \in {"review_required", "failed"}
        /\ j \in DOMAIN jobs /\ Active(j)
        /\ at >= project[p].updatedAt
        /\ project[p].status = "generating"
        /\ project' = [project EXCEPT ![p] = Transitioned(@, target, at)]
        /\ DOMAIN jobs' = DOMAIN jobs
        /\ jobs'[j].status = status
        /\ status = "failed" => jobs'[j].error = "Permanent"
        /\ \A i \in DOMAIN jobs : i # j => jobs'[i] = jobs[i]
        /\ artifacts' \in {artifacts, artifacts \cup {produced}}
        /\ target # "failed" =>
              /\ produced \in artifacts'
              /\ current' = [current EXCEPT ![p] = requests[j].version]
        /\ target = "failed" => current' = current
        /\ UNCHANGED <<requests, reviews, client>>

\* A reservation adds one job and its request, of the next version.
Reserves(p, j) ==
    /\ p \in Projects
    /\ j \notin DOMAIN jobs
    /\ DOMAIN jobs' = DOMAIN jobs \cup {j}
    /\ DOMAIN requests' = DOMAIN requests \cup {j}
    /\ jobs'[j].status = "queued"
    /\ \A i \in DOMAIN jobs : jobs'[i] = jobs[i] /\ requests'[i] = requests[i]
    /\ requests'[j].project = p
    /\ \E latest \in Versions(p) \cup {0} :
          IsLatest(p, latest) /\ requests'[j].version = latest + 1
    /\ project[p].status \in {"draft", "failed"}
    /\ project'[p].status = "generating"
    /\ project'[p].revision = project[p].revision + 1
    /\ project'[p].updatedAt >= project[p].updatedAt
    /\ \A q \in Projects : q # p => project'[q] = project[q]
    /\ UNCHANGED <<current, artifacts, reviews, worker, client>>

\* A reviewer's decision moves a project out of review.
Decides(c) ==
    LET p == client[c].project
        row == [status |-> Outcome(client[c].decision),
                revision |-> project[p].revision + 1,
                updatedAt |-> client[c].at,
                failedStage |-> IF client[c].decision = "reject"
                                THEN "generation" ELSE "none"]
    IN  /\ client[c].pc = "checked"
        /\ ReviewApplies(c)
        /\ project' = [project EXCEPT ![p] = row]
        /\ reviews' = reviews \cup
              {[project |-> p, revision |-> row.revision,
                seen |-> client[c].seen, decision |-> client[c].decision]}
        /\ client' = [client EXCEPT ![c] = IdleClient]
        /\ UNCHANGED <<current, jobs, requests, artifacts, worker>>

-----------------------------------------------------------------------------
(* Every step is of one sort                                               *)

\* A step that leaves the tables alone moves no job.
LEMMA QuietMovesNothing ==
    ASSUME UNCHANGED tables
    PROVE  JobsMove
BY DEF JobsMove, tables

LEMMA SweepMovesJobs ==
    ASSUME TypeOK, NEW w \in Workers, Sweep(w)
    PROVE  JobsMove
<1>1. /\ DOMAIN jobs' = DOMAIN jobs
      /\ \A j \in DOMAIN jobs :
            jobs'[j] = IF Overdue(j, clock[w])
                       THEN Finished(jobs[j], "failed", "LeaseExpired") ELSE jobs[j]
  BY ClockType, SweptRows DEF Sweep
<1>2. ASSUME NEW j \in DOMAIN jobs, jobs'[j] # jobs[j]
      PROVE  Active(j) /\ GivenUp(jobs'[j])
  <2>1. Overdue(j, clock[w])
    BY <1>1, <1>2
  <2>2. jobs[j].attempt = MaxAttempts
    BY <2>1, RowTypes, ConstantsAssumption DEF Overdue, Job
  <2>3. QED
    BY <1>1, <2>1, <2>2 DEF Overdue, Active, GivenUp, Finished, Released
<1>3. QED
  BY <1>1, <1>2 DEF JobsMove, Sweep

LEMMA ClaimMovesJobs ==
    ASSUME TypeOK, NEW w \in Workers, NEW j \in DOMAIN jobs, Claim(w, j)
    PROVE  JobsMove
<1> DEFINE now == clock[w]
<1>1. /\ DOMAIN jobs' = DOMAIN jobs
      /\ jobs'[j] = Leased(jobs[j], w, now)
      /\ \A i \in DOMAIN jobs : i # j =>
            jobs'[i] = IF Overdue(i, now)
                       THEN Finished(jobs[i], "failed", "LeaseExpired") ELSE jobs[i]
  BY ClockType, SweptRows DEF Claim
<1>2. ASSUME NEW i \in DOMAIN jobs, jobs'[i] # jobs[i]
      PROVE  Active(i) /\ (Active(i)' \/ GivenUp(jobs'[i]))
  <2>1. CASE i = j
    BY <1>1, <2>1 DEF Claim, Claimable, Active, Leased
  <2>2. CASE i # j
    <3>1. Overdue(i, now)
      BY <1>1, <1>2, <2>2
    <3>2. jobs[i].attempt = MaxAttempts
      BY <3>1, RowTypes, ConstantsAssumption DEF Overdue, Job
    <3>3. QED
      BY <1>1, <2>2, <3>1, <3>2 DEF Overdue, Active, GivenUp, Finished, Released
  <2>3. QED
    BY <2>1, <2>2
<1>3. QED
  BY <1>1, <1>2 DEF JobsMove, Claim

LEMMA HeartbeatMovesJobs ==
    ASSUME TypeOK, NEW w \in Workers, Heartbeat(w)
    PROVE  JobsMove
<1>1. CASE HoldsLease(w)
  <2> DEFINE j == worker[w].job
  <2>1. /\ j \in DOMAIN jobs /\ jobs[j] \in Job /\ Active(j)
        /\ jobs' = [jobs EXCEPT ![j].expires = clock[w] + Lease]
    BY <1>1, RowTypes DEF Heartbeat, HoldsLease, Active
  <2>2. /\ DOMAIN jobs' = DOMAIN jobs
        /\ jobs'[j].status = jobs[j].status
        /\ \A i \in DOMAIN jobs : i # j => jobs'[i] = jobs[i]
    BY <2>1 DEF Job
  <2>3. QED
    BY <2>1, <2>2 DEF Heartbeat, Active, JobsMove
<1>2. CASE ~HoldsLease(w)
  BY <1>2 DEF Heartbeat, JobsMove
<1>3. QED
  BY <1>1, <1>2

\* No worker is in breach, so that JobStore.fail sees retryable errors only.
LEMMA FailAttemptMovesJobs ==
    ASSUME TypeOK, ReturnIsTerminal, NEW w \in Workers, FailAttempt(w)
    PROVE  JobsMove
<1>1. CASE ~HoldsLease(w)
  BY <1>1 DEF FailAttempt, JobsMove
<1>2. CASE HoldsLease(w)
  <2> DEFINE j == worker[w].job
  <2>1. /\ j \in DOMAIN jobs /\ Active(j) /\ jobs[j] \in Job
        /\ worker[w].pc = "retrying"
    BY <1>2, RowTypes DEF HoldsLease, Active, FailAttempt, ReturnIsTerminal
  <2>2. CASE jobs[j].attempt < MaxAttempts
    <3>1. jobs' = [jobs EXCEPT ![j] =
                     Released(@, "queued", "RetryableError", clock[w] + Poll)]
      BY <1>2, <2>1, <2>2 DEF FailAttempt
    <3>2. QED
      BY <2>1, <3>1 DEF FailAttempt, JobsMove, Active, Released
  <2>3. CASE ~(jobs[j].attempt < MaxAttempts)
    <3>1. jobs' = [jobs EXCEPT ![j] = Finished(@, "failed", "RetryableError")]
      BY <1>2, <2>1, <2>3 DEF FailAttempt
    <3>2. jobs[j].attempt = MaxAttempts
      BY <2>1, <2>3, ConstantsAssumption DEF Job
    <3>3. GivenUp(jobs'[j])
      BY <2>1, <3>1, <3>2 DEF GivenUp, Finished, Released
    <3>4. QED
      BY <2>1, <3>1, <3>3 DEF FailAttempt, JobsMove
  <2>4. QED
    BY <2>2, <2>3
<1>3. QED
  BY <1>1, <1>2

\* A terminal transaction is always admissible: LeaseAdmissible.
LEMMA SucceedSettles ==
    ASSUME TypeOK, Ledger, NEW w \in Workers, Succeed(w)
    PROVE  Settles(worker[w].job, "review_required", clock[w])
<1> DEFINE j == worker[w].job
<1>1. /\ HoldsLease(w) /\ j \in DOMAIN jobs /\ Active(j)
      /\ project[requests[j].project].status = "generating"
      /\ clock[w] >= project[requests[j].project].updatedAt
  BY LeaseAdmissible DEF Succeed, HoldsLease, Active, TerminalAdmissible,
                         Admissible, MayTransition
<1>2. Admissible(w, "review_required")
  BY <1>1, LeaseAdmissible DEF TerminalAdmissible
<1>3. /\ jobs' = [jobs EXCEPT ![j] = Finished(@, "succeeded", "none")]
      /\ artifacts' = artifacts \cup {Produced(w, TRUE)}
      /\ current' = [current EXCEPT ![requests[j].project] = requests[j].version]
      /\ project' = [project EXCEPT ![requests[j].project] =
                        Transitioned(@, "review_required", clock[w])]
      /\ UNCHANGED <<requests, reviews, client>>
  BY <1>2 DEF Succeed, PointTo
<1>4. QED
  BY <1>1, <1>3 DEF Settles, Produced, Finished, Released

LEMMA FailPermanentlySettles ==
    ASSUME TypeOK, Ledger, NEW w \in Workers, FailPermanently(w)
    PROVE  Settles(worker[w].job, "failed", clock[w])
<1> DEFINE j == worker[w].job
<1>1. /\ HoldsLease(w) /\ j \in DOMAIN jobs /\ Active(j)
      /\ project[requests[j].project].status = "generating"
      /\ clock[w] >= project[requests[j].project].updatedAt
  BY LeaseAdmissible DEF FailPermanently, HoldsLease, Active, TerminalAdmissible,
                         Admissible, MayTransition
<1>2. Admissible(w, "failed")
  BY <1>1, LeaseAdmissible DEF TerminalAdmissible
<1>3. /\ jobs' = [jobs EXCEPT ![j] = Finished(@, "failed", "Permanent")]
      /\ artifacts' \in {artifacts, artifacts \cup {Produced(w, FALSE)}}
      /\ project' = [project EXCEPT ![requests[j].project] =
                        Transitioned(@, "failed", clock[w])]
      /\ UNCHANGED <<current, requests, reviews, client>>
  BY <1>2 DEF FailPermanently
<1>4. QED
  BY <1>1, <1>3 DEF Settles, Produced, Finished, Released

LEMMA WorkerSorts ==
    ASSUME TypeOK, Ledger, ReturnIsTerminal, NEW w \in Workers, WorkerStep(w)
    PROVE  /\ UNCHANGED client
           /\ JobsMove \/ \E target : Settles(worker[w].job, target, clock[w])
<1>1. client' = client
  BY DEF WorkerStep, Claim, Sweep, Heartbeat, FailAttempt, Generate, Succeed,
         RejectEvidence, FailPermanently, LoseLease, Raise, Return, Crash, Tick
<1>2. ASSUME \/ Generate(w) \/ RejectEvidence(w) \/ LoseLease(w) \/ Raise(w)
             \/ Return(w) \/ Crash(w) \/ Tick(w)
      PROVE  UNCHANGED tables
  BY <1>2 DEF Generate, RejectEvidence, LoseLease, Raise, Return, Crash, Tick
<1>3. QED
  BY <1>1, <1>2, QuietMovesNothing, ClaimMovesJobs, SweepMovesJobs,
     HeartbeatMovesJobs, FailAttemptMovesJobs, SucceedSettles,
     FailPermanentlySettles DEF WorkerStep

LEMMA ClientSorts ==
    ASSUME NEW c \in Clients, ClientStep(c)
    PROVE  Decides(c) \/ UNCHANGED tables
<1>1. CASE ApplyReview(c) /\ ReviewApplies(c)
  BY <1>1 DEF ApplyReview, ReviewApplies, Decides
<1>2. CASE ApplyReview(c) /\ ~ReviewApplies(c)
  BY <1>2 DEF ApplyReview, tables
<1>3. QED
  BY <1>1, <1>2 DEF ClientStep, ReadProject, ReadPointer, CheckReview

-----------------------------------------------------------------------------
(* Requests, versions and the newest job                                   *)

LEMMA RequestRow ==
    ASSUME TypeOK, NEW p, NEW j \in RequestsOf(p)
    PROVE  /\ j \in DOMAIN jobs /\ j \in DOMAIN requests
           /\ requests[j].project = p
           /\ requests[j].version \in Nat
BY DEF RequestsOf, TypeOK, Request

\* Every version in use was reserved: artifacts only fill reservations.
LEMMA VersionsReserved ==
    ASSUME TypeOK, Ledger, NEW p
    PROVE  Versions(p) = {requests[j].version : j \in RequestsOf(p)}
<1>1. ASSUME NEW a \in artifacts, a.project = p
      PROVE  \E j \in RequestsOf(p) : requests[j].version = a.version
  <2>1. /\ a.job \in DOMAIN requests
        /\ requests[a.job].project = p
        /\ requests[a.job].version = a.version
    BY <1>1 DEF Ledger, ArtifactsMatchRequests, TypeOK
  <2>2. QED
    BY <2>1 DEF RequestsOf
<1>2. QED
  BY <1>1 DEF Versions

\* The maximum is unique.
LEMMA LatestUnique ==
    ASSUME TypeOK, NEW p \in Projects, NEW u, NEW v, IsLatest(p, u), IsLatest(p, v)
    PROVE  u = v /\ u \in Nat
<1>1. Versions(p) \subseteq Nat
  BY DEF Versions, RequestsOf, TypeOK, Request, Artifact
<1>2. QED
  BY <1>1 DEF IsLatest

\* Requests alone decide which job is the newest.
LEMMA RequestsFixed ==
    ASSUME UNCHANGED requests, NEW p
    PROVE  /\ RequestsOf(p)' = RequestsOf(p)
           /\ Newest(p)' = Newest(p)
BY DEF RequestsOf, Newest

\* The newest job has the greatest version in use.
LEMMA NewestIsLatest ==
    ASSUME TypeOK, Ledger, NEW p, NEW j \in Newest(p)
    PROVE  IsLatest(p, requests[j].version)
<1>1. j \in RequestsOf(p) /\ \A i \in RequestsOf(p) : requests[i].version <= requests[j].version
  BY DEF Newest
<1>2. QED
  BY <1>1, VersionsReserved DEF IsLatest

-----------------------------------------------------------------------------
(* Steps that move jobs only                                               *)

LEMMA MovedJob ==
    ASSUME JobsMove, NEW j \in DOMAIN jobs
    PROVE  /\ Active(j)' => Active(j)
           /\ ~Active(j) => jobs'[j] = jobs[j]
           /\ jobs'[j].status = "succeeded" <=> jobs[j].status = "succeeded"
           /\ jobs'[j] = jobs[j] \/ Active(j)' \/ GivenUp(jobs'[j])
BY DEF JobsMove, Active, GivenUp

LEMMA JobsMoveOutcomes ==
    ASSUME TypeOK, TableOutcomes, JobsMove
    PROVE  TableOutcomes'
<1>1. /\ UNCHANGED <<project, current, requests, artifacts, reviews>>
      /\ DOMAIN jobs' = DOMAIN jobs
  BY DEF JobsMove
<1>2. \A p : RequestsOf(p)' = RequestsOf(p) /\ Newest(p)' = Newest(p)
  BY <1>1, RequestsFixed
<1>3. \A p : RequestsOf(p) \subseteq DOMAIN jobs /\ Newest(p) \subseteq DOMAIN jobs
  BY RequestRow DEF Newest
<1>4. ActiveIsNewest'
  BY <1>1, <1>2, MovedJob DEF TableOutcomes, ActiveIsNewest
<1>5. LatestExists'
  BY <1>1, <1>2 DEF TableOutcomes, LatestExists, IsLatest, Versions
<1>6. ReviewHasSuccess'
  BY <1>1, <1>2, <1>3, MovedJob DEF TableOutcomes, ReviewHasSuccess
<1>7. CurrentIsNewestSuccess'
  <2>1. \A p : Delivered(p)' = Delivered(p)
    BY <1>1, <1>2, <1>3, MovedJob DEF Delivered
  <2>2. QED
    BY <1>1, <2>1 DEF TableOutcomes, CurrentIsNewestSuccess
<1>8. FailedIsRecoverable'
  <2>1. ASSUME NEW p \in Projects, project'[p].status = "failed"
        PROVE  RecoverableJobs(p, project[p].revision)' # {}
    <3>1. PICK j \in Newest(p) :
             \/ jobs[j].status = "failed"
             \/ /\ jobs[j].status = "succeeded"
                /\ \E r \in reviews : /\ r.project = p
                                      /\ r.decision = "reject"
                                      /\ r.revision = project[p].revision
      BY <1>1, <2>1 DEF TableOutcomes, FailedIsRecoverable, RecoverableJobs
    <3>2. jobs'[j] = jobs[j]
      BY <1>3, <3>1, MovedJob DEF Active
    <3>3. QED
      BY <1>1, <1>2, <3>1, <3>2 DEF RecoverableJobs
  <2>2. QED
    BY <2>1 DEF FailedIsRecoverable
<1>9. ApprovalPinsArtifact'
  BY <1>1 DEF TableOutcomes, ApprovalPinsArtifact
<1>10. StrandedOnlyByJobStore'
  <2>1. ASSUME NEW p \in Projects, project'[p].status = "generating",
               NEW j \in Newest(p)
        PROVE  Active(j)' \/ jobs'[j].error \in {"LeaseExpired", "RetryableError"}
    <3>1. Active(j) \/ jobs[j].error \in {"LeaseExpired", "RetryableError"}
      BY <1>1, <2>1 DEF TableOutcomes, StrandedOnlyByJobStore
    <3>2. j \in DOMAIN jobs
      BY <1>3
    <3>3. QED
      BY <3>1, <3>2, MovedJob DEF GivenUp, Active
  <2>2. QED
    BY <1>2, <2>1 DEF StrandedOnlyByJobStore
<1>11. RetriesUsedUp'
  BY <1>1, MovedJob DEF TableOutcomes, RetriesUsedUp, GivenUp, Active
<1>12. QED
  BY <1>4, <1>5, <1>6, <1>7, <1>8, <1>9, <1>10, <1>11 DEF TableOutcomes

-----------------------------------------------------------------------------
(* Terminal transactions                                                   *)

\* The job that ends was the only active one and the newest of its project.
LEMMA SettledRows ==
    ASSUME TypeOK, Ledger, TableOutcomes, NEW j, NEW target, NEW at,
           Settles(j, target, at), NEW p, p = requests[j].project
    PROVE  /\ j \in DOMAIN jobs /\ p \in Projects
           /\ j \in Newest(p)
           /\ project'[p].status = target
           /\ project'[p].revision = project[p].revision + 1
           /\ \A q \in Projects : q # p => project'[q] = project[q]
           /\ \A i \in DOMAIN jobs : i # j => jobs'[i] = jobs[i]
           /\ DOMAIN jobs' = DOMAIN jobs
           /\ ~Active(j)'
           /\ \A q : /\ RequestsOf(q)' = RequestsOf(q)
                     /\ Newest(q)' = Newest(q)
                     /\ RequestsOf(q) \subseteq DOMAIN jobs
                     /\ Newest(q) \subseteq RequestsOf(q)
<1>1. j \in DOMAIN jobs /\ Active(j) /\ p \in Projects
  BY RowTypes DEF Settles
<1>2. j \in Newest(p)
  BY <1>1 DEF TableOutcomes, ActiveIsNewest
<1>3. /\ project'[p].status = target
      /\ project'[p].revision = project[p].revision + 1
      /\ \A q \in Projects : q # p => project'[q] = project[q]
  BY <1>1 DEF Settles, Transitioned, TypeOK
<1>4. \A q : /\ RequestsOf(q)' = RequestsOf(q)
             /\ Newest(q)' = Newest(q)
             /\ RequestsOf(q) \subseteq DOMAIN jobs
             /\ Newest(q) \subseteq RequestsOf(q)
  BY RequestsFixed, RequestRow DEF Settles, Newest
<1>5. /\ \A i \in DOMAIN jobs : i # j => jobs'[i] = jobs[i]
      /\ DOMAIN jobs' = DOMAIN jobs
      /\ ~Active(j)'
  BY DEF Settles, Active
<1>6. QED
  BY <1>1, <1>2, <1>3, <1>4, <1>5

\* The current pointer follows a success and ignores a failure.
LEMMA SettledCurrent ==
    ASSUME TypeOK, Ledger, TableOutcomes, NEW j, NEW target, NEW at,
           Settles(j, target, at), NEW p, p = requests[j].project
    PROVE  CurrentIsNewestSuccess'
<1>1. /\ j \in DOMAIN jobs /\ j \in Newest(p) /\ p \in Projects
      /\ \A i \in DOMAIN jobs : i # j => jobs'[i] = jobs[i]
      /\ \A q : RequestsOf(q)' = RequestsOf(q) /\ RequestsOf(q) \subseteq DOMAIN jobs
      /\ Active(j)
      /\ UNCHANGED requests
  BY SettledRows DEF Settles
<1>2. artifacts \subseteq artifacts'
  BY DEF Settles
<1>3. ASSUME NEW q \in Projects,
             q # p \/ target = "failed"
      PROVE  /\ Delivered(q)' = Delivered(q)
             /\ current'[q] = current[q]
  <2>1. current'[q] = current[q]
    BY <1>1, <1>3 DEF Settles, TypeOK
  <2>2. \A i \in RequestsOf(q) :
           jobs'[i].status = "succeeded" <=> jobs[i].status = "succeeded"
    <3>1. CASE target = "failed"
      BY <1>1, <3>1 DEF Settles, Active
    <3>2. CASE q # p
      BY <1>1, <3>2, RequestRow
    <3>3. QED
      BY <1>3, <3>1, <3>2
  <2>3. QED
    BY <1>1, <2>1, <2>2 DEF Delivered
<1>4. ASSUME target # "failed"
      PROVE  /\ Delivered(p)' = Delivered(p) \cup {requests[j].version}
             /\ current'[p] = requests[j].version
             /\ \A v \in Delivered(p) : v <= requests[j].version
             /\ requests[j].version \in Nat
             /\ \E a \in artifacts' : /\ a.project = p
                                      /\ a.version = requests[j].version
                                      /\ a.accepted
  <2>1. j \in RequestsOf(p) /\ \A i \in RequestsOf(p) : requests[i].version <= requests[j].version
    BY <1>1 DEF Newest
  <2>2. jobs'[j].status = "succeeded"
    BY <1>4 DEF Settles
  <2>3. Delivered(p)' = Delivered(p) \cup {requests[j].version}
    BY <1>1, <2>1, <2>2 DEF Delivered
  <2>4. current'[p] = requests[j].version
    BY <1>1, <1>4 DEF Settles, TypeOK
  <2>5. \E a \in artifacts' : a.project = p /\ a.version = requests[j].version /\ a.accepted
    BY <1>4 DEF Settles
  <2>6. QED
    BY <2>1, <2>3, <2>4, <2>5, RequestRow DEF Delivered
<1>5. ASSUME NEW q \in Projects
      PROVE  /\ current'[q] \in Delivered(q)' \cup {0}
             /\ \A v \in Delivered(q)' : v <= current'[q]
             /\ current'[q] # 0 => \E a \in artifacts' : /\ a.project = q
                                                         /\ a.version = current'[q]
                                                         /\ a.accepted
  <2>1. CASE q # p \/ target = "failed"
    BY <1>2, <1>3, <2>1 DEF TableOutcomes, CurrentIsNewestSuccess
  <2>2. CASE q = p /\ target # "failed"
    <3>1. /\ Delivered(q)' = Delivered(q) \cup {current'[q]}
          /\ \A v \in Delivered(q) : v <= current'[q]
          /\ current'[q] \in Nat
          /\ \E a \in artifacts' : a.project = q /\ a.version = current'[q] /\ a.accepted
      BY <1>4, <2>2
    <3>2. current'[q] <= current'[q]
      BY <3>1
    <3>3. QED
      BY <3>1, <3>2
  <2>3. QED
    BY <2>1, <2>2
<1>6. QED
  BY <1>5 DEF CurrentIsNewestSuccess

\* The stored artifact fills the reserved version: no version is added.
LEMMA SettledVersions ==
    ASSUME TypeOK, Ledger, TableOutcomes, NEW j, NEW target, NEW at,
           Settles(j, target, at)
    PROVE  \A q \in Projects : Versions(q)' = Versions(q)
<1>1. PICK p \in Projects : p = requests[j].project
  BY RowTypes DEF Settles
<1>2. /\ artifacts \subseteq artifacts'
      /\ \A a \in artifacts' :
            a \in artifacts \/ (a.project = p /\ a.version = requests[j].version)
  BY <1>1 DEF Settles
<1>3. /\ j \in RequestsOf(p)
      /\ requests' = requests
      /\ \A q : RequestsOf(q)' = RequestsOf(q)
  BY <1>1, SettledRows DEF Settles
<1>4. ASSUME NEW q \in Projects
      PROVE  Versions(q)' = Versions(q)
  <2>1. ASSUME NEW a \in artifacts', a.project = q
        PROVE  \/ \E i \in RequestsOf(q) : a.version = requests[i].version
               \/ a \in artifacts
    BY <1>2, <1>3, <2>1
  <2>2. QED
    BY <1>2, <1>3, <2>1 DEF Versions
<1>5. QED
  BY <1>4

LEMMA SettlesOutcomes ==
    ASSUME TypeOK, Ledger, TableOutcomes, NEW j, NEW target, NEW at,
           Settles(j, target, at), NEW p, p = requests[j].project
    PROVE  TableOutcomes'
<1>1. /\ j \in DOMAIN jobs /\ j \in Newest(p) /\ p \in Projects
      /\ DOMAIN jobs' = DOMAIN jobs
      /\ \A i \in DOMAIN jobs : i # j => jobs'[i] = jobs[i]
      /\ \A q : /\ RequestsOf(q)' = RequestsOf(q)
                /\ Newest(q)' = Newest(q)
                /\ Newest(q) \subseteq RequestsOf(q)
                /\ RequestsOf(q) \subseteq DOMAIN jobs
      /\ ~Active(j)'
  BY SettledRows
<1>2. /\ UNCHANGED <<requests, reviews>>
      /\ target \in {"review_required", "failed"}
      /\ project[p].status = "generating"
      /\ project'[p].status = target
      /\ \A q \in Projects : q # p => project'[q] = project[q]
  <2>1. /\ UNCHANGED <<requests, reviews>>
        /\ target \in {"review_required", "failed"}
        /\ project[p].status = "generating"
    BY DEF Settles
  <2>2. QED
    BY <2>1, SettledRows
<1>3. ActiveIsNewest'
  <2>1. ASSUME NEW i \in DOMAIN jobs, Active(i)'
        PROVE  i \in Newest(requests[i].project)
    <3>1. i # j /\ jobs'[i] = jobs[i]
      BY <1>1, <2>1
    <3>2. Active(i)
      BY <2>1, <3>1 DEF Active
    <3>3. QED
      BY <3>2 DEF TableOutcomes, ActiveIsNewest
  <2>2. QED
    BY <1>1, <1>2, <2>1 DEF ActiveIsNewest
<1>4. LatestExists'
  BY SettledVersions DEF TableOutcomes, LatestExists, IsLatest
<1>5. \* In the other projects nothing changes.
      ASSUME NEW q \in Projects, q # p
      PROVE  /\ j \notin Newest(q)
             /\ \A i \in Newest(q) : jobs'[i] = jobs[i]
  BY <1>1, <1>5, RequestRow
<1>6. ReviewHasSuccess'
  <2>1. ASSUME NEW q \in Projects, project'[q].status = "review_required"
        PROVE  \E i \in Newest(q) : jobs'[i].status = "succeeded"
    <3>1. CASE q = p
      BY <1>1, <1>2, <2>1, <3>1 DEF Settles
    <3>2. CASE q # p
      BY <1>2, <1>5, <2>1, <3>2 DEF TableOutcomes, ReviewHasSuccess
    <3>3. QED
      BY <3>1, <3>2
  <2>2. QED
    BY <1>1, <2>1 DEF ReviewHasSuccess
<1>7. FailedIsRecoverable'
  <2>1. ASSUME NEW q \in Projects, project'[q].status = "failed"
        PROVE  \E i \in Newest(q) :
                  \/ jobs'[i].status = "failed"
                  \/ /\ jobs'[i].status = "succeeded"
                     /\ \E r \in reviews : /\ r.project = q
                                           /\ r.decision = "reject"
                                           /\ r.revision = project'[q].revision
    <3>1. CASE q = p
      BY <1>1, <1>2, <2>1, <3>1 DEF Settles
    <3>2. CASE q # p
      <4>1. project'[q] = project[q]
        BY <1>2, <3>2
      <4>2. RecoverableJobs(q, project[q].revision) # {}
        BY <2>1, <4>1 DEF TableOutcomes, FailedIsRecoverable
      <4>3. QED
        BY <1>5, <3>2, <4>1, <4>2 DEF RecoverableJobs
    <3>3. QED
      BY <3>1, <3>2
  <2>2. QED
    BY <1>1, <1>2, <2>1 DEF FailedIsRecoverable, RecoverableJobs
<1>8. ApprovalPinsArtifact'
  <2>1. ASSUME NEW q \in Projects, project'[q].status = "approved"
        PROVE  project'[q] = project[q] /\ current'[q] = current[q]
    <3>1. q # p
      BY <1>2, <2>1
    <3>2. QED
      BY <1>2, <3>1 DEF Settles, TypeOK
  <2>2. QED
    BY <1>2, <2>1 DEF TableOutcomes, ApprovalPinsArtifact
<1>9. StrandedOnlyByJobStore'
  <2>1. ASSUME NEW q \in Projects, project'[q].status = "generating"
        PROVE  q # p /\ project[q].status = "generating"
    BY <1>2, <2>1
  <2>2. QED
    BY <1>1, <1>5, <2>1 DEF TableOutcomes, StrandedOnlyByJobStore, Active
<1>10. RetriesUsedUp'
  <2>1. jobs'[j].status = "failed" => jobs'[j].error = "Permanent"
    BY DEF Settles
  <2>2. QED
    BY <1>1, <2>1 DEF TableOutcomes, RetriesUsedUp
<1>11. QED
  BY <1>3, <1>4, <1>6, <1>7, <1>8, <1>9, <1>10, SettledCurrent DEF TableOutcomes

-----------------------------------------------------------------------------
(* Reservations                                                            *)

\* The rows a reservation writes.
LEMMA ReserveSort ==
    ASSUME TypeOK, NEW p \in Projects, NEW k \in Keys, NEW s \in Specs,
           NEW j \in JobIds, NEW now \in Time, Reserve(p, k, s, j, now)
    PROVE  Reserves(p, j)
<1>1. /\ j \notin DOMAIN jobs /\ j \notin DOMAIN requests
      /\ DOMAIN requests = DOMAIN jobs
  BY DEF Reserve, TypeOK
<1>2. /\ DOMAIN jobs' = DOMAIN jobs \cup {j}
      /\ jobs'[j].status = "queued"
      /\ \A i \in DOMAIN jobs : jobs'[i] = jobs[i]
  BY <1>1 DEF Reserve, Upsert
<1>3. /\ DOMAIN requests' = DOMAIN requests \cup {j}
      /\ requests'[j].project = p
      /\ \A i \in DOMAIN jobs : requests'[i] = requests[i]
      /\ \E latest \in Versions(p) \cup {0} :
            IsLatest(p, latest) /\ requests'[j].version = latest + 1
  BY <1>1 DEF Reserve, Upsert
<1>4. /\ project[p].status \in {"draft", "failed"}
      /\ UNCHANGED <<current, artifacts, reviews, worker, client>>
  BY DEF Reserve, MayReserve
<1>5. /\ project'[p].status = "generating"
      /\ project'[p].revision = project[p].revision + 1
      /\ project'[p].updatedAt >= project[p].updatedAt
      /\ \A q \in Projects : q # p => project'[q] = project[q]
  BY DEF Reserve, Transitioned, MayTransition, TypeOK
<1>6. QED
  BY <1>1, <1>2, <1>3, <1>4, <1>5 DEF Reserves

\* The reserved job becomes the newest of its project; the other projects
\* keep theirs.
LEMMA ReservedNewest ==
    ASSUME TypeOK, NEW p, NEW j, Reserves(p, j)
    PROVE  /\ Newest(p)' = {j}
           /\ IsLatest(p, requests[j].version)'
           /\ \E latest \in Nat : /\ IsLatest(p, latest)
                                  /\ requests'[j].version = latest + 1
           /\ RequestsOf(p)' = RequestsOf(p) \cup {j}
           /\ \A q \in Projects : q # p =>
                 /\ RequestsOf(q)' = RequestsOf(q)
                 /\ Newest(q)' = Newest(q)
                 /\ Versions(q)' = Versions(q)
           /\ \A q \in Projects : RequestsOf(q) \subseteq DOMAIN jobs
<1>1. /\ j \notin DOMAIN jobs
      /\ DOMAIN requests = DOMAIN jobs
      /\ DOMAIN requests' = DOMAIN requests \cup {j}
      /\ \A i \in DOMAIN jobs : requests'[i] = requests[i]
      /\ requests'[j].project = p
      /\ artifacts' = artifacts
  BY DEF Reserves, TypeOK
<1>2. PICK latest \in Versions(p) \cup {0} :
         IsLatest(p, latest) /\ requests'[j].version = latest + 1
  BY DEF Reserves
<1>3. Versions(p) \subseteq Nat /\ latest \in Nat
  BY <1>2 DEF Versions, RequestsOf, TypeOK, Request, Artifact
<1>4. /\ RequestsOf(p)' = RequestsOf(p) \cup {j}
      /\ \A q \in Projects : q # p => RequestsOf(q)' = RequestsOf(q)
      /\ \A q \in Projects : RequestsOf(q) \subseteq DOMAIN jobs
  <2>1. ASSUME NEW q PROVE RequestsOf(q) \subseteq DOMAIN jobs
    BY <1>1 DEF RequestsOf
  <2>2. ASSUME NEW q, q # p PROVE RequestsOf(q)' = RequestsOf(q)
    BY <1>1, <2>2 DEF RequestsOf
  <2>3. RequestsOf(p)' = RequestsOf(p) \cup {j}
    BY <1>1 DEF RequestsOf
  <2>4. QED
    BY <2>1, <2>2, <2>3
<1>5. Versions(p)' = Versions(p) \cup {latest + 1}
  <2>1. \A i \in RequestsOf(p) : i # j /\ requests'[i] = requests[i]
    BY <1>1, <1>4 DEF Reserves
  <2>2. {requests'[i].version : i \in RequestsOf(p) \cup {j}}
           = {requests[i].version : i \in RequestsOf(p)} \cup {latest + 1}
    BY <1>2, <2>1
  <2>3. QED
    BY <1>1, <1>4, <2>2 DEF Versions
<1>6. \A v \in Versions(p) : v <= latest
  BY <1>2 DEF IsLatest
<1>7. IsLatest(p, requests[j].version)'
  BY <1>2, <1>3, <1>5, <1>6 DEF IsLatest
<1>8. Newest(p)' = {j}
  <2>1. \A i \in RequestsOf(p) : /\ requests[i].version \in Nat
                                 /\ requests[i].version <= latest
                                 /\ requests'[i] = requests[i]
                                 /\ i # j
    <3>1. p \in Projects
      BY DEF Reserves
    <3>2. \A i \in RequestsOf(p) : requests[i].version \in Versions(p)
      BY DEF Versions
    <3>3. QED
      BY <1>1, <1>3, <1>4, <1>6, <3>1, <3>2
  <2>2. \A i \in RequestsOf(p) \cup {j} : requests'[i].version <= requests'[j].version
    BY <1>2, <1>3, <2>1
  <2>3. \A i \in RequestsOf(p) : ~(requests'[j].version <= requests'[i].version)
    BY <1>2, <1>3, <2>1
  <2>4. QED
    BY <1>4, <2>2, <2>3 DEF Newest
<1>9. \A q \in Projects : q # p => Newest(q)' = Newest(q) /\ Versions(q)' = Versions(q)
  BY <1>1, <1>4 DEF Newest, Versions
<1>10. QED
  BY <1>2, <1>3, <1>4, <1>7, <1>8, <1>9

LEMMA ReserveOutcomes ==
    ASSUME TypeOK, Ledger, TableOutcomes, NEW p, NEW j, Reserves(p, j)
    PROVE  TableOutcomes'
<1>1. /\ j \notin DOMAIN jobs
      /\ DOMAIN jobs' = DOMAIN jobs \cup {j}
      /\ jobs'[j].status = "queued"
      /\ \A i \in DOMAIN jobs : jobs'[i] = jobs[i] /\ requests'[i] = requests[i]
      /\ requests'[j].project = p
  BY DEF Reserves
<1>2. /\ p \in Projects
      /\ project[p].status \in {"draft", "failed"}
      /\ project'[p].status = "generating"
      /\ \A q \in Projects : q # p => project'[q] = project[q]
      /\ UNCHANGED <<current, artifacts, reviews>>
  BY DEF Reserves
<1>3. /\ Newest(p)' = {j}
      /\ IsLatest(p, requests[j].version)'
      /\ RequestsOf(p)' = RequestsOf(p) \cup {j}
      /\ \A q \in Projects : q # p =>
            /\ RequestsOf(q)' = RequestsOf(q)
            /\ Newest(q)' = Newest(q)
            /\ Versions(q)' = Versions(q)
      /\ \A q \in Projects : RequestsOf(q) \subseteq DOMAIN jobs
  BY ReservedNewest
<1>4. \A q \in Projects : Newest(q) \subseteq DOMAIN jobs
  BY <1>3 DEF Newest
<1>5. ActiveIsNewest'
  <2>1. ASSUME NEW i \in DOMAIN jobs, Active(i)
        PROVE  requests[i].project \in Projects \ {p}
    BY <1>2, <2>1, RowTypes DEF Ledger, ActiveMatchesProject
  <2>2. ASSUME NEW i \in DOMAIN jobs, Active(i)'
        PROVE  i \in Newest(requests[i].project)'
    <3>1. Active(i) /\ requests'[i].project \in Projects \ {p}
      BY <1>1, <2>1, <2>2 DEF Active
    <3>2. i \in Newest(requests[i].project) /\ requests'[i].project = requests[i].project
      BY <1>1, <3>1 DEF TableOutcomes, ActiveIsNewest
    <3>3. QED
      BY <1>3, <3>1, <3>2
  <2>3. j \in Newest(requests[j].project)'
    BY <1>1, <1>3
  <2>4. QED
    BY <1>1, <2>2, <2>3 DEF ActiveIsNewest
<1>6. LatestExists'
  <2>1. ASSUME NEW q \in Projects, q # p
        PROVE  \E v \in Versions(q)' \cup {0} : IsLatest(q, v)'
    BY <1>3, <2>1 DEF TableOutcomes, LatestExists, IsLatest
  <2>2. \E v \in Versions(p)' \cup {0} : IsLatest(p, v)'
    BY <1>3 DEF IsLatest
  <2>3. QED
    BY <2>1, <2>2 DEF LatestExists
<1>7. ReviewHasSuccess'
  BY <1>1, <1>2, <1>3, <1>4 DEF TableOutcomes, ReviewHasSuccess
<1>8. CurrentIsNewestSuccess'
  <2>1. ASSUME NEW q \in Projects
        PROVE  Delivered(q)' = Delivered(q)
    <3>1. \A i \in RequestsOf(q) : jobs'[i] = jobs[i] /\ requests'[i] = requests[i]
      BY <1>1, <1>3
    <3>2. CASE q = p
      BY <1>1, <1>3, <3>1, <3>2 DEF Delivered
    <3>3. CASE q # p
      BY <1>3, <3>1, <3>3 DEF Delivered
    <3>4. QED
      BY <3>2, <3>3
  <2>2. QED
    BY <1>2, <2>1 DEF TableOutcomes, CurrentIsNewestSuccess
<1>9. FailedIsRecoverable'
  <2>1. ASSUME NEW q \in Projects, project'[q].status = "failed"
        PROVE  RecoverableJobs(q, project[q].revision)' # {}
    <3>1. q # p /\ project'[q] = project[q]
      BY <1>2, <2>1
    <3>2. RecoverableJobs(q, project[q].revision) # {}
      BY <2>1, <3>1 DEF TableOutcomes, FailedIsRecoverable
    <3>3. Newest(q)' = Newest(q) /\ \A i \in Newest(q) : jobs'[i] = jobs[i]
      BY <1>1, <1>3, <1>4, <3>1
    <3>4. QED
      BY <1>2, <3>1, <3>2, <3>3 DEF RecoverableJobs
  <2>2. QED
    BY <2>1 DEF FailedIsRecoverable
<1>10. ApprovalPinsArtifact'
  BY <1>2 DEF TableOutcomes, ApprovalPinsArtifact
<1>11. StrandedOnlyByJobStore'
  <2>1. ASSUME NEW q \in Projects, project'[q].status = "generating",
               NEW i \in Newest(q)'
        PROVE  Active(i)' \/ jobs'[i].error \in {"LeaseExpired", "RetryableError"}
    <3>1. CASE q = p
      BY <1>1, <1>3, <2>1, <3>1 DEF Active
    <3>2. CASE q # p
      BY <1>1, <1>2, <1>3, <1>4, <2>1, <3>2
         DEF TableOutcomes, StrandedOnlyByJobStore, Active
    <3>3. QED
      BY <3>1, <3>2
  <2>2. QED
    BY <2>1 DEF StrandedOnlyByJobStore
<1>12. RetriesUsedUp'
  BY <1>1 DEF TableOutcomes, RetriesUsedUp
<1>13. QED
  BY <1>5, <1>6, <1>7, <1>8, <1>9, <1>10, <1>11, <1>12 DEF TableOutcomes

-----------------------------------------------------------------------------
(* Decisions                                                               *)

\* A decision moves one project out of review, for what its reviewer saw.
LEMMA DecidesOutcomes ==
    ASSUME TypeOK, TableOutcomes, SessionsFit, NEW c \in Clients, Decides(c)
    PROVE  TableOutcomes'
<1>1. PICK p \in Projects : p = client[c].project
  BY DEF TypeOK, ClientState
<1>2. /\ project[p].status = "review_required"
      /\ project'[p].status = Outcome(client[c].decision)
      /\ project'[p].revision = project[p].revision + 1
      /\ \A q \in Projects : q # p => project'[q] = project[q]
  BY <1>1 DEF Decides, ReviewApplies, TypeOK
<1>3. UNCHANGED <<current, jobs, requests, artifacts>>
  BY DEF Decides
<1>4. \E r \in reviews' : /\ r.project = p
                          /\ r.decision = client[c].decision
                          /\ r.revision = project'[p].revision
                          /\ r.seen = client[c].seen
  <2>1. [project |-> client[c].project,
         revision |-> project[client[c].project].revision + 1,
         seen |-> client[c].seen, decision |-> client[c].decision] \in reviews'
    BY DEF Decides
  <2>2. QED
    BY <1>1, <1>2, <2>1
<1>5. reviews \subseteq reviews'
  BY DEF Decides
<1>6. client[c].seen = current[p]
  BY <1>1 DEF Decides, ReviewApplies, SessionsFit
<1>7. client[c].decision \in {"approve", "reject"}
  BY DEF TypeOK, ClientState
<1>8. \A q : RequestsOf(q)' = RequestsOf(q) /\ Newest(q)' = Newest(q)
  BY <1>3, RequestsFixed
<1>9. ActiveIsNewest' /\ RetriesUsedUp'
  BY <1>3, <1>8 DEF TableOutcomes, ActiveIsNewest, RetriesUsedUp, Active
<1>10. LatestExists' /\ CurrentIsNewestSuccess'
  BY <1>3, <1>8 DEF TableOutcomes, LatestExists, IsLatest, Versions,
                    CurrentIsNewestSuccess, Delivered
<1>11. ReviewHasSuccess' /\ StrandedOnlyByJobStore'
  BY <1>2, <1>3, <1>7, <1>8 DEF TableOutcomes, ReviewHasSuccess,
                                StrandedOnlyByJobStore, Active, Outcome
<1>12. FailedIsRecoverable'
  <2>1. ASSUME NEW q \in Projects, project'[q].status = "failed"
        PROVE  \E i \in Newest(q) :
                  \/ jobs[i].status = "failed"
                  \/ /\ jobs[i].status = "succeeded"
                     /\ \E r \in reviews' : /\ r.project = q
                                            /\ r.decision = "reject"
                                            /\ r.revision = project'[q].revision
    <3>1. CASE q = p
      <4>1. client[c].decision = "reject"
        BY <1>2, <1>7, <2>1, <3>1 DEF Outcome
      <4>2. PICK i \in Newest(p) : jobs[i].status = "succeeded"
        BY <1>2 DEF TableOutcomes, ReviewHasSuccess
      <4>3. QED
        BY <1>4, <3>1, <4>1, <4>2
    <3>2. CASE q # p
      <4>1. project'[q] = project[q]
        BY <1>2, <3>2
      <4>2. RecoverableJobs(q, project[q].revision) # {}
        BY <2>1, <4>1 DEF TableOutcomes, FailedIsRecoverable
      <4>3. QED
        BY <1>5, <4>1, <4>2 DEF RecoverableJobs
    <3>3. QED
      BY <3>1, <3>2
  <2>2. QED
    BY <1>3, <1>8, <2>1 DEF FailedIsRecoverable, RecoverableJobs
<1>13. ApprovalPinsArtifact'
  <2>1. ASSUME NEW q \in Projects, project'[q].status = "approved"
        PROVE  \E r \in reviews' : /\ r.project = q
                                   /\ r.decision = "approve"
                                   /\ r.revision = project'[q].revision
                                   /\ r.seen = current[q]
    <3>1. CASE q = p
      <4>1. client[c].decision = "approve"
        BY <1>2, <1>7, <2>1, <3>1 DEF Outcome
      <4>2. QED
        BY <1>4, <1>6, <3>1, <4>1
    <3>2. CASE q # p
      BY <1>2, <1>5, <2>1, <3>2 DEF TableOutcomes, ApprovalPinsArtifact
    <3>3. QED
      BY <3>1, <3>2
  <2>2. QED
    BY <1>3, <2>1 DEF ApprovalPinsArtifact
<1>14. QED
  BY <1>9, <1>10, <1>11, <1>12, <1>13 DEF TableOutcomes

-----------------------------------------------------------------------------
(* Project rows move forward                                               *)

\* What a step may do to a project and its pointer: nothing, or one revision
\* on and not back in time.
MovesForward(p) ==
    \/ project'[p] = project[p] /\ current'[p] = current[p]
    \/ /\ project'[p].revision = project[p].revision + 1
       /\ project'[p].updatedAt >= project[p].updatedAt

LEMMA SettlesForward ==
    ASSUME TypeOK, NEW j, NEW target, NEW at, Settles(j, target, at)
    PROVE  \A q \in Projects : MovesForward(q)
<1>1. PICK p \in Projects : p = requests[j].project
  BY RowTypes DEF Settles
<1>2. /\ project'[p].revision = project[p].revision + 1
      /\ project'[p].updatedAt = at /\ at >= project[p].updatedAt
      /\ \A q \in Projects : q # p => project'[q] = project[q]
  BY <1>1 DEF Settles, Transitioned, TypeOK
<1>3. \A q \in Projects : q # p => current'[q] = current[q]
  BY <1>1 DEF Settles, TypeOK
<1>4. QED
  BY <1>2, <1>3 DEF MovesForward

LEMMA ReservesForward ==
    ASSUME NEW p, NEW j, Reserves(p, j)
    PROVE  \A q \in Projects : MovesForward(q)
BY DEF Reserves, MovesForward

LEMMA DecidesForward ==
    ASSUME TypeOK, SessionsFit, NEW c \in Clients, Decides(c)
    PROVE  \A q \in Projects : MovesForward(q)
<1>1. PICK p \in Projects : p = client[c].project
  BY DEF TypeOK, ClientState
<1>2. client[c].at >= project[p].updatedAt
  BY <1>1 DEF Decides, ReviewApplies, SessionsFit
<1>3. /\ project'[p].revision = project[p].revision + 1
      /\ project'[p].updatedAt = client[c].at
      /\ current' = current
      /\ \A q \in Projects : q # p => project'[q] = project[q]
  BY <1>1 DEF Decides, TypeOK
<1>4. QED
  BY <1>2, <1>3 DEF MovesForward

\* Every step is of one sort.
LEMMA StepSorts ==
    ASSUME OutcomeInv, Next
    PROVE  \/ JobsMove
           \/ \E w \in Workers : \E target : Settles(worker[w].job, target, clock[w])
           \/ \E p, j : Reserves(p, j)
           \/ \E c \in Clients : Decides(c)
<1>1. TypeOK /\ Ledger /\ ReturnIsTerminal
  BY DEF OutcomeInv, IInv, Outcomes
<1>2. ASSUME NEW w \in Workers, WorkerStep(w)
      PROVE  JobsMove \/ \E target : Settles(worker[w].job, target, clock[w])
  BY <1>1, <1>2, WorkerSorts
<1>3. ASSUME NEW c \in Clients, ClientStep(c)
      PROVE  JobsMove \/ Decides(c)
  BY <1>3, ClientSorts, QuietMovesNothing
<1>4. ApiStep => \E p, j : Reserves(p, j)
  BY <1>1, ReserveSort DEF ApiStep
<1>5. QED
  BY <1>2, <1>3, <1>4 DEF Next

LEMMA StepMovesForward ==
    ASSUME OutcomeInv, Next
    PROVE  \A q \in Projects : MovesForward(q)
<1>1. TypeOK /\ SessionsFit
  BY DEF OutcomeInv, IInv, Outcomes
<1>2. CASE JobsMove
  BY <1>2 DEF JobsMove, MovesForward
<1>3. CASE \E w \in Workers : \E target : Settles(worker[w].job, target, clock[w])
  BY <1>1, <1>3, SettlesForward
<1>4. CASE \E p, j : Reserves(p, j)
  BY <1>4, ReservesForward
<1>5. CASE \E c \in Clients : Decides(c)
  BY <1>1, <1>5, DecidesForward
<1>6. QED
  BY <1>2, <1>3, <1>4, <1>5, StepSorts

LEMMA StepOutcomes ==
    ASSUME OutcomeInv, Next
    PROVE  TableOutcomes'
<1>1. TypeOK /\ Ledger /\ TableOutcomes /\ SessionsFit
  BY DEF OutcomeInv, IInv, Outcomes
<1>2. CASE JobsMove
  BY <1>1, <1>2, JobsMoveOutcomes
<1>3. ASSUME NEW w \in Workers, NEW target, Settles(worker[w].job, target, clock[w])
      PROVE  TableOutcomes'
  <2>1. PICK j, p : j = worker[w].job /\ p = requests[j].project
    OBVIOUS
  <2>2. PICK at : at = clock[w]
    OBVIOUS
  <2>3. Settles(j, target, at)
    BY <1>3, <2>1, <2>2
  <2>4. QED
    BY <1>1, <2>1, <2>3, SettlesOutcomes
<1>4. CASE \E p, j : Reserves(p, j)
  BY <1>1, <1>4, ReserveOutcomes
<1>5. CASE \E c \in Clients : Decides(c)
  BY <1>1, <1>5, DecidesOutcomes
<1>6. QED
  BY <1>2, <1>3, <1>4, <1>5, StepSorts

-----------------------------------------------------------------------------
(* Sessions                                                                *)

\* Whatever the others do, a session that does not move stays fit: its
\* project did not move either, or is past the revision the session read.
LEMMA SessionStays ==
    ASSUME TypeOK, SessionsFit, \A q \in Projects : MovesForward(q),
           NEW c \in Clients, client'[c] = client[c], client[c].pc # "idle",
           NEW p, p = client[c].project
    PROVE  /\ client'[c].revision <= project'[p].revision
           /\ client'[c].revision = project'[p].revision =>
                 /\ client'[c].pc \in {"viewed", "checked"} =>
                       client'[c].seen = current'[p]
                 /\ client'[c].pc = "checked" =>
                       client'[c].at >= project'[p].updatedAt
<1>1. /\ p \in Projects
      /\ client[c].revision \in Nat
      /\ project[p].revision \in Nat
  BY DEF TypeOK, ClientState, Project
<1>2. client[c].revision <= project[p].revision
  BY DEF SessionsFit
<1>3. CASE project'[p] = project[p] /\ current'[p] = current[p]
  BY <1>3 DEF SessionsFit
<1>4. CASE project'[p].revision = project[p].revision + 1
  BY <1>1, <1>2, <1>4
<1>5. QED
  BY <1>1, <1>3, <1>4 DEF MovesForward

\* The steps of session c itself.
LEMMA SessionMoves ==
    ASSUME TypeOK, SessionsFit, NEW c \in Clients, ClientStep(c),
           client'[c].pc # "idle", NEW p, p = client'[c].project
    PROVE  /\ client'[c].revision <= project'[p].revision
           /\ client'[c].revision = project'[p].revision =>
                 /\ client'[c].pc \in {"viewed", "checked"} =>
                       client'[c].seen = current'[p]
                 /\ client'[c].pc = "checked" =>
                       client'[c].at >= project'[p].updatedAt
<1>1. ASSUME NEW q \in Projects, ReadProject(c, q)
      PROVE  /\ p = q /\ client'[c].pc = "row"
             /\ client'[c].revision = project[q].revision
             /\ project'[q] = project[q] /\ project[q].revision \in Nat
  BY <1>1 DEF ReadProject, tables, IdleClient, TypeOK, Project
<1>2. CASE ReadPointer(c)
  <2>1. /\ client'[c].pc = "viewed"
        /\ client'[c].project = client[c].project
        /\ client'[c].revision = client[c].revision
        /\ client'[c].seen = current[client[c].project]
        /\ UNCHANGED <<project, current>>
        /\ client[c].pc # "idle"
    BY <1>2 DEF ReadPointer, tables, TypeOK, ClientState
  <2>2. QED
    BY <2>1 DEF SessionsFit
<1>3. ASSUME NEW decision \in {"approve", "reject"}, NEW now \in Time,
             CheckReview(c, decision, now)
      PROVE  /\ client'[c].pc = "checked"
             /\ client'[c].project = client[c].project
             /\ client'[c].revision = client[c].revision
             /\ client'[c].seen = client[c].seen
             /\ client'[c].at >= project[p].updatedAt
             /\ UNCHANGED <<project, current>>
             /\ client[c].pc = "viewed"
  <2>1. client'[c] = [client[c] EXCEPT !.pc = "checked", !.decision = decision,
                                       !.at = now]
        /\ now >= project[client[c].project].updatedAt
    <3>1. client' = [client EXCEPT ![c] =
                       [@ EXCEPT !.pc = "checked", !.decision = decision, !.at = now]]
          /\ MayTransition(project[client[c].project], Outcome(decision), now)
      <4>1. client'[c] # IdleClient
        BY DEF IdleClient
      <4>2. QED
        BY <1>3, <4>1 DEF CheckReview, TypeOK
    <3>2. QED
      BY <3>1 DEF MayTransition, TypeOK
  <2>2. /\ client'[c].pc = "checked"
        /\ client'[c].project = client[c].project
        /\ client'[c].revision = client[c].revision
        /\ client'[c].seen = client[c].seen
        /\ client'[c].at = now
    BY <2>1 DEF TypeOK, ClientState
  <2>3. UNCHANGED <<project, current>> /\ client[c].pc = "viewed"
    BY <1>3 DEF CheckReview, tables
  <2>4. QED
    BY <2>1, <2>2, <2>3
<1>4. ~ApplyReview(c)
  BY DEF ApplyReview, TypeOK, IdleClient
<1>5. CASE \E q \in Projects : ReadProject(c, q)
  BY <1>1, <1>5
<1>6. CASE \E decision \in {"approve", "reject"}, now \in Time :
              CheckReview(c, decision, now)
  BY <1>3, <1>6 DEF SessionsFit
<1>7. QED
  BY <1>2, <1>4, <1>5, <1>6 DEF ClientStep

LEMMA StepSessions ==
    ASSUME OutcomeInv, Next
    PROVE  SessionsFit'
<1>1. TypeOK /\ SessionsFit /\ \A q \in Projects : MovesForward(q)
  BY StepMovesForward DEF OutcomeInv, IInv, Outcomes
<1>2. ASSUME NEW c \in Clients, client'[c] # client[c]
      PROVE  ClientStep(c)
  <2>1. \A w \in Workers : WorkerStep(w) => client' = client
    BY DEF WorkerStep, Claim, Sweep, Heartbeat, FailAttempt, Generate, Succeed,
           RejectEvidence, FailPermanently, LoseLease, Raise, Return, Crash, Tick
  <2>2. ApiStep => client' = client
    BY DEF ApiStep, Reserve
  <2>3. \A d \in Clients : ClientStep(d) /\ d # c => client'[c] = client[c]
    BY <1>1 DEF ClientStep, ReadProject, ReadPointer, CheckReview, ApplyReview, TypeOK
  <2>4. QED
    BY <1>2, <2>1, <2>2, <2>3 DEF Next
<1>3. ASSUME NEW c \in Clients, client'[c].pc # "idle",
             NEW p, p = client'[c].project
      PROVE  /\ client'[c].revision <= project'[p].revision
             /\ client'[c].revision = project'[p].revision =>
                   /\ client'[c].pc \in {"viewed", "checked"} =>
                         client'[c].seen = current'[p]
                   /\ client'[c].pc = "checked" =>
                         client'[c].at >= project'[p].updatedAt
  BY <1>1, <1>2, <1>3, SessionStays, SessionMoves
<1>4. QED
  BY <1>3 DEF SessionsFit

-----------------------------------------------------------------------------
(* Workers                                                                 *)

\* A worker that is busy has a job, and returns only when it is over.
WorkerFits(w) ==
    /\ worker[w].pc # "breached"
    /\ worker[w].pc = "returned" =>
          jobs[worker[w].job].status \in {"succeeded", "failed"}
    /\ worker[w].pc \notin {"polling", "dead"} => worker[w].job \in DOMAIN jobs

\* Jobs that are over stay over, and none is deleted.
LEMMA WorkerStaysFit ==
    ASSUME HistoryKept, DOMAIN jobs \subseteq DOMAIN jobs',
           NEW w \in Workers, WorkerFits(w),
           worker'[w].job = worker[w].job,
           worker'[w].pc # "breached",
           worker[w].pc \notin {"polling", "dead"} \/ worker'[w] = worker[w],
           worker'[w].pc = "returned" => worker[w].pc = "returned"
    PROVE  WorkerFits(w)'
BY DEF WorkerFits, HistoryKept, Active

LEMMA WorkerMovesFit ==
    ASSUME TypeOK, NEW w \in Workers, WorkerStep(w), WorkerFits(w),
           HistoryKept, DOMAIN jobs' = DOMAIN jobs
    PROVE  WorkerFits(w)'
<1>1. worker[w] \in WorkerState
  BY DEF TypeOK
<1>2. ASSUME worker'[w] = IdleWorker \/ worker'[w] = [IdleWorker EXCEPT !.pc = "dead"]
      PROVE  WorkerFits(w)'
  BY <1>2 DEF IdleWorker, WorkerFits
<1>3. ASSUME NEW j \in DOMAIN jobs, Claim(w, j) PROVE WorkerFits(w)'
  BY <1>3 DEF Claim, WorkerFits, TypeOK
<1>4. ASSUME UNCHANGED worker PROVE WorkerFits(w)'
  BY <1>4, WorkerStaysFit DEF WorkerFits
<1>5. ASSUME NEW pc \in HandlerSteps \cup {"retrying"}, Goto(w, pc),
             worker[w].pc \in HandlerSteps
      PROVE  WorkerFits(w)'
  BY <1>1, <1>5, WorkerStaysFit DEF Goto, TypeOK, WorkerState, HandlerSteps
<1>6. CASE Heartbeat(w)
  <2>1. CASE HoldsLease(w)
    BY <1>4, <1>6, <2>1 DEF Heartbeat
  <2>2. CASE ~HoldsLease(w)
    <3>1. worker'[w] = [worker[w] EXCEPT !.lost = TRUE]
      BY <1>6, <2>2 DEF Heartbeat, TypeOK
    <3>2. /\ worker'[w].job = worker[w].job /\ worker'[w].pc = worker[w].pc
          /\ worker[w].pc \notin {"polling", "dead"}
      BY <1>1, <1>6, <3>1 DEF WorkerState, Heartbeat
    <3>3. QED
      BY <3>2, WorkerStaysFit DEF WorkerFits
  <2>3. QED
    BY <2>1, <2>2
<1>7. CASE Succeed(w)
  <2>1. CASE Admissible(w, "review_required")
    <3>1. /\ worker'[w].pc = "returned"
          /\ worker'[w].job = worker[w].job
          /\ worker[w].job \in DOMAIN jobs
          /\ jobs'[worker[w].job].status = "succeeded"
      BY <1>1, <1>7, <2>1 DEF Succeed, Goto, HoldsLease, Finished, Released,
                              TypeOK, WorkerState
    <3>2. QED
      BY <3>1 DEF WorkerFits
  <2>2. CASE ~Admissible(w, "review_required")
    BY <1>5, <1>7, <2>2 DEF Succeed, HandlerSteps
  <2>3. QED
    BY <2>1, <2>2
<1>8. CASE FailPermanently(w)
  <2>1. CASE Admissible(w, "failed")
    <3>1. /\ worker'[w].pc = "returned"
          /\ worker'[w].job = worker[w].job
          /\ worker[w].job \in DOMAIN jobs
          /\ jobs'[worker[w].job].status = "failed"
      BY <1>1, <1>8, <2>1 DEF FailPermanently, Goto, HoldsLease, Finished,
                              Released, TypeOK, WorkerState
    <3>2. QED
      BY <3>1 DEF WorkerFits
  <2>2. CASE ~Admissible(w, "failed")
    BY <1>2, <1>8, <2>2 DEF FailPermanently, TypeOK
  <2>3. QED
    BY <2>1, <2>2
<1>9. CASE Return(w)
  BY <1>2, <1>9 DEF Return, WorkerFits, TypeOK
<1>10. CASE FailAttempt(w) \/ LoseLease(w) \/ Raise(w) \/ Crash(w)
  BY <1>2, <1>10 DEF FailAttempt, LoseLease, Raise, Crash, TypeOK
<1>11. CASE Generate(w) \/ RejectEvidence(w)
  BY <1>5, <1>11 DEF Generate, RejectEvidence, HandlerSteps
<1>12. CASE Sweep(w) \/ Tick(w)
  BY <1>4, <1>12 DEF Sweep, Tick
<1>13. QED
  BY <1>3, <1>6, <1>7, <1>8, <1>9, <1>10, <1>11, <1>12 DEF WorkerStep

LEMMA StepWorkers ==
    ASSUME OutcomeInv, Next
    PROVE  ReturnIsTerminal' /\ BusyHasJob'
<1>1. /\ TypeOK /\ Ledger /\ ReturnIsTerminal
      /\ \A w \in Workers : WorkerFits(w)
  BY DEF OutcomeInv, IInv, Outcomes, ReturnIsTerminal, BusyHasJob, WorkerFits
<1>2. HistoryKept
  BY <1>1, StepKeepsHistory
<1>3. ASSUME NEW v \in Workers
      PROVE  WorkerFits(v)'
  <2>1. CASE \E w \in Workers : WorkerStep(w)
    <3>1. PICK w \in Workers : WorkerStep(w)
      BY <2>1
    <3>2. DOMAIN jobs' = DOMAIN jobs
      <4>1. \/ JobsMove
            \/ \E target : Settles(worker[w].job, target, clock[w])
        BY <1>1, <3>1, WorkerSorts
      <4>2. QED
        BY <4>1 DEF JobsMove, Settles
    <3>3. v # w => worker'[v] = worker[v]
      BY <1>1, <3>1
         DEF WorkerStep, Claim, Sweep, Heartbeat, FailAttempt, Generate, Succeed,
             RejectEvidence, FailPermanently, LoseLease, Raise, Return, Crash,
             Tick, Goto, TypeOK
    <3>4. CASE v # w
      BY <1>1, <1>2, <3>2, <3>3, <3>4, WorkerStaysFit DEF WorkerFits
    <3>5. CASE v = w
      BY <1>1, <1>2, <3>1, <3>2, <3>5, WorkerMovesFit
    <3>6. QED
      BY <3>4, <3>5
  <2>2. CASE ApiStep \/ \E c \in Clients : ClientStep(c)
    <3>1. worker' = worker
      BY <2>2 DEF ApiStep, Reserve, ClientStep, ReadProject, ReadPointer,
                  CheckReview, ApplyReview
    <3>2. DOMAIN jobs \subseteq DOMAIN jobs'
      BY <2>2 DEF ApiStep, Reserve, Upsert, ClientStep, ReadProject, ReadPointer,
                  CheckReview, ApplyReview, tables
    <3>3. QED
      BY <1>1, <1>2, <3>1, <3>2, WorkerStaysFit DEF WorkerFits
  <2>3. QED
    BY <2>1, <2>2 DEF Next
<1>4. QED
  BY <1>3 DEF ReturnIsTerminal, BusyHasJob, WorkerFits

-----------------------------------------------------------------------------
(* OutcomeInv is inductive                                                 *)

LEMMA InitOutcomes == Init => Outcomes
<1>1. SUFFICES ASSUME Init PROVE Outcomes
  OBVIOUS
<1>2. \A p : RequestsOf(p) = {} /\ Versions(p) = {} /\ Delivered(p) = {}
  BY <1>1 DEF Init, RequestsOf, Versions, Delivered
<1>3. TableOutcomes
  BY <1>1, <1>2
     DEF Init, TableOutcomes, ActiveIsNewest, LatestExists, IsLatest,
         ReviewHasSuccess, CurrentIsNewestSuccess, FailedIsRecoverable,
         ApprovalPinsArtifact, StrandedOnlyByJobStore, RetriesUsedUp
<1>4. ReturnIsTerminal /\ BusyHasJob /\ SessionsFit
  BY <1>1 DEF Init, IdleWorker, IdleClient, ReturnIsTerminal, BusyHasJob, SessionsFit
<1>5. QED
  BY <1>3, <1>4 DEF Outcomes

LEMMA NextOutcomes == OutcomeInv /\ [Next]_vars => OutcomeInv'
<1>1. SUFFICES ASSUME OutcomeInv, [Next]_vars PROVE OutcomeInv'
  OBVIOUS
<1>2. IInv'
  BY <1>1, NextLedger DEF OutcomeInv
<1>3. CASE Next
  BY <1>1, <1>2, <1>3, StepOutcomes, StepWorkers, StepSessions DEF OutcomeInv, Outcomes
<1>4. CASE UNCHANGED vars
  <2>1. UNCHANGED tables /\ UNCHANGED <<worker, client>>
    BY <1>4 DEF vars
  <2>2. TableOutcomes'
    BY <1>1, <2>1, QuietMovesNothing, JobsMoveOutcomes DEF OutcomeInv, IInv, Outcomes
  <2>3. ReturnIsTerminal' /\ BusyHasJob' /\ SessionsFit'
    BY <1>1, <2>1 DEF OutcomeInv, Outcomes, ReturnIsTerminal, BusyHasJob,
                      SessionsFit, tables
  <2>4. QED
    BY <1>2, <2>2, <2>3 DEF OutcomeInv, Outcomes
<1>5. QED
  BY <1>1, <1>3, <1>4

\* The outcomes of every history of the lifecycle are as described.
THEOREM OutcomesKept == Spec => []OutcomeInv
<1>1. Init => OutcomeInv
  BY InitType, InitLedger, InitOutcomes DEF OutcomeInv, IInv
<1>2. OutcomeInv /\ [Next]_vars => OutcomeInv'
  BY NextOutcomes
<1>3. QED
  BY <1>1, <1>2, PTL DEF Spec

-----------------------------------------------------------------------------
(* The safety properties                                                   *)

\* The pointer of project_current_artifacts is the accepted artifact of the
\* newest job that succeeded, whatever failed, retried or was rejected since.
THEOREM PointerIsNewest == Spec => []CurrentIsNewestSuccess
<1>1. OutcomeInv => CurrentIsNewestSuccess
  BY DEF OutcomeInv, Outcomes, TableOutcomes
<1>2. QED
  BY <1>1, OutcomesKept, PTL

\* Although GET /projects reads the row and the pointers in two statements and
\* POST /reviews writes in a second transaction, an approved version is the one
\* its reviewer saw.
THEOREM ApprovalIsPinned == Spec => []ApprovalPinsArtifact
<1>1. OutcomeInv => ApprovalPinsArtifact
  BY DEF OutcomeInv, Outcomes, TableOutcomes
<1>2. QED
  BY <1>1, OutcomesKept, PTL

\* recoverable_generation_job_id finds a job for every failed project.
THEOREM FailureOffersRecovery == Spec => []FailedIsRecoverable
<1>1. OutcomeInv => FailedIsRecoverable
  BY DEF OutcomeInv, Outcomes, TableOutcomes
<1>2. QED
  BY <1>1, OutcomesKept, PTL

\* Only the sweep of JobStore.claim and JobStore.fail leave a project
\* generating without an active job.
THEOREM OnlyJobStoreStrands == Spec => []StrandedOnlyByJobStore
<1>1. OutcomeInv => StrandedOnlyByJobStore
  BY DEF OutcomeInv, Outcomes, TableOutcomes
<1>2. QED
  BY <1>1, OutcomesKept, PTL

\* No job is given up while it has an attempt left, except by a terminal
\* transaction of its handler.
THEOREM AllAttemptsUsed == Spec => []RetriesUsedUp
<1>1. OutcomeInv => RetriesUsedUp
  BY DEF OutcomeInv, Outcomes, TableOutcomes
<1>2. QED
  BY <1>1, OutcomesKept, PTL

\* require_terminal never raises: a handler that returns has committed.
THEOREM ReturnsAreTerminal == Spec => []ReturnIsTerminal
<1>1. OutcomeInv => ReturnIsTerminal
  BY DEF OutcomeInv, Outcomes
<1>2. QED
  BY <1>1, OutcomesKept, PTL

\* Every write of a project row is one revision on and not back in time: no
\* update of a worker, a reviewer or the API is lost.
THEOREM RowsMoveForward == Spec => ProjectMovesForward
<1>1. OutcomeInv /\ [Next]_vars =>
        \/ \A p \in Projects : project'[p] # project[p] =>
              /\ project'[p].revision = project[p].revision + 1
              /\ project'[p].updatedAt >= project[p].updatedAt
        \/ UNCHANGED vars
  BY StepMovesForward DEF MovesForward
<1>2. QED
  BY <1>1, OutcomesKept, PTL DEF Spec, ProjectMovesForward

\* What LiveLeaseNotTaken says of one step.
LeaseKept ==
    \A w \in Workers, j \in DOMAIN jobs :
        /\ jobs[j].status = "running"
        /\ jobs[j].owner = w
        /\ \A v \in Workers : clock[v] < jobs[j].expires
        /\ jobs'[j].owner # w
        => worker'[w] # worker[w]

\* A lease that no clock shows as expired is neither swept nor claimable, and
\* every other write of a job row is by its owner, who leaves its handler.
LEMMA StepKeepsLease ==
    ASSUME TypeOK, Next
    PROVE  LeaseKept
<1>1. SUFFICES ASSUME NEW w \in Workers, NEW j \in DOMAIN jobs,
                      jobs[j].status = "running", jobs[j].owner = w,
                      \A v \in Workers : clock[v] < jobs[j].expires,
                      jobs'[j].owner # w
               PROVE  worker'[w] # worker[w]
  BY DEF LeaseKept
<1>2. \A v \in Workers : ~(jobs[j].expires <= clock[v])
  BY <1>1, RowTypes, ClockType DEF Job
<1>3. worker[w] \in WorkerState
  BY DEF TypeOK
<1>4. ASSUME NEW v \in Workers, NEW i \in DOMAIN jobs, Claim(v, i) \/ Sweep(v)
      PROVE  FALSE
  <2>1. Swept(clock[v])[j] = jobs[j]
    BY <1>2, ClockType, SweptRows DEF Overdue
  <2>2. CASE Claim(v, i)
    <3>1. i # j
      BY <1>1, <1>2, <2>2 DEF Claim, Claimable
    <3>2. QED
      BY <1>1, <2>1, <2>2, <3>1 DEF Claim
  <2>3. CASE Sweep(v)
    BY <1>1, <2>1, <2>3 DEF Sweep
  <2>4. QED
    BY <1>4, <2>2, <2>3
<1>5. ASSUME NEW v \in Workers, Heartbeat(v)
      PROVE  FALSE
  <2>1. CASE HoldsLease(v)
    <3>1. jobs' = [jobs EXCEPT ![worker[v].job] =
                     [jobs[worker[v].job] EXCEPT !.expires = clock[v] + Lease]]
      BY <1>5, <2>1 DEF Heartbeat
    <3>2. jobs'[j].owner = jobs[j].owner
      BY <3>1, RowTypes DEF Job
    <3>3. QED
      BY <1>1, <3>2
  <2>2. CASE ~HoldsLease(v)
    BY <1>1, <1>5, <2>2 DEF Heartbeat
  <2>3. QED
    BY <2>1, <2>2
<1>6. \* The remaining writes are of the writer's own job.
      ASSUME NEW v \in Workers, FailAttempt(v) \/ Succeed(v) \/ FailPermanently(v)
      PROVE  v = w /\ HoldsLease(w)
  <2>1. HoldsLease(v) /\ worker[v].job = j
    BY <1>1, <1>6 DEF FailAttempt, Succeed, FailPermanently, HoldsLease
  <2>2. QED
    BY <1>1, <2>1 DEF HoldsLease
<1>7. ASSUME FailAttempt(w) PROVE worker'[w].pc = "polling" /\ worker[w].pc # "polling"
  BY <1>7 DEF FailAttempt, IdleWorker, TypeOK
<1>8. ASSUME Succeed(w) PROVE worker'[w].pc # worker[w].pc
  BY <1>3, <1>8 DEF Succeed, Goto, TypeOK, WorkerState
<1>9. ASSUME FailPermanently(w) PROVE worker'[w].pc # worker[w].pc
  <2>1. CASE Admissible(w, "failed")
    <3>1. worker' = [worker EXCEPT ![w] = [worker[w] EXCEPT !.pc = "returned"]]
      BY <1>9, <2>1 DEF FailPermanently, Goto
    <3>2. QED
      BY <1>3, <1>9, <3>1 DEF FailPermanently, TypeOK, WorkerState
  <2>2. CASE ~Admissible(w, "failed")
    BY <1>9, <2>2 DEF FailPermanently, IdleWorker, TypeOK
  <2>3. QED
    BY <2>1, <2>2
<1>10. ASSUME NEW v \in Workers, WorkerStep(v)
       PROVE  worker'[w] # worker[w]
  <2>1. ASSUME \/ Generate(v) \/ RejectEvidence(v) \/ LoseLease(v) \/ Raise(v)
               \/ Return(v) \/ Crash(v) \/ Tick(v)
        PROVE  FALSE
    BY <1>1, <2>1 DEF Generate, RejectEvidence, LoseLease, Raise, Return, Crash,
                      Tick, tables
  <2>2. QED
    BY <1>4, <1>5, <1>6, <1>7, <1>8, <1>9, <1>10, <2>1 DEF WorkerStep
<1>11. ~ApiStep
  BY <1>1 DEF ApiStep, Reserve, Upsert
<1>12. ASSUME NEW c \in Clients, ClientStep(c) PROVE FALSE
  BY <1>1, <1>12 DEF ClientStep, ReadProject, ReadPointer, CheckReview,
                     ApplyReview, tables
<1>13. QED
  BY <1>10, <1>11, <1>12 DEF Next

\* While every clock shows a lease as live, only its owner can end it.
THEOREM LiveLeaseStays == Spec => LiveLeaseNotTaken
<1>1. TypeOK /\ [Next]_vars => LeaseKept \/ UNCHANGED vars
  BY StepKeepsLease
<1>2. QED
  BY <1>1, TypeCorrect, PTL DEF Spec, LiveLeaseNotTaken, LeaseKept

=============================================================================
