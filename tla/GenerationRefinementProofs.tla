--------------------- MODULE GenerationRefinementProofs ---------------------
(***************************************************************************)
(* The tables of the generation lifecycle implement two abstract           *)
(* specifications: ProjectLifecycle, what a project promises to people,    *)
(* and JobQueue, what workers may do to a job row.  Every step of the      *)
(* detailed specification is a step of the abstract one or changes nothing *)
(* that it sees.                                                           *)
(***************************************************************************)
EXTENDS GenerationOutcomeProofs

-----------------------------------------------------------------------------
(* The latest version                                                      *)

\* LatestVersion is the maximum: it exists, and there is no other.
LEMMA LatestIs ==
    ASSUME TypeOK, LatestExists, NEW p \in Projects, NEW v, IsLatest(p, v)
    PROVE  LatestVersion(p) = v
<1>1. IsLatest(p, LatestVersion(p))
  BY DEF LatestExists, LatestVersion
<1>2. QED
  BY <1>1, LatestUnique

\* The same after a step.
LEMMA LatestBecomes ==
    ASSUME TypeOK', LatestExists', NEW p \in Projects, NEW v, IsLatest(p, v)'
    PROVE  LatestVersion(p)' = v
<1>1. IsLatest(p, LatestVersion(p))'
  BY DEF LatestExists, LatestVersion
<1>2. Versions(p)' \subseteq Nat
  BY DEF Versions, RequestsOf, TypeOK, Request, Artifact
<1>3. QED
  BY <1>1, <1>2 DEF IsLatest

LEMMA LatestStays ==
    ASSUME TypeOK, TypeOK', LatestExists, LatestExists', NEW p \in Projects,
           Versions(p)' = Versions(p)
    PROVE  LatestVersion(p)' = LatestVersion(p)
<1>1. PICK v : IsLatest(p, v)
  BY DEF LatestExists
<1>2. IsLatest(p, v)'
  BY <1>1 DEF IsLatest
<1>3. QED
  BY <1>1, <1>2, LatestIs, LatestBecomes

-----------------------------------------------------------------------------
(* The newest job and the rejections                                       *)

\* Two newest jobs would have the same version.
LEMMA NewestUnique ==
    ASSUME TypeOK, Ledger, NEW p, NEW i \in Newest(p), NEW j \in Newest(p)
    PROVE  i = j
<1>1. /\ i \in RequestsOf(p) /\ j \in RequestsOf(p)
      /\ requests[i].version <= requests[j].version
      /\ requests[j].version <= requests[i].version
  BY DEF Newest
<1>2. /\ i \in DOMAIN requests /\ j \in DOMAIN requests
      /\ requests[i].project = requests[j].project
      /\ requests[i].version = requests[j].version
  BY <1>1, RequestRow
<1>3. QED
  BY <1>2 DEF Ledger, ReservationsDistinct

\* A project with a request has a newest one.
LEMMA NewestExists ==
    ASSUME TypeOK, Ledger, LatestExists, NEW p \in Projects, RequestsOf(p) # {}
    PROVE  \E j : j \in Newest(p)
<1>1. PICK v : IsLatest(p, v)
  BY DEF LatestExists
<1>2. \A j \in RequestsOf(p) : /\ requests[j].version \in Versions(p)
                               /\ requests[j].version <= v
                               /\ requests[j].version # 0
  <2>1. ASSUME NEW j \in RequestsOf(p)
        PROVE  requests[j].version \in Versions(p) /\ requests[j].version # 0
    BY DEF RequestsOf, Versions, TypeOK, Request
  <2>2. QED
    BY <1>1, <2>1 DEF IsLatest
<1>3. v # 0
  <2>1. PICK j : j \in RequestsOf(p)
    OBVIOUS
  <2>2. requests[j].version \in Nat \ {0} /\ requests[j].version <= v
    BY <1>2, <2>1, RequestRow
  <2>3. QED
    BY <2>2
<1>4. PICK j \in RequestsOf(p) : requests[j].version = v
  BY <1>1, <1>3, VersionsReserved DEF IsLatest
<1>5. QED
  BY <1>2, <1>4 DEF Newest

\* JobOf is how the newest job stands, before and after a step.
LEMMA JobIs ==
    ASSUME TypeOK, Ledger, NEW p, NEW j \in Newest(p)
    PROVE  JobOf(p) = StandingOf(j)
<1>1. PICK i \in Newest(p) : i = CHOOSE k \in Newest(p) : TRUE
  OBVIOUS
<1>2. i = j /\ RequestsOf(p) # {}
  BY NewestUnique DEF Newest
<1>3. QED
  BY <1>1, <1>2 DEF JobOf

LEMMA JobBecomes ==
    ASSUME TypeOK', Ledger', NEW p, NEW j \in Newest(p)'
    PROVE  JobOf(p)' = StandingOf(j)'
<1>1. PICK i \in Newest(p)' : i = CHOOSE k \in Newest(p)' : TRUE
  OBVIOUS
<1>2. /\ requests'[i].version <= requests'[j].version
      /\ requests'[j].version <= requests'[i].version
      /\ i \in RequestsOf(p)' /\ j \in RequestsOf(p)'
  BY DEF Newest
<1>3. /\ i \in DOMAIN requests' /\ j \in DOMAIN requests'
      /\ requests'[i].project = requests'[j].project
      /\ requests'[i].version \in Nat /\ requests'[j].version \in Nat
  BY <1>2 DEF RequestsOf, TypeOK, Request
<1>4. i = j
  BY <1>2, <1>3 DEF Ledger, ReservationsDistinct
<1>5. QED
  BY <1>1, <1>2, <1>4 DEF JobOf

\* The newest job of a project is left as it is.
LEMMA JobStays ==
    ASSUME TypeOK, Ledger, LatestExists, TypeOK', Ledger', NEW p \in Projects,
           RequestsOf(p)' = RequestsOf(p), Newest(p)' = Newest(p),
           \A j \in Newest(p) : jobs'[j] = jobs[j]
    PROVE  JobOf(p)' = JobOf(p)
<1>1. CASE RequestsOf(p) = {}
  BY <1>1 DEF JobOf
<1>2. CASE RequestsOf(p) # {}
  <2>1. PICK j : j \in Newest(p)
    BY <1>2, NewestExists
  <2>2. JobOf(p) = StandingOf(j) /\ JobOf(p)' = StandingOf(j)'
    BY <2>1, JobIs, JobBecomes
  <2>3. QED
    BY <2>1, <2>2 DEF StandingOf, Active
<1>3. QED
  BY <1>1, <1>2

LEMMA RejectionsStay ==
    ASSUME reviews' = reviews, NEW p
    PROVE  Rejections(p)' = Rejections(p)
BY DEF Rejections

-----------------------------------------------------------------------------
(* The lifecycle of a project                                              *)

LEMMA InitLifecycle == Init => Lifecycle!Init
<1>1. SUFFICES ASSUME Init PROVE Lifecycle!Init
  OBVIOUS
<1>2. TypeOK /\ LatestExists
  BY <1>1, InitType, InitOutcomes DEF Outcomes, TableOutcomes
<1>3. \A p \in Projects : LatestVersion(p) = 0
  <2>1. \A p \in Projects : IsLatest(p, 0)
    BY <1>1 DEF Init, IsLatest, Versions, RequestsOf
  <2>2. QED
    BY <1>2, <2>1, LatestIs
<1>4. \A p \in Projects : JobOf(p) = "none" /\ Rejections(p) = {}
  BY <1>1 DEF Init, JobOf, RequestsOf, Rejections
<1>5. QED
  BY <1>1, <1>3, <1>4 DEF Init, Lifecycle!Init

\* What people see of the steps that move jobs only: the work on some requests
\* may have ended.
LEMMA JobsMoveShows ==
    ASSUME OutcomeInv, OutcomeInv', JobsMove, NEW p \in Projects
    PROVE  /\ LatestVersion(p)' = LatestVersion(p)
           /\ Rejections(p)' = Rejections(p)
           /\ \/ JobOf(p)' = JobOf(p)
              \/ JobOf(p) = "active" /\ JobOf(p)' = "failed"
<1>1. /\ TypeOK /\ Ledger /\ LatestExists /\ TypeOK' /\ Ledger' /\ LatestExists'
  BY DEF OutcomeInv, IInv, Outcomes, TableOutcomes
<1>2. UNCHANGED <<project, current, requests, artifacts, reviews>>
  BY DEF JobsMove
<1>3. LatestVersion(p)' = LatestVersion(p)
  BY <1>1, <1>2, LatestStays DEF Versions, RequestsOf
<1>4. Rejections(p)' = Rejections(p)
  BY <1>2, RejectionsStay
<1>5. RequestsOf(p)' = RequestsOf(p) /\ Newest(p)' = Newest(p)
  BY <1>2, RequestsFixed
<1>6. CASE \A j \in Newest(p) : jobs'[j] = jobs[j]
  <2>1. JobOf(p)' = JobOf(p)
    BY <1>1, <1>5, <1>6, JobStays
  <2>2. QED
    BY <1>3, <1>4, <2>1
<1>7. CASE ~\A j \in Newest(p) : jobs'[j] = jobs[j]
  <2>1. PICK j \in Newest(p) : jobs'[j] # jobs[j]
    BY <1>7
  <2>2. j \in DOMAIN jobs
    BY <1>1, RequestRow DEF Newest
  <2>3. Active(j) /\ (Active(j)' \/ GivenUp(jobs'[j]))
    BY <2>1, <2>2 DEF JobsMove
  <2>4. JobOf(p) = StandingOf(j) /\ JobOf(p)' = StandingOf(j)'
    BY <1>1, <1>5, JobIs, JobBecomes
  <2>5. JobOf(p) = "active" /\ JobOf(p)' \in {"active", "failed"}
    BY <2>3, <2>4 DEF StandingOf, GivenUp
  <2>6. QED
    BY <1>3, <1>4, <2>5
<1>8. QED
  BY <1>6, <1>7

\* A claim, a sweep, a heartbeat or JobStore.fail strands some projects, or
\* nobody notices.
LEMMA JobsMoveStrands ==
    ASSUME OutcomeInv, OutcomeInv', JobsMove
    PROVE  Lifecycle!Next \/ UNCHANGED Lifecycle!vars
<1>1. UNCHANGED <<project, current>>
  BY DEF JobsMove
<1>2. PICK stranded \in SUBSET Projects :
          stranded = {p \in Projects : JobOf(p) = "active" /\ JobOf(p)' = "failed"}
  OBVIOUS
<1>3. \A p \in Projects : /\ LatestVersion(p)' = LatestVersion(p)
                          /\ Rejections(p)' = Rejections(p)
                          /\ p \notin stranded => JobOf(p)' = JobOf(p)
                          /\ p \in stranded => JobOf(p) = "active" /\ JobOf(p)' = "failed"
  BY <1>2, JobsMoveShows
<1>4. CASE stranded = {}
  BY <1>1, <1>3, <1>4 DEF Lifecycle!vars
<1>5. CASE stranded # {}
  <2>1. Lifecycle!Strand(stranded)
    BY <1>1, <1>3, <1>5 DEF Lifecycle!Strand
  <2>2. QED
    BY <2>1 DEF Lifecycle!Next
<1>6. QED
  BY <1>4, <1>5

\* A terminal transaction ends the newest job of one project.
LEMMA SettledJobs ==
    ASSUME OutcomeInv, OutcomeInv', NEW j, NEW target, NEW at,
           Settles(j, target, at), NEW p \in Projects, p = requests[j].project
    PROVE  /\ JobOf(p) = "active"
           /\ JobOf(p)' = IF target = "failed" THEN "failed" ELSE "succeeded"
           /\ \A q \in Projects : /\ q # p => JobOf(q)' = JobOf(q)
                                  /\ Rejections(q)' = Rejections(q)
<1>1. /\ TypeOK /\ Ledger /\ LatestExists /\ TableOutcomes /\ TypeOK' /\ Ledger'
  BY DEF OutcomeInv, IInv, Outcomes, TableOutcomes
<1>2. /\ j \in Newest(p)
      /\ \A i \in DOMAIN jobs : i # j => jobs'[i] = jobs[i]
      /\ ~Active(j)'
      /\ \A q : /\ RequestsOf(q)' = RequestsOf(q)
                /\ Newest(q)' = Newest(q)
                /\ RequestsOf(q) \subseteq DOMAIN jobs
                /\ Newest(q) \subseteq RequestsOf(q)
  BY <1>1, SettledRows
<1>3. JobOf(p) = StandingOf(j) /\ JobOf(p)' = StandingOf(j)'
  BY <1>1, <1>2, JobIs, JobBecomes
<1>4. /\ Active(j)
      /\ jobs'[j].status = IF target = "failed" THEN "failed" ELSE "succeeded"
      /\ reviews' = reviews
  BY DEF Settles
<1>5. ASSUME NEW q \in Projects, q # p PROVE JobOf(q)' = JobOf(q)
  <2>1. \A i \in Newest(q) : i # j /\ i \in DOMAIN jobs
    BY <1>2, <1>5 DEF RequestsOf
  <2>2. QED
    BY <1>1, <1>2, <2>1, JobStays
<1>6. QED
  BY <1>2, <1>3, <1>4, <1>5, RejectionsStay DEF StandingOf

\* It delivers what was asked for last, or gives up.
LEMMA SettlesIsAnswer ==
    ASSUME OutcomeInv, OutcomeInv', NEW j, NEW target, NEW at,
           Settles(j, target, at)
    PROVE  Lifecycle!Next
<1>1. /\ TypeOK /\ Ledger /\ TableOutcomes /\ LatestExists
      /\ TypeOK' /\ LatestExists'
  BY DEF OutcomeInv, IInv, Outcomes, TableOutcomes
<1>2. PICK p \in Projects : p = requests[j].project
  BY <1>1, RowTypes DEF Settles
<1>3. \A q \in Projects : LatestVersion(q)' = LatestVersion(q)
  BY <1>1, LatestStays, SettledVersions
<1>4. LatestVersion(p) = requests[j].version
  <2>1. j \in Newest(p)
    BY <1>1, <1>2, SettledRows
  <2>2. QED
    BY <1>1, <2>1, NewestIsLatest, LatestIs
<1>5. /\ project[p].status = "generating"
      /\ target \in {"review_required", "failed"}
      /\ project'[p].status = target
      /\ project'[p].revision = project[p].revision + 1
      /\ \A q \in Projects : q # p => project'[q] = project[q]
  <2>1. project[p].status = "generating" /\ target \in {"review_required", "failed"}
    BY <1>2 DEF Settles
  <2>2. QED
    BY <1>1, <1>2, <2>1, SettledRows
<1>6. Lifecycle!Move(p, {"generating"}, target)
  BY <1>5 DEF Lifecycle!Move
<1>7. /\ JobOf(p) = "active"
      /\ JobOf(p)' = IF target = "failed" THEN "failed" ELSE "succeeded"
      /\ \A q \in Projects : /\ q # p => JobOf(q)' = JobOf(q)
                             /\ Rejections(q)' = Rejections(q)
  BY <1>2, SettledJobs
<1>8. CASE target = "failed"
  <2>1. current' = current
    BY <1>8 DEF Settles
  <2>2. Lifecycle!Ends(p, "failed")
    BY <1>7, <1>8 DEF Lifecycle!Ends
  <2>3. Lifecycle!GiveUp(p)
    BY <1>3, <1>6, <1>7, <1>8, <2>1, <2>2 DEF Lifecycle!GiveUp
  <2>4. QED
    BY <2>3 DEF Lifecycle!Next
<1>9. CASE target = "review_required"
  <2>1. current' = [current EXCEPT ![p] = LatestVersion(p)]
    BY <1>2, <1>4, <1>9 DEF Settles
  <2>2. Lifecycle!Ends(p, "succeeded")
    BY <1>7, <1>9 DEF Lifecycle!Ends
  <2>3. Lifecycle!Deliver(p)
    BY <1>3, <1>6, <1>7, <1>9, <2>1, <2>2 DEF Lifecycle!Deliver
  <2>4. QED
    BY <2>3 DEF Lifecycle!Next
<1>10. QED
  BY <1>5, <1>8, <1>9

\* A reservation asks for the next version.
LEMMA ReservesIsAsk ==
    ASSUME OutcomeInv, OutcomeInv', NEW p, NEW j, Reserves(p, j)
    PROVE  Lifecycle!Next
<1>1. /\ TypeOK /\ LatestExists /\ TypeOK' /\ LatestExists'
      /\ Ledger /\ Ledger' /\ p \in Projects
  BY DEF OutcomeInv, IInv, Outcomes, TableOutcomes, Reserves
<1>2. LatestVersion(p)' = LatestVersion(p) + 1
  <2>1. PICK latest \in Nat : IsLatest(p, latest) /\ requests'[j].version = latest + 1
    BY <1>1, ReservedNewest
  <2>2. LatestVersion(p) = latest
    BY <1>1, <2>1, LatestIs
  <2>3. IsLatest(p, latest + 1)'
    <3>1. IsLatest(p, requests[j].version)'
      BY <1>1, ReservedNewest
    <3>2. QED
      BY <2>1, <3>1 DEF IsLatest
  <2>4. QED
    BY <1>1, <2>2, <2>3, LatestBecomes
<1>3. \A q \in Projects : q # p => LatestVersion(q)' = LatestVersion(q)
  BY <1>1, ReservedNewest, LatestStays
<1>4. /\ project[p].status \in {"draft", "failed"}
      /\ project'[p].status = "generating"
      /\ project'[p].revision = project[p].revision + 1
      /\ \A q \in Projects : q # p => project'[q] = project[q]
      /\ current' = current
  BY DEF Reserves
<1>5. Lifecycle!Move(p, {"draft", "failed"}, "generating")
  BY <1>1, <1>4 DEF Lifecycle!Move
<1>6. JobOf(p)' = "active"
  <2>1. j \in Newest(p)'
    BY <1>1, ReservedNewest
  <2>2. JobOf(p)' = StandingOf(j)'
    BY <1>1, <2>1, JobBecomes
  <2>3. QED
    BY <2>2 DEF Reserves, StandingOf, Active
<1>7. ASSUME NEW q \in Projects, q # p PROVE JobOf(q)' = JobOf(q)
  <2>1. /\ RequestsOf(q)' = RequestsOf(q) /\ Newest(q)' = Newest(q)
        /\ RequestsOf(q) \subseteq DOMAIN jobs
    BY <1>1, <1>7, ReservedNewest
  <2>2. \A i \in Newest(q) : jobs'[i] = jobs[i]
    BY <2>1 DEF Newest, Reserves
  <2>3. QED
    BY <1>1, <2>1, <2>2, JobStays
<1>8. \A q \in Projects : Rejections(q)' = Rejections(q)
  BY RejectionsStay DEF Reserves
<1>9. Lifecycle!Ask(p)
  BY <1>1, <1>2, <1>3, <1>4, <1>5, <1>6, <1>7, <1>8 DEF Lifecycle!Ask
<1>10. QED
  BY <1>1, <1>9 DEF Lifecycle!Next

LEMMA DecidesIsDecide ==
    ASSUME OutcomeInv, OutcomeInv', NEW c \in Clients, Decides(c)
    PROVE  Lifecycle!Next
<1>1. TypeOK /\ LatestExists /\ TypeOK' /\ LatestExists' /\ Ledger /\ Ledger'
  BY DEF OutcomeInv, IInv, Outcomes, TableOutcomes
<1>2. PICK p \in Projects : p = client[c].project
  BY <1>1 DEF TypeOK, ClientState
<1>3. PICK verdict : verdict = Outcome(client[c].decision)
  OBVIOUS
<1>4. /\ project[p].status = "review_required"
      /\ project'[p].status = verdict
      /\ project'[p].revision = project[p].revision + 1
      /\ \A q \in Projects : q # p => project'[q] = project[q]
      /\ UNCHANGED <<current, jobs, requests, artifacts>>
  BY <1>1, <1>2, <1>3 DEF Decides, ReviewApplies, TypeOK
<1>5. /\ verdict \in {"approved", "failed"}
      /\ verdict = "failed" <=> client[c].decision = "reject"
  BY <1>1, <1>3 DEF Outcome, TypeOK, ClientState
<1>6. \A q \in Projects : LatestVersion(q)' = LatestVersion(q)
  BY <1>1, <1>4, LatestStays DEF Versions, RequestsOf
<1>7. \A q \in Projects : JobOf(q)' = JobOf(q)
  BY <1>1, <1>4, JobStays, RequestsFixed
<1>8. \A q \in Projects : Rejections(q)' =
          IF q = p /\ verdict = "failed"
          THEN Rejections(q) \cup {project[p].revision + 1} ELSE Rejections(q)
  <2>1. PICK row : row = [project |-> p, revision |-> project[p].revision + 1,
                          seen |-> client[c].seen, decision |-> client[c].decision]
    OBVIOUS
  <2>2. reviews' = reviews \cup {row}
    BY <1>2, <2>1 DEF Decides
  <2>3. /\ row.project = p /\ row.revision = project[p].revision + 1
        /\ row.decision = "reject" <=> verdict = "failed"
    BY <1>5, <2>1
  <2>4. QED
    BY <2>2, <2>3 DEF Rejections
<1>9. Lifecycle!Move(p, {"review_required"}, verdict)
  BY <1>4, <1>5 DEF Lifecycle!Move
<1>10. Lifecycle!Decide(p)
  BY <1>4, <1>5, <1>6, <1>7, <1>8, <1>9 DEF Lifecycle!Decide
<1>11. QED
  BY <1>10 DEF Lifecycle!Next

\* Every step of the tables is one step of the lifecycle, or none.
LEMMA StepLifecycle ==
    OutcomeInv /\ OutcomeInv' /\ [Next]_vars => [Lifecycle!Next]_(Lifecycle!vars)
<1>1. SUFFICES ASSUME OutcomeInv, OutcomeInv', [Next]_vars
               PROVE  Lifecycle!Next \/ UNCHANGED Lifecycle!vars
  OBVIOUS
<1>2. CASE JobsMove
  BY <1>1, <1>2, JobsMoveStrands
<1>3. CASE UNCHANGED vars
  <2>1. JobsMove
    BY <1>3, QuietMovesNothing DEF vars
  <2>2. QED
    BY <1>1, <2>1, JobsMoveStrands
<1>4. ASSUME NEW w \in Workers, NEW target, Settles(worker[w].job, target, clock[w])
      PROVE  Lifecycle!Next
  <2>1. PICK j, at : j = worker[w].job /\ at = clock[w]
    OBVIOUS
  <2>2. Settles(j, target, at)
    BY <1>4, <2>1
  <2>3. QED
    BY <1>1, <2>2, SettlesIsAnswer
<1>5. QED
  BY <1>1, <1>2, <1>3, <1>4, StepSorts, ReservesIsAsk, DecidesIsDecide

\* Jobs, leases, retries, crashes and reviews in two transactions show in the
\* projects only as requests, answers, decisions and work that ends alone.
THEOREM LifecycleImplemented == Spec => ImplementsLifecycle
<1>1. Init => Lifecycle!Init
  BY InitLifecycle
<1>2. OutcomeInv /\ OutcomeInv' /\ [Next]_vars => [Lifecycle!Next]_(Lifecycle!vars)
  BY StepLifecycle
<1>3. QED
  BY <1>1, <1>2, OutcomesKept, PTL DEF Spec, ImplementsLifecycle, Lifecycle!Spec

\* JobStore.recoverable_generation_job_id (jobs.py:266-294) finds a job exactly
\* when the lifecycle says that the newest request may be taken up again.
THEOREM RecoveryAgrees == Spec => []OffersWhatIsRecoverable
<1>1. ASSUME OutcomeInv, NEW p \in Projects, NEW atRevision
      PROVE  Lifecycle!Recoverable(p, atRevision)
                 <=> RecoverableJobs(p, atRevision) # {}
  <2>1. TypeOK /\ Ledger /\ LatestExists
    BY <1>1 DEF OutcomeInv, IInv, Outcomes, TableOutcomes
  <2>2. CASE RequestsOf(p) = {}
    <3>1. JobOf(p) = "none" /\ Newest(p) = {}
      BY <2>2 DEF JobOf, Newest
    <3>2. QED
      BY <3>1 DEF Lifecycle!Recoverable, RecoverableJobs
  <2>3. CASE RequestsOf(p) # {}
    <3>1. PICK j : j \in Newest(p)
      BY <2>1, <2>3, NewestExists
    <3>2. \A i \in Newest(p) : i = j
      BY <2>1, <3>1, NewestUnique
    <3>3. JobOf(p) = StandingOf(j)
      BY <2>1, <3>1, JobIs
    <3>4. /\ JobOf(p) = "failed" <=> jobs[j].status = "failed"
          /\ JobOf(p) = "succeeded" <=> jobs[j].status = "succeeded"
      BY <3>3 DEF StandingOf, Active
    <3>5. atRevision \in Rejections(p) <=>
              \E r \in reviews : /\ r.project = p
                                 /\ r.decision = "reject"
                                 /\ r.revision = atRevision
      BY DEF Rejections
    <3>6. Lifecycle!Recoverable(p, atRevision) <=>
              \/ JobOf(p) = "failed"
              \/ JobOf(p) = "succeeded" /\ atRevision \in Rejections(p)
      BY DEF Lifecycle!Recoverable
    <3>7. QED
      BY <3>1, <3>2, <3>4, <3>5, <3>6 DEF RecoverableJobs
  <2>4. QED
    BY <2>2, <2>3
<1>2. OutcomeInv => OffersWhatIsRecoverable
  BY <1>1 DEF OffersWhatIsRecoverable
<1>3. QED
  BY <1>2, OutcomesKept, PTL

-----------------------------------------------------------------------------
(* The rows and the workers of the queue                                   *)

\* The queue sees a row change only when the row or the clocks change.
LEMMA QueueRowStays ==
    ASSUME UNCHANGED clock, NEW j, jobs'[j] = jobs[j]
    PROVE  QueueRow(j)' = QueueRow(j)
BY DEF QueueRow, Ready, Lapsed

\* A worker moves, the others stay.
LEMMA QueueWorkerMoves ==
    ASSUME TypeOK, NEW w \in Workers, NEW state,
           worker' = [worker EXCEPT ![w] = state]
    PROVE  QueueWorkers' = [QueueWorkers EXCEPT ![w] = InQueue(state)]
BY DEF QueueWorkers, TypeOK

\* What the queue sees of a worker.
LEMMA QueueWorkerIs ==
    ASSUME TypeOK, NEW w \in Workers
    PROVE  /\ QueueWorkers[w] = InQueue(worker[w])
           /\ QueueWorkers[w].job = worker[w].job
           /\ QueueWorkers[w].lost = worker[w].lost
           /\ QueueWorkers[w].pc = IF worker[w].pc \in HandlerSteps
                                   THEN "handling" ELSE worker[w].pc
<1>1. worker[w] \in WorkerState
  BY DEF TypeOK
<1>2. QED
  BY <1>1 DEF QueueWorkers, InQueue, WorkerState

\* Idle and dead workers look the same to the queue.
LEMMA QueueIdle ==
    /\ InQueue(IdleWorker) = Queue!Idle
    /\ InQueue([IdleWorker EXCEPT !.pc = "dead"]) = [Queue!Idle EXCEPT !.pc = "dead"]
BY DEF InQueue, IdleWorker, Queue!Idle, HandlerSteps

\* What the queue sees of a row.
LEMMA QueueRowIs ==
    ASSUME NEW j \in DOMAIN jobs
    PROVE  /\ QueueRows[j] = QueueRow(j)
           /\ QueueRows[j].status = jobs[j].status
           /\ QueueRows[j].attempt = jobs[j].attempt
           /\ QueueRows[j].owner = jobs[j].owner
BY DEF QueueRows, QueueRow

\* Whoever holds the lease owns the job; whoever does not has lost it, or sees
\* it lapsed.
LEMMA HolderOwns ==
    ASSUME TypeOK, NEW w \in Workers
    PROVE  /\ HoldsLease(w) => Queue!Owns(w)
           /\ ~HoldsLease(w) => ~Queue!Owns(w) \/ QueueRows[worker[w].job].lapsed
<1> DEFINE j == worker[w].job
<1>1. QueueWorkers[w].job = j /\ DOMAIN QueueRows = DOMAIN jobs
  BY QueueWorkerIs DEF QueueRows
<1>2. Queue!Owns(w) <=> /\ j \in DOMAIN jobs
                        /\ jobs[j].status = "running"
                        /\ jobs[j].owner = w
  BY <1>1, QueueRowIs DEF Queue!Owns
<1>3. ASSUME Queue!Owns(w), ~(jobs[j].expires > clock[w])
      PROVE  QueueRows[j].lapsed
  <2>1. j \in DOMAIN jobs /\ clock[w] >= jobs[j].expires
    BY <1>2, <1>3, RowTypes, ClockType DEF Job
  <2>2. Lapsed(j)
    BY <1>2, <1>3, <2>1 DEF Lapsed
  <2>3. QED
    BY <2>1, <2>2 DEF QueueRows, QueueRow
<1>4. QED
  BY <1>2, <1>3 DEF HoldsLease

-----------------------------------------------------------------------------
(* What the statements of JobStore do to a row of the queue                *)

\* Three updates of a record, one after the other.
LEMMA RowUpdates ==
    ASSUME NEW k, NEW s, NEW a, NEW e, NEW o, NEW l, NEW row,
           row = [kind |-> k, status |-> s, attempt |-> a,
                  ready |-> e, owner |-> o, lapsed |-> l],
           NEW status, NEW owner, NEW lapsed
    PROVE  [row EXCEPT !.status = status, !.owner = owner, !.lapsed = lapsed] =
              [kind |-> k, status |-> status, attempt |-> a,
               ready |-> e, owner |-> owner, lapsed |-> lapsed]
<1> DEFINE r1 == [row EXCEPT !.status = status]
           r2 == [r1 EXCEPT !.owner = owner]
<1>1. r1 = [kind |-> k, status |-> status, attempt |-> a,
            ready |-> e, owner |-> o, lapsed |-> l]
  OBVIOUS
<1> HIDE DEF r1
<1>2. r2 = [kind |-> k, status |-> status, attempt |-> a,
            ready |-> e, owner |-> owner, lapsed |-> l]
  BY <1>1
<1>3. [row EXCEPT !.status = status, !.owner = owner, !.lapsed = lapsed] =
         [r2 EXCEPT !.lapsed = lapsed]
  BY DEF r1
<1> HIDE DEF r2
<1>4. [r2 EXCEPT !.lapsed = lapsed] =
         [kind |-> k, status |-> status, attempt |-> a,
          ready |-> e, owner |-> owner, lapsed |-> lapsed]
  BY <1>2
<1>5. QED
  BY <1>3, <1>4 DEF r2

\* A record with the fields of a row of the queue.
IsQueueRow(row) ==
    row = [kind |-> row.kind, status |-> row.status, attempt |-> row.attempt,
           ready |-> row.ready, owner |-> row.owner, lapsed |-> row.lapsed]

\* The same statements in the queue, field by field.
LEMMA QueueRelease ==
    ASSUME NEW row, IsQueueRow(row),
           NEW status
    PROVE  Queue!Released(row, status) =
              [kind |-> row.kind, status |-> status, attempt |-> row.attempt,
               ready |-> row.ready, owner |-> NoWorker, lapsed |-> FALSE]
<1> PICK k, s, a, e, o, l : /\ k = row.kind /\ s = row.status /\ a = row.attempt
                            /\ e = row.ready /\ o = row.owner /\ l = row.lapsed
  OBVIOUS
<1>0. row = [kind |-> k, status |-> s, attempt |-> a,
             ready |-> e, owner |-> o, lapsed |-> l]
  BY Zenon DEF IsQueueRow
<1>1. PICK no : no = FALSE
  OBVIOUS
<1>2. Queue!Released(row, status) =
         [row EXCEPT !.status = status, !.owner = NoWorker, !.lapsed = no]
  BY <1>1 DEF Queue!Released
<1>3. QED
  BY <1>0, <1>1, <1>2, RowUpdates

LEMMA QueueRequeue ==
    ASSUME NEW row, IsQueueRow(row),
           NEW ready
    PROVE  [Queue!Released(row, "queued") EXCEPT !.ready = ready] =
              [kind |-> row.kind, status |-> "queued", attempt |-> row.attempt,
               ready |-> ready, owner |-> NoWorker, lapsed |-> FALSE]
<1> PICK k, s, a, e, o, l : /\ k = row.kind /\ s = row.status /\ a = row.attempt
                            /\ e = row.ready /\ o = row.owner /\ l = row.lapsed
  OBVIOUS
<1>0. row = [kind |-> k, status |-> s, attempt |-> a,
             ready |-> e, owner |-> o, lapsed |-> l]
  BY Zenon DEF IsQueueRow
<1>1. PICK no, released : no = FALSE /\ released = Queue!Released(row, "queued")
  OBVIOUS
<1>2. released = [kind |-> k, status |-> "queued", attempt |-> a,
                  ready |-> e, owner |-> NoWorker, lapsed |-> no]
  <2>1. Queue!Released(row, "queued") =
           [kind |-> row.kind, status |-> "queued", attempt |-> row.attempt,
            ready |-> row.ready, owner |-> NoWorker, lapsed |-> FALSE]
    BY QueueRelease
  <2>2. QED
    BY <1>1, <2>1, Zenon
<1>3. [released EXCEPT !.ready = ready] =
         [kind |-> k, status |-> "queued", attempt |-> a,
          ready |-> ready, owner |-> NoWorker, lapsed |-> no]
  BY <1>2
<1>4. QED
  BY <1>1, <1>3, Zenon

LEMMA QueueLease ==
    ASSUME NEW row, IsQueueRow(row),
           NEW w, NEW lapsed
    PROVE  [row EXCEPT !.status = "running", !.owner = w, !.attempt = @ + 1,
                       !.lapsed = lapsed] =
              [kind |-> row.kind, status |-> "running", attempt |-> row.attempt + 1,
               ready |-> row.ready, owner |-> w, lapsed |-> lapsed]
<1> PICK k, s, a, e, o, l : /\ k = row.kind /\ s = row.status /\ a = row.attempt
                            /\ e = row.ready /\ o = row.owner /\ l = row.lapsed
  OBVIOUS
<1>0. row = [kind |-> k, status |-> s, attempt |-> a,
             ready |-> e, owner |-> o, lapsed |-> l]
  BY Zenon DEF IsQueueRow
<1>1. PICK leased : leased = [row EXCEPT !.status = "running", !.owner = w,
                                         !.lapsed = l]
  OBVIOUS
<1>2. leased = [kind |-> k, status |-> "running", attempt |-> a,
                ready |-> e, owner |-> w, lapsed |-> l]
  BY <1>1, <1>0, RowUpdates
<1>3. PICK counted : counted = [leased EXCEPT !.attempt = @ + 1]
  OBVIOUS
<1>4. counted = [kind |-> k, status |-> "running", attempt |-> a + 1,
                 ready |-> e, owner |-> w, lapsed |-> l]
  BY <1>2, <1>3
<1>5. [counted EXCEPT !.lapsed = lapsed] =
         [kind |-> k, status |-> "running", attempt |-> a + 1,
          ready |-> e, owner |-> w, lapsed |-> lapsed]
  BY <1>4
<1>6. [row EXCEPT !.status = "running", !.owner = w, !.attempt = @ + 1,
                  !.lapsed = lapsed] = [counted EXCEPT !.lapsed = lapsed]
  BY <1>1, <1>3
<1>7. QED
  BY <1>5, <1>6, Zenon

LEMMA QueueRowFields ==
    ASSUME NEW j
    PROVE  /\ IsQueueRow(QueueRow(j))
           /\ QueueRow(j).kind = "known"
           /\ QueueRow(j).attempt = jobs[j].attempt
           /\ QueueRow(j).ready = Ready(j)
           /\ QueueRow(j).lapsed = Lapsed(j)
BY Zenon DEF QueueRow, IsQueueRow

LEMMA FinishedRow ==
    ASSUME UNCHANGED clock, NEW j, NEW error,
           NEW status \in {"succeeded", "failed"},
           jobs'[j] = Finished(jobs[j], status, error)
    PROVE  QueueRow(j)' = Queue!Released(QueueRow(j), status)
<1>1. /\ jobs'[j].status = status
      /\ jobs'[j].attempt = jobs[j].attempt
      /\ jobs'[j].availableAt = jobs[j].availableAt
      /\ jobs'[j].owner = NoWorker
  BY DEF Finished, Released
<1>2. Ready(j)' = Ready(j)
  BY <1>1 DEF Ready
<1>3. Lapsed(j)' = FALSE
  BY <1>1 DEF Lapsed
<1>4. QueueRow(j)' = [kind |-> "known", status |-> status, attempt |-> jobs[j].attempt,
                      ready |-> Ready(j), owner |-> NoWorker, lapsed |-> FALSE]
  BY <1>1, <1>2, <1>3, Zenon DEF QueueRow
<1>5. Queue!Released(QueueRow(j), status) =
         [kind |-> "known", status |-> status, attempt |-> jobs[j].attempt,
          ready |-> Ready(j), owner |-> NoWorker, lapsed |-> FALSE]
  BY QueueRowFields, QueueRelease, Zenon
<1>6. QED
  BY <1>4, <1>5, Zenon

LEMMA RequeuedRow ==
    ASSUME NEW j, NEW error, NEW at,
           jobs'[j] = Released(jobs[j], "queued", error, at)
    PROVE  QueueRow(j)' = [Queue!Released(QueueRow(j), "queued")
                              EXCEPT !.ready = Ready(j)']
<1>1. /\ jobs'[j].status = "queued"
      /\ jobs'[j].attempt = jobs[j].attempt
      /\ jobs'[j].owner = NoWorker
  BY DEF Released
<1>2. Lapsed(j)' = FALSE
  BY <1>1 DEF Lapsed
<1>3. QueueRow(j)' = [kind |-> "known", status |-> "queued", attempt |-> jobs[j].attempt,
                      ready |-> Ready(j)', owner |-> NoWorker, lapsed |-> FALSE]
  BY <1>1, <1>2, Zenon DEF QueueRow
<1>4. PICK row, ready : row = QueueRow(j) /\ ready = Ready(j)'
  OBVIOUS
<1>5. /\ IsQueueRow(row)
      /\ row.kind = "known"
      /\ row.attempt = jobs[j].attempt
  BY <1>4, QueueRowFields, Zenon
<1>6. [Queue!Released(row, "queued") EXCEPT !.ready = ready] =
         [kind |-> row.kind, status |-> "queued", attempt |-> row.attempt,
          ready |-> ready, owner |-> NoWorker, lapsed |-> FALSE]
  BY <1>5, QueueRequeue
<1>7. QueueRow(j)' = [Queue!Released(row, "queued") EXCEPT !.ready = ready]
  BY <1>3, <1>4, <1>5, <1>6, Zenon
<1>8. QED
  BY <1>4, <1>7

LEMMA LeasedRow ==
    ASSUME UNCHANGED clock, NEW j, NEW w, NEW now,
           jobs'[j] = Leased(jobs[j], w, now)
    PROVE  QueueRow(j)' = [QueueRow(j) EXCEPT !.status = "running", !.owner = w,
                                             !.attempt = @ + 1,
                                             !.lapsed = Lapsed(j)']
<1>1. /\ jobs'[j].status = "running"
      /\ jobs'[j].attempt = jobs[j].attempt + 1
      /\ jobs'[j].availableAt = jobs[j].availableAt
      /\ jobs'[j].owner = w
  BY DEF Leased
<1>2. Ready(j)' = Ready(j)
  BY <1>1 DEF Ready
<1>3. QueueRow(j)' = [kind |-> "known", status |-> "running",
                      attempt |-> jobs[j].attempt + 1, ready |-> Ready(j),
                      owner |-> w, lapsed |-> Lapsed(j)']
  BY <1>1, <1>2, Zenon DEF QueueRow
<1>4. PICK row, lapsed : row = QueueRow(j) /\ lapsed = Lapsed(j)'
  OBVIOUS
<1>5. /\ IsQueueRow(row)
      /\ row.kind = "known"
      /\ row.attempt = jobs[j].attempt
      /\ row.ready = Ready(j)
  BY <1>4, QueueRowFields, Zenon
<1>6. [row EXCEPT !.status = "running", !.owner = w, !.attempt = @ + 1,
                  !.lapsed = lapsed] =
         [kind |-> row.kind, status |-> "running", attempt |-> row.attempt + 1,
          ready |-> row.ready, owner |-> w, lapsed |-> lapsed]
  BY <1>5, QueueLease
<1>7. QueueRow(j)' = [row EXCEPT !.status = "running", !.owner = w,
                                 !.attempt = @ + 1, !.lapsed = lapsed]
  BY <1>3, <1>4, <1>5, <1>6, Zenon
<1>8. QED
  BY <1>4, <1>7

LEMMA ExtendedRow ==
    ASSUME UNCHANGED clock, NEW j, jobs[j] \in Job, NEW at,
           jobs'[j] = [jobs[j] EXCEPT !.expires = at]
    PROVE  QueueRow(j)' = [QueueRow(j) EXCEPT !.lapsed = Lapsed(j)']
<1>1. /\ jobs'[j].status = jobs[j].status
      /\ jobs'[j].attempt = jobs[j].attempt
      /\ jobs'[j].availableAt = jobs[j].availableAt
      /\ jobs'[j].owner = jobs[j].owner
  BY DEF Job
<1>2. Ready(j)' = Ready(j)
  BY <1>1 DEF Ready
<1>3. QED
  BY <1>1, <1>2 DEF QueueRow

\* One row changes.
LEMMA OneRowMoves ==
    ASSUME UNCHANGED clock, NEW j \in DOMAIN jobs, DOMAIN jobs' = DOMAIN jobs,
           \A i \in DOMAIN jobs : i # j => jobs'[i] = jobs[i],
           NEW row, QueueRow(j)' = row
    PROVE  QueueRows' = [QueueRows EXCEPT ![j] = row]
<1>1. \A i \in DOMAIN jobs : i # j => QueueRow(i)' = QueueRow(i)
  BY QueueRowStays
<1>2. QED
  BY <1>1 DEF QueueRows

\* The jobs that one worker's clock shows as overdue are swept.
LEMMA OverdueRows ==
    ASSUME TypeOK, NEW w \in Workers
    PROVE  {j \in DOMAIN jobs : Overdue(j, clock[w])} \in SUBSET Queue!Overdue
<1>1. ASSUME NEW j \in DOMAIN jobs, Overdue(j, clock[w])
      PROVE  j \in Queue!Overdue
  <2>1. jobs[j].status = "running" /\ jobs[j].attempt >= MaxAttempts
    BY <1>1 DEF Overdue
  <2>2. Lapsed(j)
    BY <1>1, RowTypes, ClockType DEF Overdue, Lapsed, Job
  <2>3. QueueRows[j].lapsed /\ DOMAIN QueueRows = DOMAIN jobs
    BY <2>2 DEF QueueRows, QueueRow
  <2>4. QED
    BY <2>1, <2>3, QueueRowIs DEF Queue!Overdue
<1>2. QED
  BY <1>1

LEMMA SweptQueueRows ==
    ASSUME TypeOK, UNCHANGED clock, NEW now \in Nat, NEW j \in DOMAIN jobs,
           jobs'[j] = Swept(now)[j],
           NEW S, S = {i \in DOMAIN jobs : Overdue(i, now)}
    PROVE  QueueRow(j)' = Queue!Swept(S)[j]
<1>1. Queue!Swept(S)[j] = IF j \in S THEN Queue!Released(QueueRow(j), "failed")
                                     ELSE QueueRow(j)
  BY QueueRowIs DEF Queue!Swept, QueueRows
<1>2. CASE Overdue(j, now)
  BY <1>1, <1>2, SweptRows, FinishedRow
<1>3. CASE ~Overdue(j, now)
  BY <1>1, <1>3, SweptRows, QueueRowStays
<1>4. QED
  BY <1>2, <1>3

-----------------------------------------------------------------------------
(* The moves of a worker, as the queue sees them                           *)

LEMMA InQueueIs ==
    ASSUME NEW pc, NEW job, NEW lost, NEW state,
           state = [pc |-> pc, job |-> job, lost |-> lost],
           NEW seen, seen = IF pc \in HandlerSteps THEN "handling" ELSE pc
    PROVE  InQueue(state) = [pc |-> seen, job |-> job, lost |-> lost]
<1>1. InQueue(state) = [state EXCEPT !.pc = seen]
  BY DEF InQueue
<1>2. QED
  BY <1>1

LEMMA WorkerFields ==
    ASSUME TypeOK, NEW w \in Workers
    PROVE  \E pc, job, lost : worker[w] = [pc |-> pc, job |-> job, lost |-> lost]
<1>1. worker[w] \in WorkerState
  BY DEF TypeOK
<1>2. worker[w] = [pc |-> worker[w].pc, job |-> worker[w].job, lost |-> worker[w].lost]
  BY <1>1 DEF WorkerState
<1>3. QED
  BY <1>2

LEMMA QueueGoto ==
    ASSUME TypeOK, NEW w \in Workers, NEW next,
           worker' = [worker EXCEPT ![w].pc = next]
    PROVE  QueueWorkers' = [QueueWorkers EXCEPT ![w].pc =
                               IF next \in HandlerSteps THEN "handling" ELSE next]
<1>1. PICK pc, job, lost : worker[w] = [pc |-> pc, job |-> job, lost |-> lost]
  BY WorkerFields
<1>2. PICK state : state = [pc |-> next, job |-> job, lost |-> lost]
  OBVIOUS
<1>3. [worker[w] EXCEPT !.pc = next] = state
  BY <1>1, <1>2
<1>4. worker' = [worker EXCEPT ![w] = state]
  BY <1>3
<1>5. PICK seen, old : /\ seen = IF next \in HandlerSteps THEN "handling" ELSE next
                       /\ old = IF pc \in HandlerSteps THEN "handling" ELSE pc
  OBVIOUS
<1>6. InQueue(state) = [pc |-> seen, job |-> job, lost |-> lost]
  BY <1>2, <1>5, InQueueIs
<1>7. PICK before : before = QueueWorkers[w]
  OBVIOUS
<1>8. before = [pc |-> old, job |-> job, lost |-> lost]
  BY <1>1, <1>5, <1>7, InQueueIs, QueueWorkerIs
<1>9. [before EXCEPT !.pc = seen] = InQueue(state)
  BY <1>6, <1>8
<1>10. QueueWorkers' = [QueueWorkers EXCEPT ![w] = InQueue(state)]
  BY <1>4, QueueWorkerMoves
<1>11. QED
  BY <1>5, <1>7, <1>9, <1>10

LEMMA QueueLoses ==
    ASSUME TypeOK, NEW w \in Workers, worker' = [worker EXCEPT ![w].lost = TRUE]
    PROVE  QueueWorkers' = [QueueWorkers EXCEPT ![w].lost = TRUE]
<1>1. PICK pc, job, lost : worker[w] = [pc |-> pc, job |-> job, lost |-> lost]
  BY WorkerFields
<1>2. PICK yes : yes = TRUE
  OBVIOUS
<1>3. PICK state : state = [pc |-> pc, job |-> job, lost |-> yes]
  OBVIOUS
<1>4. [worker[w] EXCEPT !.lost = yes] = state
  BY <1>1, <1>3
<1>5. worker' = [worker EXCEPT ![w] = state]
  BY <1>2, <1>4
<1>6. PICK seen : seen = IF pc \in HandlerSteps THEN "handling" ELSE pc
  OBVIOUS
<1>7. InQueue(state) = [pc |-> seen, job |-> job, lost |-> yes]
  BY <1>3, <1>6, InQueueIs
<1>8. PICK before : before = QueueWorkers[w]
  OBVIOUS
<1>9. before = [pc |-> seen, job |-> job, lost |-> lost]
  BY <1>1, <1>6, <1>8, InQueueIs, QueueWorkerIs
<1>10. [before EXCEPT !.lost = yes] = InQueue(state)
  BY <1>7, <1>9
<1>11. QueueWorkers' = [QueueWorkers EXCEPT ![w] = InQueue(state)]
  BY <1>5, QueueWorkerMoves
<1>12. QED
  BY <1>2, <1>8, <1>10, <1>11

LEMMA QueueReset ==
    ASSUME TypeOK, NEW w \in Workers, worker' = [worker EXCEPT ![w] = IdleWorker]
    PROVE  QueueWorkers' = [QueueWorkers EXCEPT ![w] = Queue!Idle]
BY QueueWorkerMoves, QueueIdle

LEMMA QueueRowsStay ==
    ASSUME UNCHANGED <<jobs, clock>>
    PROVE  QueueRows' = QueueRows
BY QueueRowStays DEF QueueRows

\* What the queue does not see.
LEMMA HiddenFromQueue ==
    ASSUME UNCHANGED <<jobs, clock, worker>>
    PROVE  UNCHANGED Queue!vars
BY QueueRowsStay DEF Queue!vars, QueueWorkers

-----------------------------------------------------------------------------
(* Every step of a worker is one step of the queue, or none                *)

LEMMA ClientsHidden ==
    ASSUME NEW c \in Clients, ClientStep(c)
    PROVE  UNCHANGED Queue!vars
BY HiddenFromQueue DEF ClientStep, ReadProject, ReadPointer, CheckReview,
                       ApplyReview, tables

LEMMA StillHandling ==
    ASSUME TypeOK, NEW w \in Workers, worker[w].pc \in HandlerSteps,
           NEW next \in HandlerSteps, Goto(w, next)
    PROVE  QueueWorkers' = QueueWorkers
<1>1. QueueWorkers' = [QueueWorkers EXCEPT ![w].pc = "handling"]
  BY QueueGoto DEF Goto
<1>2. PICK pc, job, lost : worker[w] = [pc |-> pc, job |-> job, lost |-> lost]
  BY WorkerFields
<1>3. PICK before : before = QueueWorkers[w]
  OBVIOUS
<1>4. before = [pc |-> "handling", job |-> job, lost |-> lost]
  BY <1>2, <1>3, InQueueIs, QueueWorkerIs
<1>5. [before EXCEPT !.pc = "handling"] = before
  BY <1>4
<1>6. [QueueWorkers EXCEPT ![w] = before] = QueueWorkers
  BY <1>3 DEF QueueWorkers
<1>7. QED
  BY <1>1, <1>3, <1>5, <1>6

LEMMA GenerateInQueue ==
    ASSUME TypeOK, NEW w \in Workers, Generate(w)
    PROVE  Queue!HandlerLeaves(w, "retrying") \/ UNCHANGED Queue!vars
<1>1. QueueRows' = QueueRows /\ QueueWorkers[w].pc = "handling"
  BY QueueRowsStay, QueueWorkerIs DEF Generate, tables, HandlerSteps
<1>2. CASE Goto(w, "retrying")
  <2>1. QueueWorkers' = [QueueWorkers EXCEPT ![w].pc = "retrying"]
    BY <1>2, QueueGoto DEF Goto, HandlerSteps
  <2>2. QED
    BY <1>1, <2>1 DEF Queue!HandlerLeaves
<1>3. CASE \E next \in {"committing", "failing"} : Goto(w, next)
  <2>1. QueueWorkers' = QueueWorkers
    BY <1>3, StillHandling DEF Generate, HandlerSteps
  <2>2. QED
    BY <1>1, <2>1 DEF Queue!vars
<1>4. QED
  BY <1>2, <1>3 DEF Generate

LEMMA RejectEvidenceInQueue ==
    ASSUME TypeOK, NEW w \in Workers, RejectEvidence(w)
    PROVE  UNCHANGED Queue!vars
<1>1. QueueWorkers' = QueueWorkers
  BY StillHandling DEF RejectEvidence, HandlerSteps
<1>2. QED
  BY <1>1, QueueRowsStay DEF RejectEvidence, tables, Queue!vars

LEMMA LeaveInQueue ==
    ASSUME TypeOK, NEW w \in Workers, LoseLease(w) \/ Raise(w)
    PROVE  Queue!HandlerRaises(w)
<1>1. worker[w].pc \in HandlerSteps /\ UNCHANGED <<jobs, clock>>
      /\ worker' = [worker EXCEPT ![w] = IdleWorker]
  BY DEF LoseLease, Raise, tables, HandlerSteps
<1>2. QED
  BY <1>1, QueueRowsStay, QueueWorkerIs, QueueReset DEF Queue!HandlerRaises

LEMMA CrashInQueue ==
    ASSUME TypeOK, NEW w \in Workers, Crash(w)
    PROVE  Queue!Crash(w)
<1>1. QueueWorkers' = [QueueWorkers EXCEPT ![w] = [Queue!Idle EXCEPT !.pc = "dead"]]
  BY QueueWorkerMoves, QueueIdle DEF Crash
<1>2. QueueWorkers[w].pc # "dead"
  BY QueueWorkerIs DEF Crash, HandlerSteps
<1>3. QED
  BY <1>1, <1>2, QueueRowsStay DEF Crash, tables, Queue!Crash

LEMMA ReturnInQueue ==
    ASSUME TypeOK, ReturnIsTerminal, BusyHasJob, NEW w \in Workers, Return(w)
    PROVE  Queue!Return(w)
<1>1. PICK j : j = worker[w].job
  OBVIOUS
<1>2. j \in DOMAIN jobs /\ jobs[j].status \in {"succeeded", "failed"}
  BY <1>1 DEF Return, BusyHasJob, ReturnIsTerminal
<1>3. worker' = [worker EXCEPT ![w] = IdleWorker]
  BY <1>1, <1>2 DEF Return
<1>4. /\ QueueWorkers[w].pc = "returned"
      /\ QueueWorkers[w].job = j
      /\ QueueRows[j].status \in Queue!Terminal
  BY <1>1, <1>2, QueueWorkerIs, QueueRowIs DEF Return, HandlerSteps, Queue!Terminal
<1>5. UNCHANGED <<jobs, clock>>
  BY DEF Return, tables
<1>6. QED
  BY <1>3, <1>4, <1>5, QueueReset, QueueRowsStay DEF Queue!Return

LEMMA LapsedValue ==
    ASSUME NEW j
    PROVE  \E lapsed \in BOOLEAN : lapsed = Lapsed(j)'
BY DEF Lapsed

LEMMA ReadyValue ==
    ASSUME NEW j
    PROVE  \E ready \in BOOLEAN : ready = Ready(j)'
BY DEF Ready

LEMMA HeartbeatInQueue ==
    ASSUME TypeOK, NEW w \in Workers, Heartbeat(w)
    PROVE  \E lapsed \in BOOLEAN : Queue!Heartbeat(w, lapsed)
<1>1. PICK j : j = worker[w].job
  OBVIOUS
<1>2. /\ QueueWorkers[w].pc \notin {"polling", "dead"}
      /\ ~QueueWorkers[w].lost
      /\ QueueWorkers[w].job = j
      /\ UNCHANGED clock
  BY <1>1, QueueWorkerIs DEF Heartbeat
<1>3. CASE HoldsLease(w)
  <2>1. /\ j \in DOMAIN jobs
        /\ jobs[j] \in Job
        /\ jobs' = [jobs EXCEPT ![j].expires = clock[w] + Lease]
        /\ UNCHANGED worker
    BY <1>1, <1>3, RowTypes DEF Heartbeat, HoldsLease
  <2>2. PICK lapsed \in BOOLEAN : lapsed = Lapsed(j)'
    BY LapsedValue
  <2>3. QueueRow(j)' = [QueueRow(j) EXCEPT !.lapsed = lapsed]
    BY <1>2, <2>1, <2>2, ExtendedRow
  <2>4. QueueRows' = [QueueRows EXCEPT ![j] = [QueueRow(j) EXCEPT !.lapsed = lapsed]]
    BY <1>2, <2>1, <2>3, OneRowMoves
  <2>5. QueueRows' = [QueueRows EXCEPT ![j].lapsed = lapsed]
    BY <2>1, <2>4, QueueRowIs
  <2>6. Queue!Owns(w) /\ QueueWorkers' = QueueWorkers
    BY <1>3, <2>1, HolderOwns DEF QueueWorkers
  <2>7. Queue!Heartbeat(w, lapsed)
    BY <1>2, <2>5, <2>6 DEF Queue!Heartbeat
  <2>8. QED
    BY <2>7
<1>4. CASE ~HoldsLease(w)
  <2>1. UNCHANGED jobs /\ worker' = [worker EXCEPT ![w].lost = TRUE]
    BY <1>4 DEF Heartbeat
  <2>2. QueueWorkers' = [QueueWorkers EXCEPT ![w].lost = TRUE] /\ QueueRows' = QueueRows
    BY <1>2, <2>1, QueueLoses, QueueRowsStay
  <2>3. ~Queue!Owns(w) \/ QueueRows[j].lapsed
    BY <1>1, <1>4, HolderOwns
  <2>4. Queue!Heartbeat(w, FALSE)
    BY <1>2, <2>2, <2>3 DEF Queue!Heartbeat
  <2>5. QED
    BY <2>4
<1>5. QED
  BY <1>3, <1>4

LEMMA FailAttemptInQueue ==
    ASSUME TypeOK, ReturnIsTerminal, NEW w \in Workers, FailAttempt(w)
    PROVE  \E ready \in BOOLEAN : Queue!Fail(w, ready)
<1>1. PICK j : j = worker[w].job
  OBVIOUS
<1>2. /\ QueueWorkers[w].pc = "retrying"
      /\ QueueWorkers[w].job = j
      /\ worker[w].pc = "retrying"
      /\ UNCHANGED clock
      /\ QueueWorkers' = [QueueWorkers EXCEPT ![w] = Queue!Idle]
  BY <1>1, QueueWorkerIs, QueueReset
     DEF FailAttempt, HandlerSteps, ReturnIsTerminal
<1>3. CASE ~HoldsLease(w)
  <2>1. QueueRows' = QueueRows
    BY <1>2, <1>3, QueueRowsStay DEF FailAttempt
  <2>2. ~Queue!Owns(w) \/ QueueRows[j].lapsed
    BY <1>1, <1>3, HolderOwns
  <2>3. Queue!Fail(w, FALSE)
    BY <1>2, <2>1, <2>2 DEF Queue!Fail
  <2>4. QED
    BY <2>3
<1>4. CASE HoldsLease(w)
  <2>1. j \in DOMAIN jobs /\ Queue!Owns(w) /\ QueueRows[j] = QueueRow(j)
        /\ QueueRows[j].attempt = jobs[j].attempt
    BY <1>1, <1>4, HolderOwns, QueueRowIs DEF HoldsLease
  <2>2. CASE jobs[j].attempt < MaxAttempts
    <3>1. jobs' = [jobs EXCEPT ![j] =
                     Released(@, "queued", "RetryableError", clock[w] + Poll)]
      BY <1>1, <1>2, <1>4, <2>2 DEF FailAttempt
    <3>2. PICK ready \in BOOLEAN : ready = Ready(j)'
      BY ReadyValue
    <3>3. PICK row : row = [Queue!Released(QueueRow(j), "queued") EXCEPT !.ready = ready]
      OBVIOUS
    <3>4. QueueRow(j)' = row
      BY <2>1, <3>1, <3>2, <3>3, RequeuedRow
    <3>5. QueueRows' = [QueueRows EXCEPT ![j] = row]
      BY <1>2, <2>1, <3>1, <3>4, OneRowMoves
    <3>6. Queue!Fail(w, ready)
      BY <1>2, <2>1, <2>2, <3>3, <3>5 DEF Queue!Fail
    <3>7. QED
      BY <3>6
  <2>3. CASE ~(jobs[j].attempt < MaxAttempts)
    <3>1. jobs' = [jobs EXCEPT ![j] = Finished(@, "failed", "RetryableError")]
      BY <1>1, <1>2, <1>4, <2>3 DEF FailAttempt
    <3>2. QueueRow(j)' = Queue!Released(QueueRow(j), "failed")
      BY <1>2, <2>1, <3>1, FinishedRow
    <3>3. QueueRows' = [QueueRows EXCEPT ![j] = Queue!Released(QueueRow(j), "failed")]
      BY <1>2, <2>1, <3>1, <3>2, OneRowMoves
    <3>4. Queue!Fail(w, FALSE)
      BY <1>2, <2>1, <2>3, <3>3 DEF Queue!Fail
    <3>5. QED
      BY <3>4
  <2>4. QED
    BY <2>2, <2>3
<1>5. QED
  BY <1>3, <1>4

\* A terminal transaction ends the row and returns.
LEMMA CommitInQueue ==
    ASSUME TypeOK, NEW w \in Workers, HoldsLease(w), worker[w].pc \in HandlerSteps,
           NEW status \in {"succeeded", "failed"}, NEW error, UNCHANGED clock,
           jobs' = [jobs EXCEPT ![worker[w].job] = Finished(@, status, error)],
           Goto(w, "returned")
    PROVE  Queue!HandlerCommits(w, status)
<1>1. PICK j : j = worker[w].job
  OBVIOUS
<1>2. j \in DOMAIN jobs /\ Queue!Owns(w) /\ QueueRows[j] = QueueRow(j)
  BY <1>1, HolderOwns, QueueRowIs DEF HoldsLease
<1>3. QueueRow(j)' = Queue!Released(QueueRow(j), status)
  BY <1>1, <1>2, FinishedRow
<1>4. QueueRows' = [QueueRows EXCEPT ![j] = Queue!Released(QueueRow(j), status)]
  BY <1>1, <1>2, <1>3, OneRowMoves
<1>5. QueueWorkers' = [QueueWorkers EXCEPT ![w].pc = "returned"]
  BY QueueGoto DEF Goto, HandlerSteps
<1>6. QueueWorkers[w].pc = "handling" /\ QueueWorkers[w].job = j
  BY <1>1, QueueWorkerIs
<1>7. QED
  BY <1>2, <1>4, <1>5, <1>6 DEF Queue!HandlerCommits

LEMMA SucceedInQueue ==
    ASSUME IInv, NEW w \in Workers, Succeed(w)
    PROVE  Queue!HandlerCommits(w, "succeeded")
<1>1. Admissible(w, "review_required")
  BY LeaseAdmissible DEF IInv, TerminalAdmissible, Succeed
<1>2. QED
  BY <1>1, CommitInQueue DEF IInv, Succeed, HandlerSteps

LEMMA FailPermanentlyInQueue ==
    ASSUME IInv, NEW w \in Workers, FailPermanently(w)
    PROVE  Queue!HandlerCommits(w, "failed")
<1>1. Admissible(w, "failed")
  BY LeaseAdmissible DEF IInv, TerminalAdmissible, FailPermanently
<1>2. QED
  BY <1>1, CommitInQueue DEF IInv, FailPermanently, HandlerSteps

LEMMA SweepInQueue ==
    ASSUME TypeOK, NEW w \in Workers, Sweep(w)
    PROVE  \E S \in SUBSET Queue!Overdue : Queue!Sweep(w, S)
<1>1. PICK S : S = {j \in DOMAIN jobs : Overdue(j, clock[w])}
  OBVIOUS
<1>2. S \in SUBSET Queue!Overdue
  BY <1>1, OverdueRows
<1>3. /\ clock[w] \in Nat /\ jobs' = Swept(clock[w]) /\ UNCHANGED <<clock, worker>>
      /\ DOMAIN jobs' = DOMAIN jobs
  BY ClockType, SweptRows DEF Sweep
<1>4. \A j \in DOMAIN jobs : QueueRow(j)' = Queue!Swept(S)[j]
  BY <1>1, <1>3, SweptQueueRows
<1>5. QueueRows' = Queue!Swept(S)
  BY <1>3, <1>4 DEF QueueRows, Queue!Swept
<1>6. QueueWorkers[w].pc = "polling" /\ QueueWorkers' = QueueWorkers
  BY <1>3, QueueWorkerIs DEF Sweep, HandlerSteps, QueueWorkers
<1>7. Queue!Sweep(w, S)
  BY <1>5, <1>6 DEF Queue!Sweep
<1>8. QED
  BY <1>2, <1>7

\* Several fields of one row.
LEMMA LeaseOneRow ==
    ASSUME NEW rows, NEW j \in DOMAIN rows, NEW w, NEW lapsed
    PROVE  [rows EXCEPT ![j].status = "running", ![j].owner = w,
                        ![j].attempt = @ + 1, ![j].lapsed = lapsed] =
           [rows EXCEPT ![j] = [rows[j] EXCEPT !.status = "running", !.owner = w,
                                               !.attempt = @ + 1, !.lapsed = lapsed]]
OBVIOUS

LEMMA ClaimableInQueue ==
    ASSUME TypeOK, NEW w \in Workers, NEW j \in DOMAIN jobs, Claimable(j, clock[w])
    PROVE  Queue!Claimable(j)
<1>1. jobs[j] \in Job /\ clock[w] \in Nat
  BY RowTypes, ClockType
<1>2. /\ QueueRows[j].attempt = jobs[j].attempt
      /\ QueueRows[j].status = jobs[j].status
      /\ QueueRows[j].ready = Ready(j)
      /\ QueueRows[j].lapsed = Lapsed(j)
  BY QueueRowIs, QueueRowFields, Zenon
<1>3. CASE jobs[j].status = "queued" /\ jobs[j].availableAt <= clock[w]
  <2>1. Ready(j)
    BY <1>1, <1>3 DEF Ready, Job
  <2>2. QED
    BY <1>2, <1>3, <2>1 DEF Claimable, Queue!Claimable
<1>4. CASE jobs[j].status = "running" /\ jobs[j].expires <= clock[w]
  <2>1. Lapsed(j)
    BY <1>1, <1>4 DEF Lapsed, Job
  <2>2. QED
    BY <1>2, <1>4, <2>1 DEF Claimable, Queue!Claimable
<1>5. QED
  BY <1>3, <1>4 DEF Claimable

LEMMA ClaimInQueue ==
    ASSUME TypeOK, NEW w \in Workers, NEW j \in DOMAIN jobs, Claim(w, j)
    PROVE  \E S \in SUBSET Queue!Overdue, lapsed \in BOOLEAN :
              Queue!Claim(w, j, S, lapsed)
<1>1. PICK S : S = {i \in DOMAIN jobs : Overdue(i, clock[w])}
  OBVIOUS
<1>2. S \in SUBSET Queue!Overdue
  BY <1>1, OverdueRows
<1>3. clock[w] \in Nat /\ UNCHANGED clock /\ Claimable(j, clock[w])
  BY ClockType DEF Claim
<1>4. jobs' = [Swept(clock[w]) EXCEPT ![j] = Leased(jobs[j], w, clock[w])]
  BY DEF Claim
<1>5. /\ DOMAIN jobs' = DOMAIN jobs
      /\ jobs'[j] = Leased(jobs[j], w, clock[w])
      /\ \A i \in DOMAIN jobs : i # j => jobs'[i] = Swept(clock[w])[i]
  BY <1>3, <1>4, SweptRows
<1>6. j \notin S
  BY <1>1, <1>3, RowTypes, ConstantsAssumption DEF Claimable, Overdue, Job
<1>7. PICK lapsed \in BOOLEAN : lapsed = Lapsed(j)'
  BY LapsedValue
<1>8. PICK rows : rows = Queue!Swept(S)
  OBVIOUS
<1>9. /\ rows = [i \in DOMAIN jobs |-> rows[i]]
      /\ rows[j] = QueueRow(j)
  BY <1>6, <1>8, QueueRowIs DEF Queue!Swept, QueueRows
<1>10. \A i \in DOMAIN jobs : i # j => QueueRow(i)' = rows[i]
  BY <1>1, <1>3, <1>5, <1>8, SweptQueueRows
<1>11. QueueRow(j)' = [rows[j] EXCEPT !.status = "running", !.owner = w,
                                      !.attempt = @ + 1, !.lapsed = lapsed]
  BY <1>3, <1>5, <1>7, <1>9, LeasedRow
<1>12. PICK leased : leased = [rows[j] EXCEPT !.status = "running", !.owner = w,
                                      !.attempt = @ + 1, !.lapsed = lapsed]
  OBVIOUS
<1>13. QueueRows' = [rows EXCEPT ![j] = leased]
  BY <1>5, <1>9, <1>10, <1>11, <1>12 DEF QueueRows
<1>14. QueueRows' = [rows EXCEPT ![j].status = "running", ![j].owner = w,
                                 ![j].attempt = @ + 1, ![j].lapsed = lapsed]
  BY <1>9, <1>12, <1>13, LeaseOneRow
<1>15. PICK state : state = [pc |-> "handling", job |-> j, lost |-> FALSE]
  OBVIOUS
<1>16. InQueue(state) = state
  BY <1>15 DEF InQueue, HandlerSteps
<1>17. QueueWorkers' = [QueueWorkers EXCEPT ![w] = state]
  BY <1>15, <1>16, QueueWorkerMoves DEF Claim
<1>18. /\ QueueWorkers[w].pc = "polling"
       /\ QueueRows[j].kind = "known"
       /\ Queue!Claimable(j)
  BY <1>3, QueueWorkerIs, QueueRowIs, QueueRowFields, ClaimableInQueue
     DEF Claim, HandlerSteps
<1>19. Queue!Claim(w, j, S, lapsed)
  BY <1>8, <1>14, <1>15, <1>17, <1>18 DEF Queue!Claim
<1>20. QED
  BY <1>2, <1>7, <1>19

\* Two updates of a row of the queue.
LEMMA TwoFields ==
    ASSUME NEW row, IsQueueRow(row), NEW ready, NEW lapsed
    PROVE  [row EXCEPT !.ready = ready, !.lapsed = lapsed] =
              [kind |-> row.kind, status |-> row.status, attempt |-> row.attempt,
               ready |-> ready, owner |-> row.owner, lapsed |-> lapsed]
<1> PICK k, s, a, e, o, l : /\ k = row.kind /\ s = row.status /\ a = row.attempt
                            /\ e = row.ready /\ o = row.owner /\ l = row.lapsed
  OBVIOUS
<1>0. row = [kind |-> k, status |-> s, attempt |-> a,
             ready |-> e, owner |-> o, lapsed |-> l]
  BY Zenon DEF IsQueueRow
<1>1. PICK r1 : r1 = [row EXCEPT !.ready = ready]
  OBVIOUS
<1>2. r1 = [kind |-> k, status |-> s, attempt |-> a,
            ready |-> ready, owner |-> o, lapsed |-> l]
  BY <1>0, <1>1
<1>3. [r1 EXCEPT !.lapsed = lapsed] =
         [kind |-> k, status |-> s, attempt |-> a,
          ready |-> ready, owner |-> o, lapsed |-> lapsed]
  BY <1>2
<1>4. [row EXCEPT !.ready = ready, !.lapsed = lapsed] = [r1 EXCEPT !.lapsed = lapsed]
  BY <1>1
<1>5. QED
  BY <1>3, <1>4, Zenon

\* What waited or was leased may become ready or lapsed, never the reverse.
LEMMA TickReaches ==
    ASSUME TypeOK, NEW w \in Workers, Tick(w), NEW j \in DOMAIN jobs
    PROVE  /\ Ready(j) => Ready(j)'
           /\ Lapsed(j) => Lapsed(j)'
<1>1. clock \in [Workers -> Nat] /\ clock' = [clock EXCEPT ![w] = @ + 1]
      /\ jobs' = jobs /\ jobs[j] \in Job
  BY RowTypes, ClockType DEF Tick, tables, TypeOK
<1>2. \A v \in Workers : clock[v] \in Nat /\ clock'[v] >= clock[v]
  BY <1>1
<1>3. ASSUME Ready(j) PROVE Ready(j)'
  BY <1>1, <1>2, <1>3 DEF Ready, Job
<1>4. ASSUME Lapsed(j) PROVE Lapsed(j)'
  BY <1>1, <1>2, <1>4 DEF Lapsed, Job
<1>5. QED
  BY <1>3, <1>4

LEMMA TickInQueue ==
    ASSUME TypeOK, NEW w \in Workers, Tick(w)
    PROVE  \E R, L \in SUBSET DOMAIN QueueRows : Queue!TimePasses(R, L)
<1>1. jobs' = jobs /\ UNCHANGED worker /\ DOMAIN QueueRows = DOMAIN jobs
  BY DEF Tick, tables, QueueRows
<1>2. PICK R, L : /\ R = {j \in DOMAIN jobs : Ready(j)'}
                  /\ L = {j \in DOMAIN jobs : Lapsed(j)'}
  OBVIOUS
<1>3. \A j \in L : QueueRows[j].status = "running"
  BY <1>1, <1>2, QueueRowIs DEF Lapsed
<1>4. ASSUME NEW j \in DOMAIN jobs
      PROVE  QueueRow(j)' = [QueueRows[j] EXCEPT !.ready = @ \/ j \in R,
                                                 !.lapsed = @ \/ j \in L]
  <2>1. PICK row : row = QueueRows[j]
    OBVIOUS
  <2>2. /\ IsQueueRow(row) /\ row.kind = "known"
        /\ row.status = jobs[j].status /\ row.attempt = jobs[j].attempt
        /\ row.owner = jobs[j].owner
    BY <2>1, QueueRowIs, QueueRowFields, Zenon
  <2>3. row.ready = Ready(j) /\ row.lapsed = Lapsed(j)
    BY <2>1, QueueRowIs, QueueRowFields, Zenon
  <2>4. PICK ready, lapsed : ready = (row.ready \/ j \in R) /\ lapsed = (row.lapsed \/ j \in L)
    OBVIOUS
  <2>5. (row.ready \/ j \in R) <=> Ready(j)'
    BY <1>2, <2>3, TickReaches, Zenon
  <2>6. (row.lapsed \/ j \in L) <=> Lapsed(j)'
    BY <1>2, <2>3, TickReaches, Zenon
  <2>7. ready = Ready(j)' /\ lapsed = Lapsed(j)'
    <3>1. Ready(j)' \in BOOLEAN /\ Lapsed(j)' \in BOOLEAN
      BY ReadyValue, LapsedValue
    <3>2. QED
      BY <2>4, <2>5, <2>6, <3>1
  <2>8. [row EXCEPT !.ready = ready, !.lapsed = lapsed] =
           [kind |-> row.kind, status |-> row.status, attempt |-> row.attempt,
            ready |-> ready, owner |-> row.owner, lapsed |-> lapsed]
    BY <2>2, TwoFields
  <2>9. QueueRow(j)' = [kind |-> "known", status |-> jobs[j].status,
                        attempt |-> jobs[j].attempt, ready |-> Ready(j)',
                        owner |-> jobs[j].owner, lapsed |-> Lapsed(j)']
    BY <1>1, Zenon DEF QueueRow
  <2>10. QueueRow(j)' = [row EXCEPT !.ready = ready, !.lapsed = lapsed]
    BY <2>2, <2>7, <2>8, <2>9, Zenon
  <2>11. QED
    BY <2>1, <2>4, <2>10
<1>5. QueueRows' = [j \in DOMAIN QueueRows |->
                      [QueueRows[j] EXCEPT !.ready = @ \/ j \in R,
                                           !.lapsed = @ \/ j \in L]]
  BY <1>1, <1>4 DEF QueueRows
<1>6. Queue!TimePasses(R, L)
  BY <1>1, <1>3, <1>5 DEF Queue!TimePasses, QueueWorkers
<1>7. QED
  BY <1>1, <1>2, <1>6

LEMMA ReserveInQueue ==
    ASSUME TypeOK, NEW p, NEW k, NEW s, NEW j \in JobIds, NEW now,
           Reserve(p, k, s, j, now)
    PROVE  \E ready \in BOOLEAN : Queue!Enqueue(j, "known", ready)
<1>1. /\ j \notin DOMAIN jobs
      /\ UNCHANGED <<worker, clock>>
      /\ DOMAIN jobs' = DOMAIN jobs \cup {j}
      /\ jobs'[j] = [status |-> "queued", attempt |-> 0, availableAt |-> now,
                     owner |-> NoWorker, expires |-> 0, error |-> "none"]
      /\ \A i \in DOMAIN jobs : jobs'[i] = jobs[i]
  BY DEF Reserve, Upsert
<1>2. PICK ready \in BOOLEAN : ready = Ready(j)'
  BY ReadyValue
<1>3. PICK row : row = [kind |-> "known", status |-> "queued", attempt |-> 0,
                        ready |-> ready, owner |-> NoWorker, lapsed |-> FALSE]
  OBVIOUS
<1>4. QueueRow(j)' = row
  <2>1. Lapsed(j)' = FALSE
    BY <1>1 DEF Lapsed
  <2>2. /\ jobs'[j].status = "queued" /\ jobs'[j].attempt = 0
        /\ jobs'[j].owner = NoWorker
    BY <1>1
  <2>3. QED
    BY <1>2, <1>3, <2>1, <2>2, Zenon DEF QueueRow
<1>5. \A i \in DOMAIN jobs : QueueRow(i)' = QueueRow(i)
  BY <1>1, QueueRowStays
<1>6. QueueRows' = [i \in DOMAIN QueueRows \cup {j} |->
                      IF i # j THEN QueueRows[i] ELSE row]
  BY <1>1, <1>4, <1>5 DEF QueueRows
<1>7. j \in JobIds \ DOMAIN QueueRows /\ UNCHANGED QueueWorkers
  BY <1>1 DEF QueueRows, QueueWorkers
<1>8. Queue!Enqueue(j, "known", ready)
  BY <1>3, <1>6, <1>7 DEF Queue!Enqueue
<1>9. QED
  BY <1>8

LEMMA InitQueue == Init => Queue!Init
<1>1. SUFFICES ASSUME Init PROVE Queue!Init
  OBVIOUS
<1>2. QueueRows = [j \in {} |-> 0]
  BY <1>1 DEF Init, QueueRows
<1>3. QueueWorkers = [w \in Workers |-> Queue!Idle]
  BY <1>1, QueueIdle DEF Init, QueueWorkers
<1>4. QED
  BY <1>2, <1>3 DEF Queue!Init

LEMMA WorkerInQueue ==
    ASSUME OutcomeInv, NEW w \in Workers, WorkerStep(w)
    PROVE  Queue!Next \/ UNCHANGED Queue!vars
<1>1. IInv /\ TypeOK /\ ReturnIsTerminal /\ BusyHasJob
  BY DEF OutcomeInv, IInv, Outcomes
<1>2. DOMAIN QueueRows = DOMAIN jobs
  BY DEF QueueRows
<1>3. ASSUME NEW j \in DOMAIN jobs, Claim(w, j) PROVE Queue!Next
  BY <1>1, <1>2, <1>3, ClaimInQueue DEF Queue!Next
<1>4. CASE Sweep(w)
  BY <1>1, <1>4, SweepInQueue DEF Queue!Next
<1>5. CASE Heartbeat(w)
  BY <1>1, <1>5, HeartbeatInQueue DEF Queue!Next
<1>6. CASE FailAttempt(w)
  BY <1>1, <1>6, FailAttemptInQueue DEF Queue!Next
<1>7. CASE Generate(w)
  BY <1>1, <1>7, GenerateInQueue DEF Queue!Next, Queue!Handle
<1>8. CASE Succeed(w)
  BY <1>1, <1>8, SucceedInQueue DEF Queue!Next, Queue!Handle, Queue!Terminal
<1>9. CASE RejectEvidence(w)
  BY <1>1, <1>9, RejectEvidenceInQueue
<1>10. CASE FailPermanently(w)
  BY <1>1, <1>10, FailPermanentlyInQueue DEF Queue!Next, Queue!Handle, Queue!Terminal
<1>11. CASE LoseLease(w) \/ Raise(w)
  BY <1>1, <1>11, LeaveInQueue DEF Queue!Next, Queue!Handle
<1>12. CASE Return(w)
  BY <1>1, <1>12, ReturnInQueue DEF Queue!Next
<1>13. CASE Crash(w)
  BY <1>1, <1>13, CrashInQueue DEF Queue!Next
<1>14. CASE Tick(w)
  BY <1>1, <1>14, TickInQueue DEF Queue!Next
<1>15. QED
  BY <1>3, <1>4, <1>5, <1>6, <1>7, <1>8, <1>9, <1>10, <1>11, <1>12, <1>13, <1>14
     DEF WorkerStep

LEMMA StepQueue ==
    OutcomeInv /\ [Next]_vars => [Queue!Next]_(Queue!vars)
<1>1. SUFFICES ASSUME OutcomeInv, [Next]_vars
               PROVE  Queue!Next \/ UNCHANGED Queue!vars
  OBVIOUS
<1>2. CASE ApiStep
  <2>1. PICK p \in Projects, k \in Keys, s \in Specs, j \in JobIds, now \in Time :
           Reserve(p, k, s, j, now)
    BY <1>2 DEF ApiStep
  <2>2. QED
    BY <1>1, <2>1, ReserveInQueue DEF OutcomeInv, IInv, Queue!Next
<1>3. CASE UNCHANGED vars
  BY <1>3, HiddenFromQueue DEF vars, tables
<1>4. QED
  BY <1>1, <1>2, <1>3, WorkerInQueue, ClientsHidden DEF Next

\* With clocks, three tables changed in one transaction and the fact-card
\* handler's own steps, workers still do to a job row only what the job queue
\* allows: a claim counts an attempt, only the owner of a lease settles or
\* extends it, and a settled row is never touched again.
THEOREM QueueImplemented == Spec => ImplementsJobQueue
<1>1. Init => Queue!Init
  BY InitQueue
<1>2. OutcomeInv /\ [Next]_vars => [Queue!Next]_(Queue!vars)
  BY StepQueue
<1>3. QED
  BY <1>1, <1>2, OutcomesKept, PTL DEF Spec, ImplementsJobQueue, Queue!Spec

=============================================================================
