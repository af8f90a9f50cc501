----------------------------- MODULE JobQueue -----------------------------
(***************************************************************************)
(* JobStore and PollingWorker for any handler, without clocks: what a      *)
(* worker process may do to a job row, and why every job comes to an end.  *)
(*                                                                         *)
(* A lease is live or lapsed, an available_at is in the future or ready;   *)
(* time passing turns one into the other.  Processes need not agree on the *)
(* time: an owner may still act on a lease that others see lapsed, until   *)
(* one of them takes the job.                                              *)
(***************************************************************************)
EXTENDS Naturals

CONSTANTS
    JobIds, Workers,
    NoWorker,     \* the NULL of jobs.lease_owner
    NoJob,        \* a worker that runs no handler
    MaxAttempts   \* jobs.max_attempts

ASSUME QueueAssumption ==
    /\ NoWorker \notin Workers
    /\ NoJob \notin JobIds
    /\ MaxAttempts \in Nat \ {0}

VARIABLES
    jobs,    \* table jobs, by id
    worker   \* local state of each worker process

vars == <<jobs, worker>>

Job == [kind : {"known", "unknown"},
        status : {"queued", "running", "succeeded", "failed"},
        attempt : 0..MaxAttempts, ready : BOOLEAN,
        owner : Workers \cup {NoWorker}, lapsed : BOOLEAN]

WorkerState == [pc : {"polling", "handling", "returned", "retrying",
                      "breached", "dead"},
                job : JobIds \cup {NoJob}, lost : BOOLEAN]

\* Every row and every process holds values of its type.
QueueTypeOK ==
    /\ DOMAIN jobs \subseteq JobIds
    /\ jobs \in [DOMAIN jobs -> Job]
    /\ worker \in [Workers -> WorkerState]

Idle == [pc |-> "polling", job |-> NoJob, lost |-> FALSE]

Init ==
    /\ jobs = [j \in {} |-> 0]
    /\ worker = [w \in Workers |-> Idle]

Terminal == {"succeeded", "failed"}

Enqueue(j, kind, ready) ==
    /\ j \in JobIds \ DOMAIN jobs
    /\ jobs' = [i \in DOMAIN jobs \cup {j} |->
          IF i # j THEN jobs[i]
          ELSE [kind |-> kind, status |-> "queued", attempt |-> 0,
                ready |-> ready, owner |-> NoWorker, lapsed |-> FALSE]]
    /\ UNCHANGED worker

\* available_at of the jobs of R is reached, the leases of those of L expire.
TimePasses(R, L) ==
    /\ \A j \in L : jobs[j].status = "running"
    /\ jobs' = [j \in DOMAIN jobs |->
          [jobs[j] EXCEPT !.ready = @ \/ j \in R, !.lapsed = @ \/ j \in L]]
    /\ UNCHANGED worker

Released(job, status) ==
    [job EXCEPT !.status = status, !.owner = NoWorker, !.lapsed = FALSE]

\* Mutation: only queued jobs are claimed, a dead owner's job never is.
ClaimableQueued(j) ==
    jobs[j].attempt < MaxAttempts /\ jobs[j].status = "queued" /\ jobs[j].ready

\* Mutation: the attempts are not limited.
ClaimableForever(j) ==
    \/ jobs[j].status = "queued" /\ jobs[j].ready
    \/ jobs[j].status = "running" /\ jobs[j].lapsed

Claimable(j) ==
    /\ jobs[j].attempt < MaxAttempts
    /\ \/ jobs[j].status = "queued" /\ jobs[j].ready
       \/ jobs[j].status = "running" /\ jobs[j].lapsed

Overdue == {j \in DOMAIN jobs : /\ jobs[j].status = "running"
                                /\ jobs[j].lapsed
                                /\ jobs[j].attempt >= MaxAttempts}

Swept(S) == [j \in DOMAIN jobs |->
                IF j \in S THEN Released(jobs[j], "failed") ELSE jobs[j]]

\* claim: the overdue jobs that this worker's clock shows fail, one candidate
\* is leased.  A job of an unknown kind goes straight to _fail.  The new lease
\* may already have lapsed for a process whose clock is ahead.
Claim(w, j, S, lapsed) ==
    /\ worker[w].pc = "polling"
    /\ Claimable(j)
    /\ jobs' = [Swept(S) EXCEPT ![j].status = "running", ![j].owner = w,
                                ![j].attempt = @ + 1, ![j].lapsed = lapsed]
    /\ worker' = [worker EXCEPT ![w] =
          [pc |-> IF jobs[j].kind = "known" THEN "handling" ELSE "breached",
           job |-> j, lost |-> FALSE]]

\* A poll that claims nothing.
Sweep(w, S) ==
    /\ worker[w].pc = "polling"
    /\ jobs' = Swept(S)
    /\ UNCHANGED worker

Owns(w) ==
    LET j == worker[w].job
    IN  /\ j \in DOMAIN jobs
        /\ jobs[j].status = "running"
        /\ jobs[j].owner = w

\* The heartbeat thread extends the lease or, once it is lost, stops.
Heartbeat(w, lapsed) ==
    /\ worker[w].pc \notin {"polling", "dead"}
    /\ ~worker[w].lost
    /\ \/ /\ Owns(w)
          /\ jobs' = [jobs EXCEPT ![worker[w].job].lapsed = lapsed]
          /\ UNCHANGED worker
       \/ /\ ~Owns(w) \/ jobs[worker[w].job].lapsed
          /\ worker' = [worker EXCEPT ![w].lost = TRUE]
          /\ UNCHANGED jobs

\* The handler commits its own terminal transaction and returns.
HandlerCommits(w, status) ==
    /\ worker[w].pc = "handling"
    /\ Owns(w)
    /\ jobs' = [jobs EXCEPT ![worker[w].job] = Released(@, status)]
    /\ worker' = [worker EXCEPT ![w].pc = "returned"]

\* It returns without one, or raises RetryableError.
HandlerLeaves(w, pc) ==
    /\ worker[w].pc = "handling"
    /\ worker' = [worker EXCEPT ![w].pc = pc]
    /\ UNCHANGED jobs

\* Any other exception, a lost lease included, is logged: the row is left to
\* its lease.
HandlerRaises(w) ==
    /\ worker[w].pc = "handling"
    /\ worker' = [worker EXCEPT ![w] = Idle]
    /\ UNCHANGED jobs

\* After a normal return: require_terminal, unless the heartbeat lost the lease.
Return(w) ==
    /\ worker[w].pc = "returned"
    /\ worker' = [worker EXCEPT ![w] =
          IF worker[w].lost \/ jobs[worker[w].job].status \in Terminal
          THEN Idle ELSE [@ EXCEPT !.pc = "breached"]]
    /\ UNCHANGED jobs

\* _fail: requeue a retryable error while attempts remain, else fail the job.
\* LostLeaseError is swallowed.
Fail(w, ready) ==
    /\ worker[w].pc \in {"retrying", "breached"}
    /\ LET j == worker[w].job
           again == worker[w].pc = "retrying" /\ jobs[j].attempt < MaxAttempts
       IN  \/ /\ Owns(w)
              /\ jobs' = [jobs EXCEPT ![j] =
                    IF again THEN [Released(@, "queued") EXCEPT !.ready = ready]
                             ELSE Released(@, "failed")]
           \/ /\ ~Owns(w) \/ jobs[j].lapsed
              /\ UNCHANGED jobs
    /\ worker' = [worker EXCEPT ![w] = Idle]

Crash(w) ==
    /\ worker[w].pc # "dead"
    /\ worker' = [worker EXCEPT ![w] = [Idle EXCEPT !.pc = "dead"]]
    /\ UNCHANGED jobs

\* The container restarts.  Its process has a new id, which is the same as
\* reusing the old one: no process acts on a job it did not claim.
Restart(w) ==
    /\ worker[w].pc = "dead"
    /\ worker' = [worker EXCEPT ![w] = Idle]
    /\ UNCHANGED jobs

Handle(w) ==
    \/ \E status \in Terminal : HandlerCommits(w, status)
    \/ \E pc \in {"returned", "retrying"} : HandlerLeaves(w, pc)
    \/ HandlerRaises(w)

Next ==
    \/ \E j \in JobIds, kind \in {"known", "unknown"}, ready \in BOOLEAN :
          Enqueue(j, kind, ready)
    \/ \E R, L \in SUBSET DOMAIN jobs : TimePasses(R, L)
    \/ \E w \in Workers :
          \/ \E j \in DOMAIN jobs, S \in SUBSET Overdue, lapsed \in BOOLEAN :
                Claim(w, j, S, lapsed)
          \/ \E S \in SUBSET Overdue : Sweep(w, S)
          \/ \E lapsed \in BOOLEAN : Heartbeat(w, lapsed)
          \/ Handle(w)
          \/ Return(w)
          \/ \E ready \in BOOLEAN : Fail(w, ready)
          \/ Crash(w) \/ Restart(w)

Spec == Init /\ [][Next]_vars

-----------------------------------------------------------------------------
(* Fairness.  Time passes for every job that waits for it; a handler comes *)
(* to an outcome; the container restarts a dead worker; and some worker    *)
(* polls again and again, so that jobs are not out of reach for ever.      *)

Waits(j) == /\ j \in DOMAIN jobs
            /\ \/ jobs[j].status = "queued" /\ ~jobs[j].ready
               \/ /\ jobs[j].status = "running"
                  /\ ~jobs[j].lapsed
                  /\ \A w \in Workers : worker[w].job # j \/ jobs[j].owner # w

Fairness ==
    /\ \A j \in JobIds : WF_vars(/\ Waits(j)
                                 /\ TimePasses({j}, {j} \cap {i \in DOMAIN jobs :
                                                     jobs[i].status = "running"}))
    /\ \A w \in Workers : /\ WF_vars(Handle(w))
                          /\ WF_vars(Return(w))
                          /\ WF_vars(\E ready \in BOOLEAN : Fail(w, ready))
                          /\ WF_vars(Restart(w))
    /\ SF_vars(\E w \in Workers, j \in DOMAIN jobs, lapsed \in BOOLEAN :
                  Claim(w, j, Overdue, lapsed))
    /\ SF_vars(\E w \in Workers : Sweep(w, Overdue))

FairSpec == Spec /\ Fairness

\* Every enqueued job succeeds or fails in the end, although workers crash,
\* handlers raise, return early or breach the contract, and leases lapse.
EveryJobEnds ==
    \A j \in JobIds :
        (j \in DOMAIN jobs) ~> (j \in DOMAIN jobs /\ jobs[j].status \in Terminal)

=============================================================================
