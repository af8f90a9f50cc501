# TLA+ models of EasyContentCreator

EasyContentCreator turns reviewed sources into content: a FastAPI service and
polling workers share a PostgreSQL database, a React console drives the API.
These modules model the parts of it where several processes meet: generation
requests, the job lease, the terminal transactions and the reviews; the
reservation, rerun and invalidation of step runs; the publication of a step's
file; and the console, whose answers arrive in any order. They also model the
check and the ordering of pipeline definitions, which step runs rest on. TLC
checks them on small instances, TLAPS proves all but one of the safety properties
and all three refinements for every instance.

## Inventory of the system

| Component | State | Operations | Talks to |
|---|---|---|---|
| project state machine (`packages/domain/state.py`) | project row: status, revision, updated_at, failed_stage | `transition_project` | every writer of a project |
| generation requests (`packages/pipeline/generation.py`) | `generation_requests` | `reserve_and_enqueue` | projects, jobs, artifacts, one transaction |
| generation terminal transactions (same file) | artifacts, current pointers | `succeed`, `fail_permanently` | jobs (lease check), projects |
| job store (`packages/pipeline/jobs.py`) | `jobs`: status, attempt, available_at, lease | `enqueue`, `claim` (sweep and lease), `heartbeat`, `fail`, `require_terminal` | worker |
| polling worker (`apps/worker/main.py`) | claimed job, heartbeat thread | poll, dispatch, classify exceptions | job store, handler |
| fact-card handler (`apps/worker/generation.py`) | none across jobs | provider call, then one terminal transaction | provider, terminal transactions |
| projects and reviews (`packages/domain/repositories.py`, `apps/api/main.py`) | reviews; a session's last read | `get`, `apply_review`, `review_project` | console |
| providers (`packages/providers`) | files under the artifact root | `generate` | handler |
| text step producer (`packages/pipeline/text.py`) | files | publish by temporary file, link, unlink | nothing yet |
| pipeline definitions (`packages/pipeline/contracts.py`) | one definition under construction | construct, sort topologically, required steps | step runs |
| step runs (`packages/pipeline/persistence.py`, `packages/domain/pipeline.py`, migration 003) | definitions, runs, step runs, output streams | register, create, reserve, rerun, invalidate | jobs; no process drives it yet |
| publishers (`packages/publishers`) | in-memory publications | validate, publish, status | nothing yet |
| console (`apps/web/src/App.tsx`) | project list, project, jobs and evidence on screen, request counter, three forms | open a detail, create, review, recover | API, by fetches that settle in any order |
| migrations, configuration, deployment, CI | - | - | - |

What is hard here: every timestamp is read by the process that uses it, so the
clocks of hosts disagree; a worker can stall past its lease while another takes
its job; a heartbeat thread can die alone; a terminal transaction can be refused
and leave the job to its lease; a review is read, checked and applied in
separate statements; attempts run out in two places that do not know about
projects; the page puts together what it shows from three answers, each read by
several statements, while loads overtake one another. `PROJECT.json` lists these hazards at their lines, with the properties
that watch them.

What must be right, per component:

- *job store and worker*: a finished job stays finished; nobody ends a lease
  that is live for everyone; attempts are neither exceeded nor given up early;
  every job ends.
- *requests*: at most one active job per project; keys, versions and revisions
  never collide.
- *terminal transactions*: the holder of a lease can always commit; the current
  pointer is the newest success.
- *reviews*: an approval is for what the reviewer saw; a failed project can
  always be recovered.
- *step runs*: reserved versions are unique and reservations cannot deadlock; a
  rerun stays at its node and drops no output; invalidation reaches exactly the
  dependents; what ended without success can be redone.
- *definitions*: no two slots can produce related keys, and two that cannot are
  refused only for a segment that is no item key; the order respects the inputs; a cycle is found, and only a cycle.
- *console*: the parts on screen belong together and never go back in time; a
  review judges the evidence its reviewer saw; only a job that is over is
  offered for recovery; a form comes back.
- *published files*: a reserved name never holds a torn file and is never
  replaced; what a publisher returned for stays across crashes and power loss,
  as long as its directory does; a name is freed only by its publisher, or by
  the loss of what was not synced.

## Modules

| Module | What it is |
|---|---|
| `ProjectState` | `transition_project`: the accepted changes and the row they give |
| `Generation` | tables, workers with clocks, reviewing sessions; one action per transaction |
| `GenerationProperties` | type invariant, safety, action properties, the inductive invariants `IInv` and `OutcomeInv`, both refinement mappings |
| `ProjectLifecycle` | abstract: what a project promises its users, without jobs and workers |
| `JobQueue` | abstract: job store and worker for any handler, without clocks, with fairness |
| `JobQueueProofs` | TLAPS: its type correctness; settled jobs stay |
| `GenerationProofs` | TLAPS: type correctness, `IInv` and what follows from it |
| `GenerationOutcomeProofs` | TLAPS: `OutcomeInv` and what follows from it; action properties |
| `GenerationRefinementProofs` | TLAPS: `Generation` implements `ProjectLifecycle` and `JobQueue` |
| `StepRun` | step runs of one project: reservation statement by statement, replay, both kinds of rerun, invalidation |
| `StreamLedger` | abstract: what step runs promise to readers of artifacts, without sessions, locks and reruns |
| `StepRunProperties` | type invariant, safety, the exactness of invalidation, the mapping to `StreamLedger`; the inductive invariants |
| `StepRunProofs` | TLAPS: type correctness, all of its safety properties, the refinement of `StreamLedger`, provenance, keys |
| `PipelineDefinition` | the checks of a definition and its topological order, step by step |
| `PipelineDefinitionProperties` | their properties, stated by keys and inputs |
| `PipelineDefinitionProofs` | TLAPS: type correctness and all of its safety properties |
| `ShortVideo` | the definition that is shipped and what a run of it must complete |
| `TextPublish` | the publish protocol of text steps, system call by system call, and its properties |
| `TextPublishProofs` | TLAPS: its safety properties |
| `Console` | the page, its fetches and the handlers that serve them |
| `ConsoleProperties` | type invariant, safety, action properties, liveness |
| `ConsoleProofs` | TLAPS: the inductive invariant `ConsoleInv` and all of its safety properties |
| `MCGeneration`, `MCJobQueue`, `MCStepRun`, `MCTextPublish`, `MCPipelineDefinition`, `MCConsole` | instances for TLC |

`Generation` composes the API, the job store, the workers, the handler and the
reviews over the shared tables; it is shown to implement `ProjectLifecycle`
(seen from the projects) and `JobQueue` (seen from the jobs). `Console` composes
the page with that service: its server takes the steps of `ProjectLifecycle`
(requests, deliveries, failures, decisions, and the job that may be taken up
again), which stands for everything `Generation` does to a project, and adds the
statements of the read handlers. `StepRun` is shown to implement `StreamLedger`
(seen from the artifacts). `StepRun` and `TextPublish` compose with no process,
as in the code: none drives step runs yet, and a text step touches nothing but
its file. What `StepRun` assumes of a definition, that no stream belongs to two
nodes and each input reads one slot of another node, is proved of every
definition that `PipelineDefinition` accepts (`AcceptedSuitsStepRuns`); the two
are linked by that theorem and not by an INSTANCE, as `StepRun` names streams
where the definition has keys.

### How the model follows the code

- One action is one database transaction, or one step of a process between two.
  `Reserve` is `reserve_and_enqueue`; `Claim` and `Sweep` are `JobStore.claim`
  with and without a candidate, the sweep included in both; `Succeed` and
  `FailPermanently` are the terminal transactions, each with all the writes it
  makes. Row locks make them atomic.
- A worker's `pc` is its place in `_run_handler` and the handler: `handling`
  (up to the provider's answer), `committing` (before `succeed`), `failing` and
  `auditing` (before `fail_permanently`, without and with a candidate artifact),
  `retrying` and `breached` (before `_fail`), `returned` (before
  `require_terminal`). What the provider and the evidence check answer is a
  choice; every exception class the code distinguishes is one alternative.
- Time. Each worker has a clock of its own, and clocks are unrelated: this covers
  skewed hosts and a timestamp that is read early and used late. That the clock
  of one worker never goes back is an assumption on its host, as the code reads
  the time of day. API requests carry any timestamp, `transition_project` refuses the
  ones before the project's.
- `SKIP LOCKED` lets a claim pass over rows in use, so any candidate may be the
  one claimed, not only the oldest.
- Worker ids are fresh uuids, so a crashed worker is `dead` for good; a
  successor is another worker. Recovery of its job is a claim like any other.
- Step runs. A reservation is one transaction, split at the statements whose
  order other sessions can see: `Begin` (the run locked, the specification
  validated, the key looked up), `ReserveOutput` once per output (the stream
  row locked, its greatest version read), `Commit` (the parent read again and
  compared, constraints and triggers, the rows). Any check that fails is
  `Rollback`. A logical key is a stream, since the artifact id is a function of
  it; a reference is a stream and a version. `Succeed`, `Fail` and `EndRun` are
  the changes of status that the tables allow; the repository has no process
  that makes them, only tests. Clients ask for anything whose inputs exist, and
  pin any stored artifacts (`PinChoices`): what pins a rerun may name is decided
  by the validation of the specification and, for a fan-out rerun only, by the
  comparison with the parent.
- Files. In `TextPublish` one action is one system call, or several on a file
  nobody else sees. An attempt that stops is `dead`. Any call may raise an
  OSError: `Break` goes to the finally clause, and `TakeBack` is the one with an
  effect of its own, the failure of the last walk after which a publisher unlinks
  the reserved name. Power loss, at any time, stops all attempts and gives the
  directory any mixture of its synced and its present entries; a directory that
  an attempt made is `made` and may be gone with all it holds, since
  `_walk_storage_parent` syncs nothing and `fsync` of a directory is taken to keep
  its own entries only. It may also have been there before, on disk or not
  (`Init`). Directories are not moved or removed by anyone: nothing in the code
  does. Inodes are named after the attempt that created them.
- Definitions. A logical key is the sequence of its segments, a template has the
  segment `Item` where the source has `{item_key}`. Item keys are `Names`, fewer
  than the `Segments` of templates: a segment may begin with a digit or hold a
  hyphen (`9x16`), a name may not. `validate_name` and
  `validate_logical_key` are the assumption on segments, so that only what
  depends on several parts is a guard. The constructor is one action per
  outcome, the loop of `topological_steps` two: `Layer` takes what has no
  dependency left, `AppendNext` appends it in the order of the step kinds.
- Console. One action of the page runs to its next `await`: the arrival of an
  answer and all that follows from it. `request` is `detailRequestRef`; a load
  is the set of its calls that have not settled, and its `finally` clause runs
  with the last of them. Answers arrive in any order or fail at any point.
  The handlers read in several transactions: the row, then the pointers
  (`get_project`); the row, the recoverable job, then the jobs (`get_jobs`).
  A review is one step there (`ReviewServed`), as the repository compares the
  revision when it writes; `Generation` has its statements apart. Buttons are
  offered by what is on screen (`MayCreate`, `MayReview`, `MayRecover`).
- Operators commented "Mutation:" are plausible bugs. No action uses them; the
  mutation tests put them in the place of the operator that follows and must
  see a property fail.

`Init` has every project as `create_project` leaves it, with revision 1. A
repeated key changes nothing in `reserve_and_enqueue`, whether its digest
matches or not, so that a repeated request is a stutter.

## Runs

| Run | Question | Bounds |
|---|---|---|
| `leases` | do stalls, retries, sweeps and late commits of two workers break terminal transactions, attempts or history; do they do to a job only what `JobQueue` allows? | 2 projects, 1 key, 2 jobs, 2 workers, 2 attempts, lease 1, poll 1, clocks to 2 |
| `reviews` | are reservations, pointers, approvals and recovery right over two generations with two sessions; is `ProjectLifecycle` implemented? | 1 project, 2 keys, 2 jobs, 2 workers, 2 sessions, 1 attempt, clocks to 2 |
| `job_queue` | does every job end? | 2 jobs, 2 workers, 2 attempts |
| `ghost_generating` | (violated) has a generating project an active job? | 1 project, 1 job, 2 attempts |
| `step_sessions` | can concurrent reservations collide or deadlock; is `StreamLedger` implemented? | 2 runs, 2 sessions, 2 step runs, 2 keys, one node of two outputs |
| `step_reruns` | are reruns and invalidation right, in any order with failures? | 1 run, 1 session, 3 step runs, 3 keys, a node of three outputs that another reads |
| `failed_step_rerun` | (violated) can every failed step be redone? | as `step_reruns` |
| `text_publish` | is the published file whole, lasting and never replaced, with OSErrors and power loss anywhere? | 3 attempts, 2 contents; the directory absent, made or on disk |
| `reuse_refused` | (violated) are the same bytes under the same name reused? | as `text_publish` |
| `definitions` | are definitions refused for good reasons only and ordered rightly; does the shipped one end in its review? | every graph of 3 steps; every combination of 12 slots for an input and two outputs, some equal, prefixes, restricted, free, malformed or with a segment that is no name; broken inputs; the shipped 11 steps |
| `console` | do late, lost and reordered answers mix what is shown, or leave a form waiting? | 2 projects, one stored and delivered, moving up to revision 6 (a rejection, a second generation); 3 loads, 2 at once |
| `console_settled` | (violated) does the page say so once nothing is awaited? | as `console` |

Two workers are enough for a stale owner and its successor; a third only
repeats the stale one. Two attempts give a reclaim after a lapse, a requeue and
an exhausted job; lease 1 and clocks up to 2 let a lease lapse, be extended and
lapse again, on one clock and not yet on the other. Two projects in `leases`,
each with a job, show that jobs do not disturb each other. Two keys of one
project in `reviews` give a second generation after a failure or a rejection,
which needs the second version; it drops to one attempt because retries are the
subject of `leases`. `MaxTime` bounds the clocks, `JobIds` the number of reservations;
in `StepRun` `StepIds` bounds the step runs; in `Console` `MaxRequests` bounds
the loads, `MaxLoads` those open at once and `MaxRevision` the life of each
project; these are the only bounds in guards.
Two sessions are enough for a lock cycle between two and for a stale maximum;
three step runs give a step, its rerun and a rerun of that or a reader of
either, two in the chain of invalidation and one outside it. Three attempts give
a publisher, one that finds and one that comes after a crash or after the name
was taken back. Three loads give
one that is overtaken, the one that overtakes it and the reload of a form that
overtakes both; with two projects answers about the wrong one come; the second
project is created by the page and stays a draft. `console` leaves out that the
handlers go on reading for a load that was overtaken (the action constraint
`OvertakenReadNoMore`): whatever its calls have read, the page drops it, so that
an answer and a failure do the same there. An answer that was already under way
is still followed to the page. The proofs use no such constraint.

Deadlock is not checked in the runs of `Generation`: with clocks at their bound
and all workers dead the model stops; nor in those of `StepRun`, which stop when
the ids are used, of `PipelineDefinition`, whose constructor returns, and of `Console`,
where the loads and the revisions are used up.
Symmetry covers workers, jobs, keys and sessions, which the model never tells
apart; `job_queue`, `definitions` and `console` have liveness and use none.

### Fairness

In `JobQueue`, time passes for whoever waits for it; a handler comes to an
outcome and a return or a failure is then processed (threads are scheduled); a
dead worker restarts (`restart: unless-stopped` in compose.yaml). The claim and the sweep
have strong fairness, as some worker polls again and again between handlers
while a job is claimable or overdue, though any particular worker may be busy.
Nothing is assumed of heartbeats, of crashes (a worker may crash for ever) or
of the handler's success.

In `Console` every fetch of a detail load and of a review settles, with an answer
or with an error (`LoadStep`, `ReviewStep`, weakly fair): `fetch` rejects when the
server or the network fails. Nothing is assumed of the server, of users, or of
the other two forms. In `PipelineDefinition` the constructor runs in one thread
and waits for nothing (`Next`, weakly fair).

## Divergences from the documents

- `ghost_generating`: ADR-006 says that a generating project has a queued or
  running job or a lease to recover. The sweep in `claim` and `JobStore.fail` on
  the last attempt fail the job alone; the project stays generating, no request
  is accepted and no job is recoverable. `StrandedOnlyByJobStore` shows that no
  other path leads there.
- `failed_step_rerun`: a fan-out item rerun that failed cannot be redone with the
  same parameters. Asked for again from its parent it has the same fingerprint;
  named as parent it is not succeeded, is validated as a whole step and must
  reserve outputs that the comparison with the parent then refuses.
  `WholeStepCanBeRerun` shows that whole steps are not affected.
- `reuse_refused`: an attempt that stops between link and unlink leaves the right
  file with two names, and every later attempt refuses it, although ADR-007 has
  the same bytes reused. `FinalIsWhole` and `WrittenOnce` show that the file
  itself is right.
- `console_settled`: the answer to a new project raises the request counter, so
  that the load it overtakes no longer clears `detailLoading` (App.tsx:181 and
  135). The page then shows its spinner for good instead of the created project.
  `PartsMatch` and `ReviewFormReturns` show that what is shown is right and that
  forms are not affected.

More divergences were met that no run is spent on; `PROJECT.json` has all but the
first as hazards:

- architecture.md:64 says that the lease makes one worker at a time execute a
  job. A worker whose lease lapsed keeps executing; `TerminalAdmissible`,
  `HistoryIsFinal` and `LiveLeaseNotTaken` show what does hold: only the holder
  can commit, and nothing it finds can be disturbed.
- A required step may read the output of one that waits for an approval
  (contracts.py:126 looks at each step alone), so that a definition is accepted
  whose run cannot complete before its review. `RunEndsInReview` shows that the
  shipped one is not of this kind.
- A stalled attempt of the deterministic provider truncates the file that a
  committed artifact refers to (fake.py:99), although artifacts are never
  overwritten (architecture.md:35).
- A rerun can store pins that neither rule allows. A fan-out rerun is validated
  for its pins only when it is compared with its parent at the end
  (persistence.py:329); if the parent is invalidated after the specification was
  validated (line 290), it is compared as a whole rerun instead, and
  `validate_step_rerun` never looks at the pins. A rerun of all items of an
  item-only parent is then stored with any artifacts pinned. `RerunCoversParent`
  has this case as its one exception.
- "Return true when two templates can produce equal or prefix-related keys"
  (contracts.py:267) is true of slightly more: a free item against a segment
  that `validate_name` refuses (`asset/{item_key}`, `asset/9x16`) is called an
  overlap, so that a sound definition is refused. `OverlapIsReal` has this case
  as its one exception; the shipped definition is not concerned.
- Artifacts are published durably, but for their directories: the first file of
  a project or stream can be lost with the directory that was made for it
  (text.py:277), after its attempt returned, as the directory is synced at line
  234 and its entry in the one above by nobody.
- An OSError of the last walk (out of descriptors, an I/O error) makes a
  publisher unlink the synced name (text.py:248). Another attempt may have found
  the file and returned for it by then.
- ADR-007 has the steps that depend on a changed reference marked invalidated.
  Only succeeded ones are (persistence.py:457); a pending one that read the
  reference before runs on and succeeds.
- A replayed fan-out rerun is refused once its parent is invalidated; a rerun of
  a rerun no longer pins what its parent pinned; an attempt that finds its file
  published does not sync the directory.

## What is proved

Of generation, for any sets of projects, keys, jobs, workers and sessions, any
lease, poll delay and attempt limit, from `ConstantsAssumption` alone:

- `TypeCorrect`: `TypeOK` always holds, one lemma per action.
- `LedgerKept`: `IInv` always holds. The safety properties are not inductive:
  that a terminal transaction is admissible depends on the job that is running
  having a project that is still at the reserved revision
  (`ActiveMatchesProject`), on its lease being later than the project's time
  (`ActiveAfterProject`, which is what makes skewed clocks harmless), on
  revisions and versions being distinct (`RevisionsReached`,
  `ReservationsDistinct`) and on an artifact existing only for a job that is
  over (`ArtifactsMatchRequests`). Steps that touch jobs only share
  `JobsLedger`, the two terminal transactions share `SettleLedger`.
- `LeaseIsEnough`, `OneActiveJob`, `NoCollision`: `TerminalAdmissible`,
  `SingleActiveJob` and `ReservationsDistinct` follow from `IInv`.
- `HistoryStays`: the action property `HistoryIsFinal`, from `TypeOK`.
- `OutcomesKept`: `OutcomeInv` always holds. It adds to `IInv` what a job that is
  over has left behind. `CurrentIsNewestSuccess`, `ApprovalPinsArtifact`,
  `FailedIsRecoverable`, `StrandedOnlyByJobStore` and `RetriesUsedUp` are
  inductive together and not one by one: the pointer stays the newest success
  because a job that may still succeed is the newest of its project
  (`ActiveIsNewest`) and because the next version is one more than a maximum
  that exists (`LatestExists`); what a reviewer approves was delivered by the
  newest job (`ReviewHasSuccess`), and what the session saw is what the pointer
  says now as long as the revision is the one it read (`SessionsFit`, over the
  statements in which a review is read, checked and written). Steps are sorted
  by what they write (`StepSorts`): jobs at most (`JobsMove`), a terminal
  transaction (`Settles`), a request (`Reserves`) or a review (`Decides`), with
  one lemma per sort.
- `PointerIsNewest`, `ApprovalIsPinned`, `FailureOffersRecovery`,
  `OnlyJobStoreStrands`, `AllAttemptsUsed` and `ReturnsAreTerminal`: these five
  and `ReturnIsTerminal` follow from `OutcomeInv`. `RowsMoveForward`: so does
  `ProjectMovesForward`. `LiveLeaseStays`: `LiveLeaseNotTaken`, from `TypeOK`.
- `LifecycleImplemented`: `ImplementsLifecycle`. Under the mapping (stage and
  revision of the row, latest version asked for, what became of its job, pointer,
  rejections) each of the actions is one of `ProjectLifecycle` or a stutter;
  `OutcomeInv` says that the answer given is to the newest request. A job that
  the job store fails on its own is `Strand`, so that the abstract specification
  says what `ghost_generating` finds.
- `RecoveryAgrees`: `OffersWhatIsRecoverable`, that
  `recoverable_generation_job_id` finds a job just when the abstract project has
  one to take up again, at any revision it is asked about. With the above, this
  is all that `Console` takes from the service.
- `QueueImplemented`: `ImplementsJobQueue`. A lease has lapsed, and a job is
  ready, as soon as one clock says so; a clock that moves is `TimePasses`, a
  claim needs only the clock of its worker, and the steps inside the handler are
  not seen. That a terminal transaction is never refused to the holder of the
  lease (`LeaseIsEnough`) leaves one case for each, `HandlerCommits`; that a
  handler returns with its job over (`ReturnIsTerminal`) gives `Return` its case.

Of the job queue, for any handler and from `QueueAssumption`:
`QueueTypeCorrect` is `QueueTypeOK`, and `SettledStays` says that a job which
succeeded or failed keeps its outcome and its attempts (`SettledIsFinal`, stated
with the proof and by no run).

Of step runs, for any definition, runs, step ids, sessions and keys, from
`DefinitionAssumption` (no two nodes write the same stream, as
`AcceptedSuitsStepRuns` says of accepted definitions; a node's outputs are a
sequence):

- `VersionsNeverCollide`: `StreamVersionsDistinct`. It is not inductive: what a
  transaction has read but not committed must be new as well, and stay new. The
  invariant adds that a stream is held by one transaction (`LocksExclusive`) and
  that no committed step has a version held (`HeldAreFresh`).
- `RerunsStay`: `RerunStaysAtNode`. A fan-out rerun is never compared with its
  parent by kind; that the kinds agree follows from `SpecsFit`, what a
  specification names belongs to its node, and from the disjoint streams.
- `NoSessionsDeadlock`: `NoLockCycle`. A transaction locks its outputs in the
  order of the node (`LocksInOrder`), and two that wait for each other are at the
  same node. `NoChainCloses` says the same of chains of any length, which no run
  does: whoever is waited for has only later outputs left to lock (`WaitsClimb`).
- `RerunsCover`: `RerunCoversParent`. The parent is read twice and may be
  invalidated in between, so that a specification is validated as a rerun of
  items and compared as a whole one. The invariant keeps what the first reading
  established for good (`RequestsChecked`): who pins something has a parent that
  had succeeded, whatever it is now. So pins that the comparison did not look at
  belong to a rerun of all that an invalidated parent wrote, and no other.
- `WholeStepsComeBack`: `WholeStepCanBeRerun`. The same invariant and a greatest
  version per stream (`LatestExists`) give a request that passes every check;
  that a client can draw a new key is `UnusedKeyAssumption`.
- `InvalidationReaches`: `InvalidationExact`. The set that the loop computes is
  the least one closed under reading, so whoever is in it reads the change or
  another member's output. That this member is invalidated by then, and not
  merely affected, needs that what has not succeeded is not stored (`NotStored`,
  also of versions that are only held), since a request reads stored artifacts
  only.
- `LedgerImplemented`: `ImplementsLedger`. To whoever reads artifacts, the
  statements of any number of sessions are the atomic steps of `StreamLedger`: a
  commit is `Reserve`, of the newest versions of its streams although they were
  read long before, which is `HeldAreNewest`, a strengthening of `HeldAreFresh`
  (while a stream is held nobody else's version of it can commit). `Succeed` is
  `Deliver`, all of the outputs at once. The set computed by the loop of
  `invalidate_dependents` is one that `Mark` allows by `InvalidationReaches`.
- `ProvenanceEnds` and `NothingElseIsStored`: `ProvenanceAcyclic` and
  `StoredIsDelivered`. Among any step runs there is one that neither reads nor
  pins what they wrote; a set of step runs is taken instead of a path, so that
  chains of any length are covered without induction. A step run is inserted with
  stored inputs, and what it reserves is not stored by then (`NotStored`).
- `ItemsComeBack`: `ItemsCanBeRerun`. The counterpart of `WholeStepsComeBack` for
  the items of a step that succeeded. The exception in it, that the very request
  was made before, is the case in which `failed_step_rerun` finds a failed item
  out of reach.
- `ReplayFindsTheOne`: `OneStepPerKey`. The key is looked up when a transaction
  begins and inserted when it ends; it stays new in between (`KeysStayNew`) because
  the run is locked by one transaction (`RunsLocked`).
- `NothingSpoilsIt` and `PromisesCommit`: `PromisesKept` and `PromisedCommits`. A
  request that nothing speaks against stays so while other sessions insert, end
  and invalidate, and what is compared at the end is then in its favour. It is
  stated of whole reruns and first reservations; a parent that succeeded may be
  invalidated under a rerun of its items.

Of text files, for any attempts and contents, from `NoFileAssumption` (the
marker for an absent file is not an attempt): `NeverTorn`, `PublishedStays`,
`AnswersAreWhole` and `NameIsFinal` are `FinalIsWhole`, `PublishedSurvives`,
`AnswerIsWhole` and `WrittenOnce`. The invariant says that a file is synced
before it is linked, that whatever a name or an attempt refers to is whole, that
the name belongs to the attempt that linked it until that attempt ends, on disk
too once it has synced (`LinkedByOwner`), and that who passed the verification
looked at its own bytes. So only the owner can take the name back, and it then
fails; a publisher that returns has its file under the name (`ReturnsWithFile`),
where it stays (`FileStays`).

Of definitions, for any definitions over any kinds and segments, from
`KindAssumption`, `ItemAssumption`, `DefinitionAssumption` and `SlotAssumption`
(kinds are numbers, segments hold no item mark, item keys are names):

- `KeysNeverMeet` and `RefusalIsNeeded`: `KeysSeparate` and `OverlapIsReal`, that
  the test on templates answers the question about keys in both directions, but
  for a segment that no item key can be. The first is local, a segment at which
  templates part; the second builds the two items, which needs that a template
  has one place for its item.
- `KeysKeepTheirItem`: `KeyIdentifiesItem`, the reverse function is one.
- `AcceptedSuitsStepRuns`: `StepRunsFit`. An accepted definition, with slots for
  nodes and the keys they produce for streams, meets what step runs assume: no
  stream of two nodes, no node without one, and inputs that read one slot of
  another node.
- `OrderIsSound` and `CyclesAreFound`: `OrderRespectsInputs` and `CycleIsReal`. The
  invariant `OrderInv` says that the kinds ordered and those remaining split the
  definition (`OrderedOrRemaining`), that a layer reads from what is ordered only
  (`LayerIsIndependent`) and that kinds which wait for one another remain
  (`CirclesRemain`). When the loop is stuck, what remains is such a circle.
  Nothing is counted, so it holds for any number of steps.

Of the console, for any projects, any number of loads at once and in all, and
any life of the projects, from `ConsoleAssumption`: `PartsAlwaysMatch`,
`OffersAreOver`, `ListOnlyGrows`, `ScreenNeverOlder` and `ReviewersSawIt` are
`PartsMatch`, `OfferedJobHasEnded`, `CreatedStaysListed`, `ShownNeverOlder` and
`ReviewedWhatWasShown`. They share the inductive invariant `ConsoleInv`. None of
them is inductive: the screen is filled from calls under way, so the invariant
says of each call what it has read and how that relates to the server now
(`HasRead`: the row is no newer than the project; at the same revision the
version is the one delivered; an offer is over), which answers may still be
shown and for what is on screen (`MayShow`), that a load has one project call at
its front (`OneFront`), and the same of the screen and of the forms
(`ScreenHolds`, `FormsHold`). `ShownNeverOlder` needs that a load's row is read
after everything that was shown when the load was opened.

Stated by these theorems and by no run: the type invariants of `StepRun`,
`TextPublish`, `PipelineDefinition` and `Console`; `KeyIdentifiesItem`,
`SettledIsFinal`, `WaitsClimb`, `StepRunsFit`, `OffersWhatIsRecoverable`; and, of
step runs, `ProvenanceAcyclic`, `StoredIsDelivered`, `ItemsCanBeRerun`,
`OneStepPerKey`, `PromisesKept` and `PromisedCommits`. TLC finds no violation of
those of step runs when their names are added to the configurations of
`step_sessions` and `step_reruns`.

Only model-checked: `RunEndsInReview`, which is about the one definition that is
shipped, so that TLC's instance is all there is. Its last step is computed by
`SelectSeq`, a recursive definition, and so out of the provers' reach. Liveness
(`EveryJobEnds`, `ReviewFormReturns`, `EveryDefinitionIsDecided`) stays with TLC
because fairness and ENABLED are beyond the prover; for the same reason
`QueueImplemented` is about the safety part of `JobQueue`, and that every job
ends is checked of `JobQueue` alone.

## Not modelled

The components that `PROJECT.json` marks so, with the reason at each; within
the modelled ones: input validation, error texts and HTTP codes, the contents of
sources, citations and artifacts, the view of a single job, which the console
does not use, `ProjectRepository.update`, which no application code calls, and
the publishing states, which nothing enters; of the console, rendering, focus,
input fields and the shape checks of `api.ts`, which end as a failed call; of
definitions, manifests and digests; the file of the deterministic provider, a
stand-in whose files nothing reads back.

## Plan

Done: generation with its queue and lifecycle, step runs and their ledger, text
files, pipeline definitions, the console; the three refinements, and the two
theorems by which one module's guarantees are the next one's assumptions
(`RecoveryAgrees`, `AcceptedSuitsStepRuns`). Left, in this order:

1. `StepRun` with its jobs: the job a reservation enqueues and its terminal
   transaction by the port of ECC-036, so that `Succeed` and `Fail` come from a
   worker as in `Generation`.
2. Evidence rules as operators; `Publisher` and `Migrations`, small, last.
