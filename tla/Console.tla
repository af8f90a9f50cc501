------------------------------ MODULE Console ------------------------------
(***************************************************************************)
(* The web console (apps/web/src/App.tsx): one page that loads projects,   *)
(* their jobs and their evidence, and posts new projects, reviews and      *)
(* recoveries, while other people and the workers change the projects.     *)
(* The server is ProjectLifecycle, which the tables implement, with the    *)
(* statements of the read handlers as steps of their own.                  *)
(*                                                                         *)
(* A step of the page runs to its next await: the arrival of an answer and *)
(* everything that follows from it is one action.  An answer may arrive in *)
(* any order, late, or not at all, in which case the call fails.           *)
(***************************************************************************)
EXTENDS Naturals, FiniteSets

CONSTANTS
    Projects,    \* project ids, created or not
    Existing,    \* projects that are stored when the page is opened
    Delivered,   \* those of them that wait for their first review by then
    NoProject,   \* no project is selected
    MaxRequests, \* bounds the detail requests of the page
    MaxLoads,    \* bounds the loads under way when another is opened
    MaxRevision  \* [Projects -> Nat], bounds the revision of each project

ASSUME ConsoleAssumption ==
    /\ Existing \subseteq Projects /\ Delivered \subseteq Existing
    /\ NoProject \notin Projects
    /\ MaxRequests \in Nat /\ MaxLoads \in Nat
    /\ MaxRevision \in [Projects -> Nat]

VARIABLES
    stage, revision, asked, delivered, job, rejected, \* see ProjectLifecycle
    stored,    \* projects that have been created
    request,   \* detailRequestRef: the newest detail request
    selected,  \* the project on screen
    loading,   \* detailLoading
    jobs,      \* jobsState, and whose jobs are shown
    evidence,  \* evidenceState, and which artifact is shown
    list,      \* listState, and the projects listed
    calls,     \* GET requests of detail loads that have not settled
    create,    \* submitProject
    review,    \* submitReview
    recover    \* submitRecovery

server == <<stage, revision, asked, delivered, job, rejected, stored>>
screen == <<request, selected, loading, jobs, evidence, list>>
forms  == <<create, review, recover>>
vars   == <<server, screen, calls, forms>>

Lifecycle == INSTANCE ProjectLifecycle

Stages == {"draft", "generating", "review_required", "approved", "failed"}

\* A ProjectResponse; the version is the one of current_artifacts.fact_card, 0
\* when there is none.
View == [project : Projects \cup {NoProject}, stage : Stages, revision : Nat,
         version : Nat]

NoView == [project |-> NoProject, stage |-> "draft", revision |-> 0, version |-> 0]

About(view) == [NoView EXCEPT !.project = view.project]

\* A GET of load number n about a project; what it has read so far.  An offer
\* is the number of the job that may be recovered, 0 when there is none.
Sent(n, kind, p) ==
    [load |-> n, kind |-> kind, step |-> "sent", offer |-> 0,
     view |-> [NoView EXCEPT !.project = p]]

NoJobs(state) == [state |-> state, project |-> NoProject, offer |-> 0]

NoEvidence(state) == [state |-> state, project |-> NoProject, version |-> 0]

\* A form: where its submission is, for which view, and the load it waits for.
Unsent == [step |-> "idle", view |-> NoView, reply |-> "none", load |-> 0]

Init ==
    /\ stage = [p \in Projects |->
          IF p \in Delivered THEN "review_required" ELSE "draft"]
    /\ revision = [p \in Projects |-> IF p \in Delivered THEN 3 ELSE 1]
    /\ asked = [p \in Projects |-> IF p \in Delivered THEN 1 ELSE 0]
    /\ delivered = asked
    /\ job = [p \in Projects |-> IF p \in Delivered THEN "succeeded" ELSE "none"]
    /\ rejected = [p \in Projects |-> {}]
    /\ stored = Existing
    /\ request = 0
    /\ selected = NoView
    /\ loading = FALSE
    /\ jobs = NoJobs("idle")
    /\ evidence = NoEvidence("idle")
    /\ list = [state |-> "loading", step |-> "sent", read |-> {}, items |-> {}]
    /\ calls = {}
    /\ create = Unsent /\ review = Unsent /\ recover = Unsent

-----------------------------------------------------------------------------
(* The server                                                              *)

\* A generation is requested, by this page or by another client.
Generate(p) ==
    /\ p \in stored
    /\ revision[p] < MaxRevision[p]
    /\ Lifecycle!Ask(p)
    /\ UNCHANGED stored

\* The newest job ends with its project.
FinishJob(p) ==
    /\ p \in stored
    /\ revision[p] < MaxRevision[p]
    /\ Lifecycle!Deliver(p) \/ Lifecycle!GiveUp(p)
    /\ UNCHANGED stored

\* The job store fails jobs whose attempts are used up and leaves their
\* projects generating.
FailJobs ==
    /\ \E projects \in SUBSET stored : Lifecycle!Strand(projects)
    /\ UNCHANGED stored

\* A review is recorded with the project's new status: what was delivered at
\* the bound may still be judged.
Judge(p) ==
    /\ p \in stored
    /\ revision[p] =< MaxRevision[p]
    /\ Lifecycle!Decide(p)
    /\ UNCHANGED stored

Advance(c, step) == calls' = (calls \ {c}) \cup {step}

\* The row of a project, read for its detail or for its jobs.
ReadRow(c) ==
    /\ c.kind \in {"project", "jobs"}
    /\ c.step = "sent"
    /\ LET p == c.view.project
       IN  Advance(c, [c EXCEPT !.step = "row", !.view.stage = stage[p],
                                !.view.revision = revision[p]])
    /\ UNCHANGED <<server, screen, forms>>

\* The pointers of a project, read after its row.
ReadPointer(c) ==
    /\ c.kind = "project"
    /\ c.step = "row"
    /\ Advance(c, [c EXCEPT !.step = "answered",
                            !.view.version = delivered[c.view.project]])
    /\ UNCHANGED <<server, screen, forms>>

\* Mutation: the project row alone decides.
OffersByRow(view) == view.stage = "failed"

\* _job_response: the flag of the newest job, at the revision of the row.
Offers(view) ==
    /\ view.stage = "failed"
    /\ Lifecycle!Recoverable(view.project, view.revision)

\* The recoverable job, read after the row; jobs are numbered by the version
\* they were asked for.
ReadRecoverable(c) ==
    /\ c.kind = "jobs"
    /\ c.step = "row"
    /\ LET p == c.view.project
       IN  Advance(c, [Sent(c.load, "jobs", p) EXCEPT !.step = "checked",
                          !.offer = IF Offers(c.view) THEN asked[p] ELSE 0])
    /\ UNCHANGED <<server, screen, forms>>

\* The jobs, read last: the page tells whether there are any.
ReadJobs(c) ==
    /\ c.kind = "jobs"
    /\ c.step = "checked"
    /\ Advance(c, [c EXCEPT !.step = "answered",
                      !.view.version = IF asked[c.view.project] = 0 THEN 0 ELSE 1])
    /\ UNCHANGED <<server, screen, forms>>

ReadList ==
    /\ list.step = "sent"
    /\ list' = [list EXCEPT !.step = "answered", !.read = stored]
    /\ UNCHANGED <<server, request, selected, loading, jobs, evidence, calls, forms>>

-----------------------------------------------------------------------------
(* The detail view                                                         *)

\* loadDetail up to its first await.
LoadDetail(p) ==
    /\ request' = request + 1
    /\ loading' = TRUE
    /\ evidence' = NoEvidence("idle")
    /\ calls' = calls \cup {Sent(request + 1, "project", p)}

\* Mutation: whatever arrives is shown.
IsNewestAlways(c) == TRUE

\* The fence: the answer belongs to the newest request.
IsNewest(c) == c.load = request

\* Mutation: the promise of a load that was overtaken never settles.
LoadOverIfNewest(n, left) == n = request /\ \A c \in left : c.load # n

\* A load is over when none of its calls is left.  Its finally clause clears
\* detailLoading, if it is still the newest; a form that waits for it returns.
LoadOver(n, left) == \A c \in left : c.load # n

Settle(n, left) ==
    /\ calls' = left
    /\ loading' = (loading /\ ~(n = request /\ LoadOver(n, left)))
    /\ review' = IF review.step = "reloading" /\ LoadOver(review.load, left)
                 THEN Unsent ELSE review
    /\ recover' = IF recover.step = "reloading" /\ LoadOver(recover.load, left)
                  THEN Unsent ELSE recover

\* replaceProject.
Show(view) ==
    /\ selected' = view
    /\ list' = [list EXCEPT !.items = @ \cup {view.project}]

\* The project of a detail load: an answer of an older load is dropped, that
\* of the newest is shown and its jobs and evidence are requested.
ProjectArrives(c) ==
    /\ c.kind = "project"
    /\ c.step = "answered"
    /\ LET p == c.view.project
           parts == {Sent(c.load, "jobs", p)} \cup
                    (IF c.view.version = 0 THEN {}
                     ELSE {[Sent(c.load, "evidence", p) EXCEPT
                               !.view.version = c.view.version]})
       IN  IF IsNewest(c)
           THEN /\ Show(c.view)
                /\ jobs' = NoJobs("loading")
                /\ evidence' = NoEvidence(IF c.view.version = 0 THEN "empty"
                                          ELSE "loading")
                /\ Settle(c.load, (calls \ {c}) \cup parts)
           ELSE /\ Settle(c.load, calls \ {c})
                /\ UNCHANGED <<selected, list, jobs, evidence>>
    /\ UNCHANGED <<server, request, create>>

JobsArrive(c) ==
    /\ c.kind = "jobs"
    /\ c.step = "answered"
    /\ jobs' = IF ~IsNewest(c) THEN jobs
               ELSE IF c.view.version = 0 THEN NoJobs("empty")
               ELSE [state |-> "content", project |-> c.view.project,
                     offer |-> c.offer]
    /\ Settle(c.load, calls \ {c})
    /\ UNCHANGED <<server, request, selected, evidence, list, create>>

\* The artifact and its sources; rows of both never change.
EvidenceArrives(c) ==
    /\ c.kind = "evidence"
    /\ evidence' = IF IsNewest(c)
                   THEN [state |-> "content", project |-> c.view.project,
                         version |-> c.view.version]
                   ELSE evidence
    /\ Settle(c.load, calls \ {c})
    /\ UNCHANGED <<server, request, selected, jobs, list, create>>

\* The call fails, at any point of its way.
CallFails(c) ==
    /\ jobs' = IF c.kind = "jobs" /\ IsNewest(c) THEN NoJobs("error") ELSE jobs
    /\ evidence' = IF c.kind = "evidence" /\ IsNewest(c)
                   THEN NoEvidence("error") ELSE evidence
    /\ Settle(c.load, calls \ {c})
    /\ UNCHANGED <<server, request, selected, list, create>>

-----------------------------------------------------------------------------
(* What a user does                                                        *)

Waiting(form) == form.step \in {"sent", "answered"}

\* Every submission may start a load when it is answered: MaxRequests leaves
\* room for those under way.
Room == request + (IF Waiting(create) THEN 1 ELSE 0)
                + (IF Waiting(review) THEN 1 ELSE 0)
                + (IF Waiting(recover) THEN 1 ELSE 0) < MaxRequests

OpenDetail(p) ==
    /\ Room
    /\ Cardinality({c.load : c \in calls}) < MaxLoads
    /\ list.state = "content"
    /\ p \in list.items
    /\ LoadDetail(p)
    /\ UNCHANGED <<server, selected, jobs, list, forms>>

\* The article, with its forms, is on screen.
Displayed == selected # NoView /\ ~loading

Submitted(view) == [Unsent EXCEPT !.step = "sent", !.view = view]

\* Mutation: the form may be sent before the list has arrived.
MayCreateAlways == create.step = "idle"

MayCreate == create.step = "idle" /\ list.state # "loading"

SubmitProject ==
    /\ Room
    /\ MayCreate
    /\ create' = Submitted(NoView)
    /\ UNCHANGED <<server, screen, calls, review, recover>>

MayReview ==
    /\ Displayed
    /\ selected.stage = "review_required"
    /\ evidence.state = "content"

\* The view remembers which version's evidence was on screen.
SubmitReview ==
    /\ Room
    /\ MayReview
    /\ review.step = "idle"
    /\ review' = Submitted([selected EXCEPT !.version = evidence.version])
    /\ UNCHANGED <<server, screen, calls, create, recover>>

MayRecover == Displayed /\ jobs.state = "content" /\ jobs.offer # 0

SubmitRecovery ==
    /\ Room
    /\ MayRecover
    /\ recover.step = "idle"
    /\ recover' = Submitted(About(selected))
    /\ UNCHANGED <<server, screen, calls, create, review>>

-----------------------------------------------------------------------------
(* The answers to what was submitted                                       *)

Replied(view, reply) ==
    [Unsent EXCEPT !.step = "answered", !.reply = reply, !.view = view]

\* create_project stores a project under a new id.
CreateServed(p) ==
    /\ create.step = "sent"
    /\ p \notin stored
    /\ stored' = stored \cup {p}
    /\ create' = Replied([project |-> p, stage |-> stage[p],
                           revision |-> revision[p], version |-> delivered[p]], "ok")
    /\ UNCHANGED <<stage, revision, asked, delivered, job, rejected,
                   screen, calls, review, recover>>

\* Mutation: the status alone is compared.
JudgeableByStatus(view) == stage[view.project] = "review_required"

Judgeable(view) ==
    /\ revision[view.project] = view.revision
    /\ stage[view.project] = "review_required"

\* review_project compares the revision and applies the review.
ReviewServed ==
    /\ review.step = "sent"
    /\ IF Judgeable(review.view)
       THEN Judge(review.view.project) /\ review' = Replied(About(review.view), "ok")
       ELSE review' = Replied(About(review.view), "refused") /\ UNCHANGED server
    /\ UNCHANGED <<screen, calls, create, recover>>

\* generate_project: a new request for a failed project, a replay of a key
\* that was used, or a refusal.
RecoveryServed ==
    /\ recover.step = "sent"
    /\ LET p == recover.view.project
           accepted == (recover' = Replied(About(recover.view), "ok"))
       IN  \/ stage[p] = "failed" /\ Generate(p) /\ accepted
           \/ accepted /\ UNCHANGED server
           \/ /\ stage[p] # "failed"
              /\ recover' = Replied(About(recover.view), "refused")
              /\ UNCHANGED server
    /\ UNCHANGED <<screen, calls, create, review>>

\* Whether or not the server did it, the answer is lost: the form reports a
\* failure and returns.
CreateLost ==
    /\ Waiting(create) /\ create' = Unsent
    /\ UNCHANGED <<server, screen, calls, review, recover>>

ReviewLost ==
    /\ Waiting(review) /\ review' = Unsent
    /\ UNCHANGED <<server, screen, calls, create, recover>>

RecoveryLost ==
    /\ Waiting(recover) /\ recover' = Unsent
    /\ UNCHANGED <<server, screen, calls, create, review>>

\* Mutation: what was shown before stays on screen.
NothingShownYet == UNCHANGED <<jobs, evidence>>

EmptyDetail == jobs' = NoJobs("empty") /\ evidence' = NoEvidence("empty")

\* The new project becomes the one on screen and supersedes a load under way.
CreateReturns ==
    /\ create.step = "answered"
    /\ request' = request + 1
    /\ selected' = create.view
    /\ list' = [list EXCEPT !.items = @ \cup {create.view.project},
                            !.state = "content"]
    /\ EmptyDetail
    /\ create' = Unsent
    /\ UNCHANGED <<server, loading, calls, review, recover>>

\* The form returns when the load it started is over.
Reloading == [Unsent EXCEPT !.step = "reloading", !.load = request + 1]

\* An accepted review and a conflict reload the detail.
ReviewReturns ==
    /\ review.step = "answered"
    /\ LoadDetail(review.view.project)
    /\ review' = Reloading
    /\ UNCHANGED <<server, selected, jobs, list, create, recover>>

\* An accepted recovery reloads the detail, a refused one only says so.
RecoveryReturns ==
    /\ recover.step = "answered"
    /\ IF recover.reply = "ok"
       THEN LoadDetail(recover.view.project) /\ recover' = Reloading
       ELSE recover' = Unsent /\ UNCHANGED <<request, loading, evidence, calls>>
    /\ UNCHANGED <<server, selected, jobs, list, create, review>>

\* The list arrives, once, or its request fails.
ListArrives ==
    /\ list.step # "over"
    /\ \/ /\ list.step = "answered"
          /\ list' = [list EXCEPT !.state = IF list.read = {} THEN "empty" ELSE "content",
                                  !.items = list.read, !.step = "over", !.read = {}]
       \/ list' = [list EXCEPT !.state = "error", !.step = "over", !.read = {}]
    /\ UNCHANGED <<server, request, selected, loading, jobs, evidence, calls, forms>>

-----------------------------------------------------------------------------
ServerStep ==
    \/ /\ FailJobs \/ \E p \in Projects : Generate(p) \/ FinishJob(p) \/ Judge(p)
       /\ UNCHANGED <<screen, calls, forms>>
    \/ \E c \in calls : ReadRow(c) \/ ReadPointer(c)
                        \/ ReadRecoverable(c) \/ ReadJobs(c)
    \/ ReadList
    \/ \E p \in Projects : CreateServed(p)
    \/ ReviewServed \/ RecoveryServed

UserStep ==
    \/ \E p \in Projects : OpenDetail(p)
    \/ SubmitProject \/ SubmitReview \/ SubmitRecovery

\* An answer or a failure of load n reaches the page.
LoadStep(n) ==
    \E c \in calls : /\ c.load = n
                     /\ \/ ProjectArrives(c) \/ JobsArrive(c)
                        \/ EvidenceArrives(c) \/ CallFails(c)

CreateStep == CreateLost \/ CreateReturns
ReviewStep == ReviewLost \/ ReviewReturns
RecoveryStep == RecoveryLost \/ RecoveryReturns

Next ==
    \/ ServerStep \/ UserStep
    \/ \E n \in 1..MaxRequests : LoadStep(n)
    \/ CreateStep \/ ReviewStep \/ RecoveryStep \/ ListArrives

Spec == Init /\ [][Next]_vars

\* Every fetch of the page settles: with an answer or, when the server or the
\* network fails, with an error.  Only that of detail loads and of reviews is
\* assumed.
FairSpec ==
    /\ Spec
    /\ \A n \in 1..MaxRequests : WF_vars(LoadStep(n))
    /\ WF_vars(ReviewStep)

=============================================================================
