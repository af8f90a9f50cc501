------------------------- MODULE ConsoleProperties -------------------------
(***************************************************************************)
(* What the web console guarantees, whatever order its answers arrive in   *)
(* and whatever happens to the projects meanwhile.                         *)
(***************************************************************************)
EXTENDS Console

Form == [step : {"idle", "sent", "answered", "reloading"}, view : View,
         reply : {"none", "ok", "refused"}, load : Nat]

Call == [load : Nat, kind : {"project", "jobs", "evidence"},
         step : {"sent", "row", "checked", "answered"}, offer : Nat, view : View]

\* Every variable holds a value of its type; every call is about a project and
\* belongs to a load that was started.
ConsoleTypeOK ==
    /\ stage \in [Projects -> Stages]
    /\ revision \in [Projects -> Nat]
    /\ asked \in [Projects -> Nat]
    /\ delivered \in [Projects -> Nat]
    /\ job \in [Projects -> {"none", "active", "succeeded", "failed"}]
    /\ rejected \in [Projects -> SUBSET Nat]
    /\ stored \subseteq Projects
    /\ request \in Nat
    /\ selected \in View
    /\ loading \in BOOLEAN
    /\ jobs \in [state : {"idle", "loading", "empty", "error", "content"},
                 project : Projects \cup {NoProject}, offer : Nat]
    /\ evidence \in [state : {"idle", "loading", "empty", "error", "content"},
                     project : Projects \cup {NoProject}, version : Nat]
    /\ list \in [state : {"loading", "empty", "error", "content"},
                 step : {"sent", "answered", "over"},
                 read : SUBSET Projects, items : SUBSET Projects]
    /\ calls \subseteq Call
    /\ \A c \in calls : c.view.project \in Projects /\ c.load \in 1..request
    /\ create \in Form /\ review \in Form /\ recover \in Form

\* The jobs and the evidence on screen are those of the project on screen, and
\* the evidence is that of its current fact card, although the three answers
\* arrive in any order and loads overtake one another.
PartsMatch ==
    /\ jobs.state = "content" => jobs.project = selected.project
    /\ evidence.state = "content" =>
          /\ evidence.project = selected.project
          /\ evidence.version = selected.version

\* A recorded review judged the version whose evidence its reviewer had on
\* screen: the row and the pointers are read by two statements, the evidence
\* by a later call, and the project may have moved on before the review.
ReviewedWhatWasShown ==
    [][ /\ review.step = "sent"
        /\ review'.reply = "ok"
        => review.view.version = delivered[review.view.project] ]_vars

\* What the page shows of a project is never replaced by what the project was
\* before: not by a late answer, and not by a load of another moment.
ShownNeverOlder ==
    [][ selected'.project = selected.project =>
          selected'.revision >= selected.revision ]_vars

\* The job of a project is over.
Over(p, number) == number # 0 /\ number = asked[p] => job[p] # "active"

\* A job that is offered for recovery has ended and never runs again, although
\* the project, the recoverable job and the list of jobs are read by three
\* statements and shown after that: only a newer job may be under way.
OfferedJobHasEnded ==
    /\ \A c \in calls : Over(c.view.project, c.offer)
    /\ jobs.state = "content" => Over(jobs.project, jobs.offer)

\* A project that the user created stays in the list: the list requested when
\* the page was opened does not overwrite it.
CreatedStaysListed ==
    [][ list.items \subseteq list'.items ]_vars

\* A review that was submitted lets the next one be submitted: neither a lost
\* answer nor a reload that another load overtakes leaves its form waiting.
ReviewFormReturns == (review.step # "idle") ~> (review.step = "idle")

\* Once nothing is awaited the page says so: it shows no spinner.
SettledWhenQuiet ==
    /\ calls = {}
    /\ create = Unsent /\ review = Unsent /\ recover = Unsent
    => ~loading /\ jobs.state # "loading" /\ evidence.state # "loading"

=============================================================================
