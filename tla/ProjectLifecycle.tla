------------------------- MODULE ProjectLifecycle -------------------------
(***************************************************************************)
(* What a project promises to the people who use it, without jobs, leases, *)
(* workers or clocks: every request is answered at most once, by delivering*)
(* the requested version or by failing; the delivered version is what gets *)
(* reviewed; a rejected or failed project waits for a new request.  Work   *)
(* may also end without an answer: then the project goes on waiting.       *)
(***************************************************************************)
EXTENDS Naturals

CONSTANT Projects

VARIABLES
    stage,     \* the project's status
    revision,  \* how often the project changed
    asked,     \* the version last requested; 0 before the first request
    delivered, \* the version people see; 0 before the first delivery
    job,       \* how the work on the version last requested stands
    rejected   \* the revisions at which what was delivered was rejected

vars == <<stage, revision, asked, delivered, job, rejected>>

Init ==
    /\ stage = [p \in Projects |-> "draft"]
    /\ revision = [p \in Projects |-> 1]
    /\ asked = [p \in Projects |-> 0]
    /\ delivered = [p \in Projects |-> 0]
    /\ job = [p \in Projects |-> "none"]
    /\ rejected = [p \in Projects |-> {}]

Move(p, from, to) ==
    /\ stage[p] \in from
    /\ stage' = [stage EXCEPT ![p] = to]
    /\ revision' = [revision EXCEPT ![p] = @ + 1]

\* The work on a request ends once.
Ends(p, outcome) ==
    /\ job[p] = "active"
    /\ job' = [job EXCEPT ![p] = outcome]

\* A request is accepted before the first generation and after a failure.
Ask(p) ==
    /\ Move(p, {"draft", "failed"}, "generating")
    /\ asked' = [asked EXCEPT ![p] = @ + 1]
    /\ job' = [job EXCEPT ![p] = "active"]
    /\ UNCHANGED <<delivered, rejected>>

\* The requested version becomes the one people see.
Deliver(p) ==
    /\ Move(p, {"generating"}, "review_required")
    /\ Ends(p, "succeeded")
    /\ delivered' = [delivered EXCEPT ![p] = asked[p]]
    /\ UNCHANGED <<asked, rejected>>

\* The request ends without a delivery.
GiveUp(p) ==
    /\ Move(p, {"generating"}, "failed")
    /\ Ends(p, "failed")
    /\ UNCHANGED <<asked, delivered, rejected>>

\* The work on requests ends alone, when its attempts are used up: for any
\* number of projects at once, which stay as they are.
Strand(projects) ==
    /\ projects # {}
    /\ \A p \in projects : job[p] = "active"
    /\ job' = [p \in Projects |-> IF p \in projects THEN "failed" ELSE job[p]]
    /\ UNCHANGED <<stage, revision, asked, delivered, rejected>>

\* A reviewer approves or rejects what was delivered.
Decide(p) ==
    /\ \E verdict \in {"approved", "failed"} :
          /\ Move(p, {"review_required"}, verdict)
          /\ rejected' = [rejected EXCEPT ![p] =
                IF verdict = "failed" THEN @ \cup {revision[p] + 1} ELSE @]
    /\ UNCHANGED <<asked, delivered, job>>

Next ==
    \/ \E p \in Projects : Ask(p) \/ Deliver(p) \/ GiveUp(p) \/ Decide(p)
    \/ \E projects \in SUBSET Projects : Strand(projects)

Spec == Init /\ [][Next]_vars

\* Whether a new request may take up the newest one: its work failed, or what
\* it delivered was rejected at that revision.
Recoverable(p, atRevision) ==
    \/ job[p] = "failed"
    \/ job[p] = "succeeded" /\ atRevision \in rejected[p]

=============================================================================
