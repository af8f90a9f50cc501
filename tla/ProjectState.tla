--------------------------- MODULE ProjectState ---------------------------
(***************************************************************************)
(* The project state machine of packages/domain/state.py: which status     *)
(* changes transition_project accepts and the row it returns.  Every write *)
(* of a project row in the other modules goes through these operators, as  *)
(* every write in the code goes through transition_project.                *)
(***************************************************************************)
EXTENDS Naturals

Statuses == {"draft", "generating", "review_required", "approved",
             "publishing", "published", "failed"}

Stages == {"generation", "publication"}

\* A project row; current artifact pointers are a table of their own.
Project == [status : Statuses, revision : Nat, updatedAt : Nat,
            failedStage : Stages \cup {"none"}]

\* _TRANSITIONS, as a relation.
Transitions == {
    <<"draft", "generating">>,
    <<"generating", "review_required">>, <<"generating", "failed">>,
    <<"review_required", "approved">>,   <<"review_required", "failed">>,
    <<"approved", "publishing">>,
    <<"publishing", "published">>,       <<"publishing", "failed">>,
    <<"failed", "generating">>,          <<"failed", "approved">> }

\* The stage a failure is charged to: derived from the status it interrupts.
FailureStage(status) ==
    IF status = "publishing" THEN "publication" ELSE "generation"

\* The only status a failed project may recover to.
RecoveryTarget(stage) ==
    IF stage = "publication" THEN "approved" ELSE "generating"

\* Mutation: the time of the transition is not compared.
MayTransitionAnyTime(project, target, at) ==
    /\ <<project.status, target>> \in Transitions
    /\ project.status = "failed" => target = RecoveryTarget(project.failedStage)

\* The conditions under which transition_project does not raise.
MayTransition(project, target, at) ==
    /\ at >= project.updatedAt
    /\ <<project.status, target>> \in Transitions
    /\ project.status = "failed" =>
          /\ project.failedStage # "none"
          /\ target = RecoveryTarget(project.failedStage)

\* The row transition_project returns.
Transitioned(project, target, at) ==
    [status |-> target, revision |-> project.revision + 1, updatedAt |-> at,
     failedStage |-> IF target = "failed" THEN FailureStage(project.status)
                                          ELSE "none"]

=============================================================================
