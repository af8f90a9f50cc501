------------------------------ MODULE StepRun ------------------------------
(***************************************************************************)
(* The step runs of one project: reservation of logical output streams,    *)
(* idempotent replay, reruns of whole steps and of fan-out items, and the  *)
(* invalidation of dependents.  A reservation is one transaction of        *)
(* several statements; the ones whose order matters to other sessions are  *)
(* separate actions: Begin locks the run and validates, ReserveOutput      *)
(* locks one stream and reads its version, Commit validates the rerun      *)
(* against the parent as it is by then and inserts the rows.               *)
(*                                                                         *)
(* A stream is a logical key of the project (its artifact id is a function *)
(* of the key); a reference is a stream and a version, which fixes the     *)
(* immutable artifact and its digest.  The parameters, the step version    *)
(* and the profile are one value that only the fingerprint looks at.       *)
(***************************************************************************)
EXTENDS Naturals, Sequences

CONSTANTS
    Runs,       \* pipeline runs of the project
    StepIds,    \* ids a reservation may draw; bounds their number
    Sessions,   \* processes that call the repository
    Keys,       \* idempotency keys
    Params,     \* parameters of a step
    NoStep,     \* the NULL of rerun_of_step_run_id
    Kinds,      \* step kinds of the definition
    Externals,  \* streams of the definition's external inputs
    Bindings,   \* [Kinds -> set of input streams]
    Outputs,    \* [Kinds -> sequence of output streams, by slot and item]
    Singles,    \* output streams of single slots; the others are items
    ExternalVersions \* versions of the external inputs that are stored

OutputsOf(k) == {Outputs[k][i] : i \in DOMAIN Outputs[k]}

Streams == Externals \cup UNION {OutputsOf(k) : k \in Kinds}

\* What PipelineDefinition guarantees: inputs have a source, and no two nodes
\* write the same stream.
ASSUME DefinitionAssumption ==
    /\ NoStep \notin StepIds
    /\ ExternalVersions \subseteq Nat \ {0}
    /\ \A k \in Kinds : OutputsOf(k) \cap Externals = {}
    /\ \A k \in Kinds : Bindings[k] \subseteq Streams
    /\ \A k \in Kinds : DOMAIN Outputs[k] \subseteq Nat
    /\ \A k, l \in Kinds : k # l => OutputsOf(k) \cap OutputsOf(l) = {}

VARIABLES
    open,       \* runs that are pending or running, the others are terminal
    steps,      \* table step_runs with its inputs, reservations, preserved refs
    artifacts,  \* references of the stored artifacts
    session     \* transaction each session has open

vars == <<open, steps, artifacts, session>>

Ref == [stream : Streams, version : Nat \ {0}]

StepStatus == {"pending", "succeeded", "failed", "invalidated"}

\* StepRunSpec; canonical_step_request_hash covers every field of it.
StepSpec == [run : Runs, kind : Kinds, params : Params, inputs : SUBSET Ref,
          targets : SUBSET Streams, parent : StepIds \cup {NoStep},
          preserved : SUBSET Ref]

StreamsOf(refs) == {ref.stream : ref \in refs}

Idle == [pc |-> "idle"]

Init ==
    /\ open = Runs
    /\ steps = [s \in {} |-> 0]
    /\ artifacts = [stream : Externals, version : ExternalVersions]
    /\ session = [t \in Sessions |-> Idle]

-----------------------------------------------------------------------------
(* Validation                                                              *)

Written(s) == {[stream |-> o, version |-> steps[s].versions[o]] :
                  o \in steps[s].spec.targets}

StepsOf(r) == {s \in DOMAIN steps : steps[s].spec.run = r}

\* __post_init__ of StepRunSpec.
WellFormed(spec) ==
    /\ spec.targets # {}
    /\ \A a, b \in spec.preserved : a.stream = b.stream => a = b
    /\ StreamsOf(spec.preserved) \cap spec.targets = {}
    /\ spec.parent = NoStep => spec.preserved = {}

\* validate_step_spec.  A specification that names a parent may reserve
\* fan-out items only, any other must reserve every single output.
ValidateStepSpec(spec) ==
    /\ StreamsOf(spec.inputs) = Bindings[spec.kind]
    /\ spec.targets \subseteq OutputsOf(spec.kind)
    /\ IF spec.parent = NoStep
       THEN OutputsOf(spec.kind) \cap Singles \subseteq spec.targets
       ELSE spec.targets \cap Singles = {}

\* Mutation: validated as it stands.
SpecAsGiven(spec) == spec

\* A rerun of a parent that is not succeeded is validated as a whole step.
ValidationSpec(spec) ==
    IF spec.parent # NoStep /\ steps[spec.parent].status # "succeeded"
    THEN [spec EXCEPT !.parent = NoStep]
    ELSE spec

\* The stored step a replay of the key returns.
KeyUsed(spec, k) == \E s \in StepsOf(spec.run) :
    steps[s].spec.kind = spec.kind /\ steps[s].key = k

SameFingerprint(spec) == \E s \in DOMAIN steps : steps[s].spec = spec

\* Every target's version is newer than the one the parent reserved.
Newer(parent, versions) ==
    \A o \in DOMAIN versions : versions[o] > steps[parent].versions[o]

\* validate_step_rerun: the same node, as a whole.
StepRerun(spec, k, versions) ==
    LET previous == steps[spec.parent] IN
    /\ spec.parent # NoStep
    /\ previous.status \in {"failed", "invalidated"}
    /\ previous.key # k
    /\ previous.spec.run = spec.run
    /\ previous.spec.kind = spec.kind
    /\ previous.spec.targets = spec.targets
    /\ Newer(spec.parent, versions)

\* Mutation: the single outputs of the parent are forgotten.
UnaffectedItems(parent, targets) ==
    {ref \in Written(parent) : ref.stream \notin targets \cup Singles}

\* The parent's outputs that a rerun of the targets leaves alone.
Unaffected(parent, targets) ==
    {ref \in Written(parent) : ref.stream \notin targets}

\* Mutation: the items need not be items of the parent.
FanoutItemRerunOfAny(spec, k, versions) ==
    /\ spec.parent # NoStep
    /\ steps[spec.parent].status = "succeeded"
    /\ steps[spec.parent].spec.inputs = spec.inputs
    /\ steps[spec.parent].key # k
    /\ spec.targets \cap Singles = {}
    /\ spec.preserved = Unaffected(spec.parent, spec.targets)

\* validate_fanout_item_rerun: some items of a succeeded step; its other
\* outputs are pinned.
FanoutItemRerun(spec, k, versions) ==
    LET previous == steps[spec.parent] IN
    /\ spec.parent # NoStep
    /\ previous.status = "succeeded"
    /\ previous.spec.inputs = spec.inputs
    /\ previous.key # k
    /\ spec.targets \cap Singles = {}
    /\ spec.targets \subseteq previous.spec.targets
    /\ Newer(spec.parent, versions)
    /\ spec.preserved = Unaffected(spec.parent, spec.targets)

RerunAllowed(spec, k, versions) ==
    \/ spec.parent = NoStep
    \/ StepRerun(spec, k, versions)
    \/ FanoutItemRerun(spec, k, versions)

-----------------------------------------------------------------------------
(* reserve_and_enqueue, in its transaction                                 *)

InFlight == {t \in Sessions : session[t].pc = "reserving"}

Held(t) == IF t \in InFlight THEN DOMAIN session[t].versions ELSE {}

\* Mutation: no FOR UPDATE on the stream row.
StreamIsNeverLocked(o) == TRUE

StreamIsFree(o) == \A t \in Sessions : o \notin Held(t)

RunIsFree(r) == \A t \in InFlight : session[t].spec.run # r

\* The run is locked to the end of the transaction.  StepIds bounds the model:
\* nothing begins when no id is left.
Begin(t, spec, k) ==
    /\ session[t] = Idle
    /\ StepIds \ DOMAIN steps # {}
    /\ RunIsFree(spec.run)
    /\ WellFormed(spec)
    /\ WellFormed(ValidationSpec(spec))
    /\ ValidateStepSpec(ValidationSpec(spec))
    /\ ~KeyUsed(spec, k)
    /\ session' = [session EXCEPT ![t] =
          [pc |-> "reserving", spec |-> spec, key |-> k,
           versions |-> [o \in {} |-> 0]]]
    /\ UNCHANGED <<open, steps, artifacts>>

\* Mutation: the outputs are reserved in the order of the request.
Outstanding(t) == session[t].spec.targets \ DOMAIN session[t].versions

\* The first output, by slot and item, that is not yet reserved.
NextOutput(t) ==
    LET order == Outputs[session[t].spec.kind]
        todo == {i \in DOMAIN order :
                    order[i] \in session[t].spec.targets \ DOMAIN session[t].versions}
    IN  {order[i] : i \in {j \in todo : \A l \in todo : j <= l}}

\* Mutation: versions are counted in the run.
VersionsInRun(t, o) == {steps[s].versions[o] :
    s \in {r \in StepsOf(session[t].spec.run) : o \in steps[r].spec.targets}}

\* Committed versions of a stream: reserved ones and stored artifacts.
Versions(t, o) ==
    {steps[s].versions[o] : s \in {r \in DOMAIN steps : o \in steps[r].spec.targets}}
    \cup {ref.version : ref \in {a \in artifacts : a.stream = o}}

ReserveOutput(t) ==
    /\ t \in InFlight
    /\ \E o \in NextOutput(t) :
          /\ StreamIsFree(o)
          /\ \E latest \in Versions(t, o) \cup {0} :
                /\ \A v \in Versions(t, o) : v <= latest
                /\ session' = [session EXCEPT ![t].versions =
                      [p \in DOMAIN @ \cup {o} |-> IF p = o THEN latest + 1 ELSE @[p]]]
    /\ UNCHANGED <<open, steps, artifacts>>

\* Rows other tables must have: foreign keys, and the trigger on step_runs.
ReferencesHold(spec) ==
    /\ spec.run \in open
    /\ spec.inputs \cup spec.preserved \subseteq artifacts
    /\ spec.parent # NoStep => steps[spec.parent].spec.run = spec.run

AllReserved(t) == DOMAIN session[t].versions = session[t].spec.targets

Commit(t, s) ==
    /\ t \in InFlight
    /\ AllReserved(t)
    /\ RerunAllowed(session[t].spec, session[t].key, session[t].versions)
    /\ ReferencesHold(session[t].spec)
    /\ ~SameFingerprint(session[t].spec)
    /\ s \in StepIds \ DOMAIN steps
    /\ steps' = [i \in DOMAIN steps \cup {s} |->
          IF i # s THEN steps[i]
          ELSE [spec |-> session[t].spec, key |-> session[t].key,
                versions |-> session[t].versions, status |-> "pending"]]
    /\ session' = [session EXCEPT ![t] = Idle]
    /\ UNCHANGED <<open, artifacts>>

\* A check of Commit fails, or the process goes: nothing is kept.
Rollback(t) ==
    /\ t \in InFlight
    /\ session' = [session EXCEPT ![t] = Idle]
    /\ UNCHANGED <<open, steps, artifacts>>

-----------------------------------------------------------------------------
(* Terminal states and invalidation                                        *)

StepTransitions == [pending |-> {"succeeded", "failed", "invalidated"},
                    succeeded |-> {"invalidated"}, failed |-> {}, invalidated |-> {}]

\* A step succeeds with one artifact per reservation, or fails with none.
Succeed(s) ==
    /\ "succeeded" \in StepTransitions[steps[s].status]
    /\ steps' = [steps EXCEPT ![s].status = "succeeded"]
    /\ artifacts' = artifacts \cup Written(s)
    /\ UNCHANGED <<open, session>>

Fail(s) ==
    /\ "failed" \in StepTransitions[steps[s].status]
    /\ steps' = [steps EXCEPT ![s].status = "failed"]
    /\ UNCHANGED <<open, artifacts, session>>

\* A run becomes succeeded, failed or invalidated; the update of its row
\* waits for a reservation that holds it.
EndRun(r) ==
    /\ r \in open
    /\ RunIsFree(r)
    /\ open' = open \ {r}
    /\ UNCHANGED <<steps, artifacts, session>>

\* Mutation: dependents of dependents are left alone.
DirectlyAffected(r, changed) ==
    {s \in StepsOf(r) : steps[s].spec.inputs \cap changed # {}}

\* The steps that read a changed reference, and the ones that read what an
\* affected step wrote or would have written: the least set closed under both.
Affected(r, changed) ==
    LET Closed(A) == \A s \in StepsOf(r) :
            steps[s].spec.inputs \cap (changed \cup UNION {Written(a) : a \in A}) # {}
                => s \in A
    IN  {s \in StepsOf(r) : \A A \in SUBSET StepsOf(r) : Closed(A) => s \in A}

InvalidateDependents(r, changed) ==
    /\ changed # {}
    /\ steps' = [s \in DOMAIN steps |->
          IF s \in Affected(r, changed) /\ steps[s].status = "succeeded"
          THEN [steps[s] EXCEPT !.status = "invalidated"]
          ELSE steps[s]]
    /\ UNCHANGED <<open, artifacts, session>>

-----------------------------------------------------------------------------
(* Requests a client can make: inputs and pins that are stored.  Which     *)
(* pins a rerun may name is for the validation to say.                     *)

InputChoices(k) ==
    {refs \in {{[stream |-> o, version |-> v[o]] : o \in Bindings[k]} :
                  v \in [Bindings[k] -> {ref.version : ref \in artifacts}]} :
        refs \subseteq artifacts}

PinChoices(parent, targets) ==
    IF parent = NoStep THEN {{}}
    ELSE SUBSET {ref \in artifacts : ref.stream \notin targets}

Request(t) ==
    \E r \in Runs, k \in Kinds, p \in Params, key \in Keys,
       parent \in DOMAIN steps \cup {NoStep} :
        \E inputs \in InputChoices(k), targets \in SUBSET OutputsOf(k) :
            \E pins \in PinChoices(parent, targets) :
                Begin(t, [run |-> r, kind |-> k, params |-> p, inputs |-> inputs,
                          targets |-> targets, parent |-> parent,
                          preserved |-> pins], key)

Next ==
    \/ \E t \in Sessions : Request(t) \/ ReserveOutput(t) \/ Rollback(t)
    \/ \E t \in Sessions, s \in StepIds : Commit(t, s)
    \/ \E s \in DOMAIN steps : Succeed(s) \/ Fail(s)
    \/ \E r \in Runs : EndRun(r)
    \/ \E r \in Runs, ref \in artifacts : InvalidateDependents(r, {ref})

Spec == Init /\ [][Next]_vars

=============================================================================
