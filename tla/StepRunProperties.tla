------------------------- MODULE StepRunProperties -------------------------
(***************************************************************************)
(* What must be true of step runs.                                         *)
(***************************************************************************)
EXTENDS StepRun, FiniteSets

\* A row of step_runs with its reservations, and an open transaction.
IsStep(row) ==
    /\ row = [spec |-> row.spec, key |-> row.key, versions |-> row.versions,
              status |-> row.status]
    /\ row.spec \in StepSpec
    /\ row.key \in Keys
    /\ row.versions \in [row.spec.targets -> Nat \ {0}]
    /\ row.status \in StepStatus

IsReserving(x) ==
    /\ x = [pc |-> "reserving", spec |-> x.spec, key |-> x.key,
            versions |-> x.versions]
    /\ x.spec \in StepSpec
    /\ x.key \in Keys
    /\ DOMAIN x.versions \subseteq x.spec.targets
    /\ x.versions \in [DOMAIN x.versions -> Nat \ {0}]

\* Every variable has its type, and a step reserves exactly its targets.
TypeOK ==
    /\ open \subseteq Runs
    /\ steps = [s \in DOMAIN steps |-> steps[s]]
    /\ DOMAIN steps \subseteq StepIds
    /\ \A s \in DOMAIN steps : IsStep(steps[s])
    /\ artifacts \subseteq Ref
    /\ session = [t \in Sessions |-> session[t]]
    /\ \A t \in Sessions : session[t] = Idle \/ IsReserving(session[t])

\* No two step runs of the project reserve the same version of a stream, in
\* one run or in two, whatever reservations are in flight and however their
\* statements interleave (the row lock and the maximum of _reserve_output).
StreamVersionsDistinct ==
    \A s, u \in DOMAIN steps : s # u => Written(s) \cap Written(u) = {}

\* No session waits for a stream of another that waits for one of its own:
\* reservations in several runs of the project cannot deadlock.
WaitsFor(t, u) == t \in InFlight /\ NextOutput(t) \cap Held(u) # {}

NoLockCycle == \A t, u \in Sessions : t # u => ~(WaitsFor(t, u) /\ WaitsFor(u, t))

\* A rerun stays at its node: it has the run and the kind of its parent,
\* reserves only streams of the parent and only newer versions, though a
\* fan-out rerun is never compared by kind and the parent may change between
\* the two times it is read.
RerunStaysAtNode ==
    \A s \in DOMAIN steps : steps[s].spec.parent # NoStep =>
        LET p == steps[s].spec.parent IN
        /\ p \in DOMAIN steps
        /\ steps[p].spec.run = steps[s].spec.run
        /\ steps[p].spec.kind = steps[s].spec.kind
        /\ steps[s].spec.targets \subseteq steps[p].spec.targets
        /\ \A o \in steps[s].spec.targets :
              steps[s].versions[o] > steps[p].versions[o]

\* What the parent wrote and a rerun does not write again.
Left(spec) == {ref \in Written(spec.parent) : ref.stream \notin spec.targets}

CoversParent(s) ==
    LET spec == steps[s].spec
        parent == steps[spec.parent]
    IN  IF spec.parent = NoStep
        THEN OutputsOf(spec.kind) \cap Singles \subseteq spec.targets
        ELSE /\ Left(spec) \subseteq spec.preserved
             /\ \/ spec.preserved = Left(spec)
                \/ parent.status = "invalidated" /\ spec.targets = parent.spec.targets

\* A step run without a parent writes every single output of its node.  One
\* with a parent writes, or pins in the parent's version, every output of the
\* parent: no output is dropped by a rerun, whichever way its parent's status
\* moves meanwhile.  It pins nothing else, but for a rerun of all that the
\* parent wrote: if the parent is invalidated between the two times it is read,
\* the pins are compared by neither rule and may be any stored artifacts.
RerunCoversParent == \A s \in DOMAIN steps : CoversParent(s)

\* invalidate_dependents reaches exactly the dependent subgraph: afterwards no
\* succeeded step of the run reads a changed reference or what a step it just
\* invalidated wrote, every step it invalidated reads one or the other, or
\* what a step invalidated before wrote, and steps of other runs keep their
\* status.
InvalidationExact ==
    [][\A r \in Runs, ref \in artifacts : InvalidateDependents(r, {ref}) =>
        LET hit == {s \in DOMAIN steps : steps'[s] # steps[s]}
            gone == {s \in StepsOf(r) : steps'[s].status = "invalidated"}
        IN  /\ hit \subseteq StepsOf(r)
            /\ \A s \in StepsOf(r) : steps'[s].status = "succeeded" =>
                  steps[s].spec.inputs \cap ({ref} \cup UNION {Written(a) : a \in hit}) = {}
            /\ \A s \in hit :
                  steps[s].spec.inputs
                    \cap ({ref} \cup UNION {Written(a) : a \in gone \ {s}}) # {}]_vars

Latest(o) == CHOOSE v \in {0} \cup {steps[s].versions[o] :
                              s \in {u \in DOMAIN steps : o \in steps[u].spec.targets}} :
                \A s \in DOMAIN steps :
                    o \in steps[s].spec.targets => steps[s].versions[o] <= v

\* Clients may always draw a new key: Keys bounds the ones the model hands out.
ASSUME UnusedKeyAssumption == "unused" \notin Keys

\* Would reserve_and_enqueue take this specification under a new key?
Accepts(spec) ==
    /\ WellFormed(spec)
    /\ WellFormed(ValidationSpec(spec))
    /\ ValidateStepSpec(ValidationSpec(spec))
    /\ \E k \in Keys \cup {"unused"} :
          /\ ~KeyUsed(spec, k)
          /\ RerunAllowed(spec, k, [o \in spec.targets |-> Latest(o) + 1])
    /\ ReferencesHold(spec)
    /\ ~SameFingerprint(spec)

RerunOf(s, parent, pins) ==
    [steps[s].spec EXCEPT !.parent = parent, !.preserved = pins]

Ended(s) == steps[s].status \in {"failed", "invalidated"}

IsWhole(s) == OutputsOf(steps[s].spec.kind) \cap Singles \subseteq steps[s].spec.targets

\* A whole step that failed or was invalidated can be rerun by a request that
\* names it, at any time before its run ends, unless that was already done:
\* whatever was reserved since, no work is lost for good.
WholeStepCanBeRerun ==
    \A s \in DOMAIN steps :
        /\ Ended(s)
        /\ IsWhole(s)
        /\ steps[s].spec.run \in open
        /\ \A u \in DOMAIN steps : steps[u].spec.parent # s
        => Accepts(RerunOf(s, s, {}))

\* Violated: the same of any failed step, by any parent and any pins.  The
\* conflict of a repeated fingerprint tells the caller to use a new explicit
\* rerun.
FailedStepCanBeRerun ==
    \A s \in DOMAIN steps :
        /\ steps[s].status = "failed"
        /\ steps[s].spec.run \in open
        /\ \A u \in DOMAIN steps : steps[u].spec.parent # s
        => \E parent \in StepsOf(steps[s].spec.run) :
              \E pins \in PinChoices(parent, steps[s].spec.targets) :
                  Accepts(RerunOf(s, parent, pins))

\* A step run as a batch of the ledger.
BatchOf(s) ==
    [run |-> steps[s].spec.run, reads |-> steps[s].spec.inputs,
     pins |-> steps[s].spec.preserved, writes |-> Written(s),
     state |-> steps[s].status]

Ledger == INSTANCE StreamLedger WITH
    Batches <- StepIds,
    Given <- [stream : Externals, version : ExternalVersions],
    stored <- artifacts,
    batches <- [s \in DOMAIN steps |-> BatchOf(s)]

\* Step runs implement the ledger: though a reservation is many statements of
\* transactions that interleave, in several runs, it takes effect at once, with
\* versions above all that is stored or reserved by then; a step run reads
\* what was stored before it, and stores all of its outputs or none; and an
\* invalidation marks what depends on the change.
ImplementsLedger == Ledger!Spec

-----------------------------------------------------------------------------
(* Why the invariants hold: the parts of the inductive invariants of       *)
(* StepRunProofs                                                           *)

\* A stream is locked by one transaction at a time.
LocksExclusive ==
    \A t, u \in Sessions : t # u => Held(t) \cap Held(u) = {}

\* No committed step has the version that a transaction has read for a stream
\* it still holds.
HeldAreFresh ==
    \A t \in Sessions : \A o \in Held(t), s \in DOMAIN steps :
        o \in steps[s].spec.targets => steps[s].versions[o] # session[t].versions[o]

\* StreamVersionsDistinct, stream by stream.
VersionsDistinct ==
    \A s, u \in DOMAIN steps : s # u =>
        \A o \in steps[s].spec.targets \cap steps[u].spec.targets :
            steps[s].versions[o] # steps[u].versions[o]

IInv == TypeOK /\ LocksExclusive /\ HeldAreFresh /\ VersionsDistinct

\* A specification names outputs of its node only.
Fits(spec) == spec.targets # {} /\ spec.targets \subseteq OutputsOf(spec.kind)

\* What is validated when a transaction begins, and holds to its end.
SpecsFit ==
    /\ \A s \in DOMAIN steps : Fits(steps[s].spec)
    /\ \A t \in InFlight : /\ Fits(session[t].spec)
                          /\ session[t].spec.parent \in DOMAIN steps \cup {NoStep}

RerunInv == TypeOK /\ SpecsFit /\ RerunStaysAtNode

\* Streams are locked in the order of the node's outputs: what a transaction
\* holds comes before all that it has still to lock.
LocksInOrder ==
    \A t \in InFlight : \A o \in Held(t) :
        LET order == Outputs[session[t].spec.kind] IN
        \E j \in DOMAIN order :
            /\ order[j] = o
            /\ \A i \in DOMAIN order :
                  order[i] \in session[t].spec.targets \ Held(t) => j < i

LockInv == RerunInv /\ LocksInOrder

\* What else is validated when a transaction begins: inputs for every binding,
\* and a specification without a parent names every single output.  Who pins
\* something has a parent that had succeeded.
Checked(spec) ==
    /\ StreamsOf(spec.inputs) = Bindings[spec.kind]
    /\ IF spec.parent = NoStep
       THEN OutputsOf(spec.kind) \cap Singles \subseteq spec.targets
       ELSE spec.preserved # {} =>
                steps[spec.parent].status \in {"succeeded", "invalidated"}

\* It holds to the end of the transaction and of the step run; a step run also
\* reads stored artifacts only.
RequestsChecked ==
    /\ \A s \in DOMAIN steps : /\ Checked(steps[s].spec)
                              /\ steps[s].spec.inputs \subseteq artifacts
    /\ \A t \in InFlight : Checked(session[t].spec)

\* The versions of a stream have a maximum.
LatestExists ==
    \A o \in Streams :
        \E v \in {0} \cup {steps[s].versions[o] :
                           s \in {u \in DOMAIN steps : o \in steps[u].spec.targets}} :
            \A s \in DOMAIN steps :
                o \in steps[s].spec.targets => steps[s].versions[o] <= v

CoverInv == RerunInv /\ RequestsChecked /\ RerunCoversParent /\ LatestExists

\* What was reserved and has not succeeded is not stored.
NotStored ==
    /\ \A s \in DOMAIN steps : steps[s].status \in {"pending", "failed"} =>
          Written(s) \cap artifacts = {}
    /\ \A t \in Sessions : \A o \in Held(t) :
          [stream |-> o, version |-> session[t].versions[o]] \notin artifacts

StoreInv == IInv /\ NotStored

\* The version that a transaction has read for a stream it still holds is above
\* all that is committed or stored.
HeldAreNewest ==
    \A t \in Sessions : \A o \in Held(t) : \A v \in Versions(t, o) :
        v < session[t].versions[o]

NewestInv == IInv /\ HeldAreNewest

\* Who wrote an artifact: the step runs that succeeded, whatever became of them
\* since, and each of them all that it reserved.
Delivered == {s \in DOMAIN steps : steps[s].status \in {"succeeded", "invalidated"}}

WrittenBy(some) == UNION {Written(s) : s \in some}

StoredIsDelivered ==
    artifacts = [stream : Externals, version : ExternalVersions] \cup WrittenBy(Delivered)

\* What a step run depends on.
Reads(s) == steps[s].spec.inputs \cup steps[s].spec.preserved

ReadsAreStored == \A s \in DOMAIN steps : Reads(s) \subseteq artifacts

\* No step run depends on itself through others: among any step runs there is
\* one that reads and pins nothing that they wrote.
ProvenanceAcyclic ==
    \A some \in (SUBSET DOMAIN steps) \ {{}} : \E s \in some :
        Reads(s) \cap WrittenBy(some) = {}

ProvenanceInv == StoreInv /\ StoredIsDelivered /\ ReadsAreStored /\ ProvenanceAcyclic

\* The request for some items of a step, its other outputs pinned.
ItemsOf(s, items) == [RerunOf(s, s, Unaffected(s, items)) EXCEPT !.targets = items]

\* Any items of a succeeded step can be generated again by a request that names
\* it, pins its other outputs and draws a new key, before the run ends, unless
\* that very request was made before: whatever was reserved since.
ItemsCanBeRerun ==
    \A s \in DOMAIN steps :
        \A items \in (SUBSET (steps[s].spec.targets \ Singles)) \ {{}} :
            /\ steps[s].status = "succeeded"
            /\ steps[s].spec.run \in open
            /\ ~SameFingerprint(ItemsOf(s, items))
            => Accepts(ItemsOf(s, items))

\* A run is locked by one transaction at a time.
RunsLocked ==
    \A t, u \in InFlight : t # u => session[t].spec.run # session[u].spec.run

\* A key stays new until the transaction that looked it up ends.
KeysStayNew == \A t \in InFlight : ~KeyUsed(session[t].spec, session[t].key)

\* A key names at most one step run of a run and a kind, so that a replay finds
\* the one that was reserved, though a key is looked up long before its step run
\* is inserted: the constraint on the table never refuses a request.
OneStepPerKey ==
    \A s, u \in DOMAIN steps :
        /\ s # u
        /\ steps[s].spec.run = steps[u].spec.run
        /\ steps[s].spec.kind = steps[u].spec.kind
        => steps[s].key # steps[u].key

KeyInv == TypeOK /\ RunsLocked /\ KeysStayNew /\ OneStepPerKey

\* A request that nothing speaks against: what it refers to is there, it was not
\* made before, and it names no parent or, as a whole, one that is over.
Promised(t) ==
    LET spec == session[t].spec
        parent == steps[spec.parent]
    IN  /\ t \in InFlight
        /\ ReferencesHold(spec)
        /\ ~SameFingerprint(spec)
        /\ spec.parent # NoStep =>
              /\ spec.parent \in DOMAIN steps
              /\ parent.status \in {"failed", "invalidated"}
              /\ parent.key # session[t].key
              /\ parent.spec.kind = spec.kind
              /\ parent.spec.targets = spec.targets

\* Nothing that others do while a reservation is under way can speak against it:
\* no end of a run, no step run that is inserted, ends or is invalidated.
PromisesKept ==
    [][\A t \in Sessions : Promised(t) => session'[t] = Idle \/ Promised(t)']_vars

\* When its last output is reserved, nothing refuses it: the comparison with the
\* parent, made only then, finds newer versions.
PromisedCommits ==
    \A t \in Sessions : Promised(t) /\ AllReserved(t) =>
        RerunAllowed(session[t].spec, session[t].key, session[t].versions)

=============================================================================
