--------------------------- MODULE StepRunProofs ---------------------------
(***************************************************************************)
(* Reservations of one project never collide, for any definition, number   *)
(* of runs, steps and sessions, and however their statements interleave.   *)
(***************************************************************************)
EXTENDS StepRunProperties, TLAPS

LEMMA OutputsAreStreams ==
    ASSUME NEW k \in Kinds
    PROVE  OutputsOf(k) \subseteq Streams
BY DEF Streams

LEMMA WrittenAreRefs ==
    ASSUME TypeOK, NEW s \in DOMAIN steps
    PROVE  Written(s) \subseteq Ref
BY DEF TypeOK, IsStep, StepSpec, Written, Ref

-----------------------------------------------------------------------------
(* Type correctness                                                        *)

LEMMA TypeInit == Init => TypeOK
<1> SUFFICES ASSUME Init PROVE TypeOK
    OBVIOUS
<1>1. artifacts \subseteq Ref
      BY DefinitionAssumption DEF Init, Ref, Streams
<1>2. QED
      BY <1>1 DEF Init, TypeOK, IsStep

\* What a client asks for is a specification.
LEMMA RequestType ==
    ASSUME TypeOK, NEW r \in Runs, NEW k \in Kinds, NEW p \in Params,
           NEW parent \in DOMAIN steps \cup {NoStep},
           NEW inputs \in InputChoices(k), NEW targets \in SUBSET OutputsOf(k),
           NEW pins \in PinChoices(parent, targets)
    PROVE  [run |-> r, kind |-> k, params |-> p, inputs |-> inputs,
            targets |-> targets, parent |-> parent, preserved |-> pins] \in StepSpec
<1>1. inputs \subseteq Ref
      BY DEF InputChoices, TypeOK
<1>2. targets \subseteq Streams
      BY OutputsAreStreams
<1>3. pins \subseteq Ref
      BY DEF PinChoices, TypeOK
<1>4. parent \in StepIds \cup {NoStep}
      BY DEF TypeOK
<1>5. QED
      BY <1>1, <1>2, <1>3, <1>4 DEF StepSpec

LEMMA BeginType ==
    ASSUME TypeOK, NEW t \in Sessions, NEW spec \in StepSpec, NEW key \in Keys,
           Begin(t, spec, key)
    PROVE  TypeOK'
<1>1. IsReserving(session'[t])
      BY DEF Begin, IsReserving, TypeOK
<1>2. \A u \in Sessions : session'[u] = Idle \/ IsReserving(session'[u])
      BY <1>1 DEF Begin, TypeOK
<1>3. QED
      BY <1>2 DEF Begin, TypeOK, IsReserving, IsStep

LEMMA ReserveOutputType ==
    ASSUME TypeOK, NEW t \in Sessions, ReserveOutput(t)
    PROVE  TypeOK'
<1>1. PICK o \in NextOutput(t) : \E latest \in Versions(t, o) \cup {0} :
          session' = [session EXCEPT ![t].versions =
              [p \in DOMAIN @ \cup {o} |-> IF p = o THEN latest + 1 ELSE @[p]]]
      BY DEF ReserveOutput
<1>2. PICK latest \in Versions(t, o) \cup {0} :
          session' = [session EXCEPT ![t].versions =
              [p \in DOMAIN @ \cup {o} |-> IF p = o THEN latest + 1 ELSE @[p]]]
      BY <1>1
<1>3. IsReserving(session[t])
      BY DEF ReserveOutput, InFlight, TypeOK, Idle
<1>4. o \in session[t].spec.targets
      BY DEF NextOutput
<1>5. latest \in Nat
  <2>1. \A s \in DOMAIN steps : o \in steps[s].spec.targets => steps[s].versions[o] \in Nat
        BY DEF TypeOK, IsStep
  <2>2. \A ref \in artifacts : ref.version \in Nat
        BY DEF TypeOK, Ref
  <2>3. QED
        BY <2>1, <2>2 DEF Versions
<1>6. IsReserving(session'[t])
      BY <1>2, <1>3, <1>4, <1>5 DEF IsReserving, TypeOK
<1>7. \A u \in Sessions : session'[u] = Idle \/ IsReserving(session'[u])
      BY <1>2, <1>6 DEF TypeOK
<1>8. QED
      BY <1>2, <1>7 DEF ReserveOutput, TypeOK, IsStep, IsReserving

LEMMA CommitType ==
    ASSUME TypeOK, NEW t \in Sessions, NEW s \in StepIds, Commit(t, s)
    PROVE  TypeOK'
<1>1. IsReserving(session[t])
      BY DEF Commit, InFlight, TypeOK, Idle
<1>2. IsStep(steps'[s])
      BY <1>1 DEF Commit, AllReserved, IsReserving, IsStep, StepStatus
<1>3. \A i \in DOMAIN steps' : IsStep(steps'[i])
      BY <1>2 DEF Commit, TypeOK
<1>4. \A u \in Sessions : session'[u] = Idle \/ IsReserving(session'[u])
      BY DEF Commit, TypeOK
<1>5. QED
      BY <1>3, <1>4 DEF Commit, TypeOK, IsStep, IsReserving

\* A change of statuses only, with or without new artifacts.
LEMMA StatusType ==
    ASSUME TypeOK, artifacts' \subseteq Ref, open' \subseteq Runs,
           UNCHANGED session,
           steps' = [s \in DOMAIN steps' |-> steps'[s]],
           DOMAIN steps' = DOMAIN steps,
           \A s \in DOMAIN steps : \E st \in StepStatus :
               steps'[s] = [steps[s] EXCEPT !.status = st]
    PROVE  TypeOK'
<1>1. \A s \in DOMAIN steps : IsStep(steps'[s])
      BY DEF TypeOK, IsStep, StepStatus
<1>2. QED
      BY <1>1 DEF TypeOK, IsStep, IsReserving

LEMMA TypeStep == TypeOK /\ [Next]_vars => TypeOK'
<1> SUFFICES ASSUME TypeOK, [Next]_vars
             PROVE  TypeOK'
    OBVIOUS
<1>1. ASSUME NEW t \in Sessions, Request(t)
      PROVE  TypeOK'
      BY <1>1, RequestType, BeginType DEF Request
<1>2. ASSUME NEW t \in Sessions, ReserveOutput(t)
      PROVE  TypeOK'
      BY <1>2, ReserveOutputType
<1>3. ASSUME NEW t \in Sessions, Rollback(t)
      PROVE  TypeOK'
      BY <1>3 DEF Rollback, TypeOK, IsStep, IsReserving
<1>4. ASSUME NEW t \in Sessions, NEW s \in StepIds, Commit(t, s)
      PROVE  TypeOK'
      BY <1>4, CommitType
<1>5. ASSUME NEW s \in DOMAIN steps, Succeed(s)
      PROVE  TypeOK'
  <2>1. artifacts' \subseteq Ref
        BY <1>5, WrittenAreRefs DEF Succeed, TypeOK
  <2>2. \A i \in DOMAIN steps : \E st \in StepStatus :
            steps'[i] = [steps[i] EXCEPT !.status = st]
        BY <1>5 DEF Succeed, TypeOK, IsStep, StepStatus
  <2>3. QED
        BY <1>5, <2>1, <2>2, StatusType DEF Succeed, TypeOK
<1>6. ASSUME NEW s \in DOMAIN steps, Fail(s)
      PROVE  TypeOK'
  <2>1. \A i \in DOMAIN steps : \E st \in StepStatus :
            steps'[i] = [steps[i] EXCEPT !.status = st]
        BY <1>6 DEF Fail, TypeOK, IsStep, StepStatus
  <2>2. QED
        BY <1>6, <2>1, StatusType DEF Fail, TypeOK
<1>7. ASSUME NEW r \in Runs, EndRun(r)
      PROVE  TypeOK'
      BY <1>7 DEF EndRun, TypeOK, IsStep, IsReserving
<1>8. ASSUME NEW r \in Runs, NEW ref \in artifacts, InvalidateDependents(r, {ref})
      PROVE  TypeOK'
  <2>1. \A i \in DOMAIN steps : \E st \in StepStatus :
            steps'[i] = [steps[i] EXCEPT !.status = st]
        BY <1>8 DEF InvalidateDependents, TypeOK, IsStep, StepStatus
  <2>2. QED
        BY <1>8, <2>1, StatusType DEF InvalidateDependents, TypeOK
<1>9. CASE UNCHANGED vars
      BY <1>9 DEF vars, TypeOK, IsStep, IsReserving
<1>10. QED
       BY <1>1, <1>2, <1>3, <1>4, <1>5, <1>6, <1>7, <1>8, <1>9 DEF Next

\* TypeOK holds for every definition, in every reachable state.
THEOREM TypeCorrect == Spec => []TypeOK
BY TypeInit, TypeStep, PTL DEF Spec

-----------------------------------------------------------------------------
(* Versions                                                                *)

LEMMA VersionsSuffice == VersionsDistinct => StreamVersionsDistinct
BY DEF VersionsDistinct, StreamVersionsDistinct, Written

LEMMA InvariantInit == Init => IInv
<1> SUFFICES ASSUME Init PROVE IInv
    OBVIOUS
<1>1. TypeOK
      BY TypeInit
<1>2. \A t \in Sessions : Held(t) = {}
      BY DEF Init, Idle, Held, InFlight
<1>3. QED
      BY <1>1, <1>2 DEF Init, IInv, LocksExclusive, HeldAreFresh, VersionsDistinct

\* A step that takes no lock and gives no new version to a step run.
LEMMA NothingReserved ==
    ASSUME IInv, TypeOK',
           DOMAIN steps' = DOMAIN steps,
           \A s \in DOMAIN steps : /\ steps'[s].spec = steps[s].spec
                                   /\ steps'[s].versions = steps[s].versions,
           \A t \in Sessions : \/ session'[t] = session[t]
                               \/ Held(t)' = {}
    PROVE  IInv'
<1>1. \A t \in Sessions : Held(t)' \subseteq Held(t)
      BY DEF Held, InFlight
<1>2. LocksExclusive'
      BY <1>1 DEF IInv, LocksExclusive
<1>3. HeldAreFresh'
  <2>1. \A t \in Sessions : \A o \in Held(t)' : session'[t] = session[t]
        OBVIOUS
  <2>2. QED
        BY <1>1, <2>1 DEF IInv, HeldAreFresh
<1>4. VersionsDistinct'
      BY DEF IInv, VersionsDistinct
<1>5. QED
      BY <1>2, <1>3, <1>4 DEF IInv

\* The lock keeps others out, and the version read is above all that is stored.
LEMMA ReserveOutputKeeps ==
    ASSUME IInv, TypeOK', NEW t \in Sessions, ReserveOutput(t)
    PROVE  IInv'
<1>1. PICK o \in NextOutput(t) : \E latest \in Versions(t, o) \cup {0} :
          /\ StreamIsFree(o)
          /\ \A v \in Versions(t, o) : v <= latest
          /\ session' = [session EXCEPT ![t].versions =
                [p \in DOMAIN @ \cup {o} |-> IF p = o THEN latest + 1 ELSE @[p]]]
      BY DEF ReserveOutput
<1>2. PICK latest \in Versions(t, o) \cup {0} :
          /\ StreamIsFree(o)
          /\ \A v \in Versions(t, o) : v <= latest
          /\ session' = [session EXCEPT ![t].versions =
                [p \in DOMAIN @ \cup {o} |-> IF p = o THEN latest + 1 ELSE @[p]]]
      BY <1>1
<1>3. IsReserving(session[t]) /\ session[t].pc = "reserving"
      BY DEF ReserveOutput, InFlight, IInv, TypeOK, Idle
<1>4. /\ Held(t)' = Held(t) \cup {o}
      /\ \A p \in Held(t)' : session'[t].versions[p] =
            IF p = o THEN latest + 1 ELSE session[t].versions[p]
      BY <1>2, <1>3 DEF Held, InFlight, IsReserving, IInv, TypeOK
<1>5. \A u \in Sessions \ {t} : Held(u)' = Held(u) /\ session'[u] = session[u]
      BY <1>2 DEF Held, InFlight, IInv, TypeOK
<1>6. LocksExclusive'
      BY <1>2, <1>4, <1>5 DEF StreamIsFree, IInv, LocksExclusive
<1>7. \A s \in DOMAIN steps : o \in steps[s].spec.targets =>
          steps[s].versions[o] \in Nat /\ steps[s].versions[o] # latest + 1
  <2>1. \A s \in DOMAIN steps : o \in steps[s].spec.targets =>
            steps[s].versions[o] \in Versions(t, o)
        BY DEF Versions
  <2>2. latest \in Nat
    <3>1. \A s \in DOMAIN steps : o \in steps[s].spec.targets => steps[s].versions[o] \in Nat
          BY DEF IInv, TypeOK, IsStep
    <3>2. \A ref \in artifacts : ref.version \in Nat
          BY DEF IInv, TypeOK, Ref
    <3>3. QED
          BY <3>1, <3>2 DEF Versions
  <2>3. QED
        BY <1>2, <2>1, <2>2 DEF IInv, TypeOK, IsStep
<1>8. HeldAreFresh'
  <2>1. UNCHANGED steps
        BY DEF ReserveOutput
  <2>2. \A p \in Held(t)', s \in DOMAIN steps : p \in steps[s].spec.targets =>
            steps[s].versions[p] # session'[t].versions[p]
    <3> SUFFICES ASSUME NEW p \in Held(t)', NEW s \in DOMAIN steps,
                        p \in steps[s].spec.targets
                 PROVE  steps[s].versions[p] # session'[t].versions[p]
        OBVIOUS
    <3>1. CASE p = o
          BY <1>4, <1>7, <3>1
    <3>2. CASE p # o
      <4>1. p \in Held(t) /\ session'[t].versions[p] = session[t].versions[p]
            BY <1>4, <3>2
      <4>2. QED
            BY <4>1 DEF IInv, HeldAreFresh
    <3>3. QED
          BY <3>1, <3>2
  <2>3. \A u \in Sessions \ {t} : \A p \in Held(u)', s \in DOMAIN steps :
            p \in steps[s].spec.targets =>
                steps[s].versions[p] # session'[u].versions[p]
        BY <1>5 DEF IInv, HeldAreFresh
  <2>4. QED
        BY <2>1, <2>2, <2>3 DEF HeldAreFresh
<1>9. VersionsDistinct'
      BY DEF ReserveOutput, IInv, VersionsDistinct
<1>10. QED
       BY <1>6, <1>8, <1>9 DEF IInv

\* The versions that become visible are the ones the transaction still holds.
LEMMA CommitKeeps ==
    ASSUME IInv, TypeOK', NEW t \in Sessions, NEW s \in StepIds, Commit(t, s)
    PROVE  IInv'
<1>1. /\ Held(t) = session[t].spec.targets
      /\ s \notin DOMAIN steps
      /\ DOMAIN steps' = DOMAIN steps \cup {s}
      /\ \A i \in DOMAIN steps : steps'[i] = steps[i]
      /\ steps'[s].spec = session[t].spec
      /\ steps'[s].versions = session[t].versions
      BY DEF Commit, AllReserved, Held
<1>2. /\ Held(t)' = {}
      /\ \A u \in Sessions \ {t} : Held(u)' = Held(u) /\ session'[u] = session[u]
      BY DEF Commit, Held, InFlight, Idle, IInv, TypeOK
<1>3. LocksExclusive'
      BY <1>2 DEF IInv, LocksExclusive
<1>4. HeldAreFresh'
      BY <1>1, <1>2 DEF IInv, HeldAreFresh, LocksExclusive
<1>5. VersionsDistinct'
      BY <1>1 DEF IInv, HeldAreFresh, VersionsDistinct
<1>6. QED
      BY <1>3, <1>4, <1>5 DEF IInv

LEMMA InvariantStep == IInv /\ [Next]_vars => IInv'
<1> SUFFICES ASSUME IInv, [Next]_vars
             PROVE  IInv'
    OBVIOUS
<1>0. TypeOK'
      BY TypeStep DEF IInv
<1>1. ASSUME NEW t \in Sessions, Request(t)
      PROVE  IInv'
  <2>1. PICK spec, key : Begin(t, spec, key)
        BY <1>1 DEF Request
  <2>2. session'[t].versions = [o \in {} |-> 0] /\ UNCHANGED steps
        BY <2>1 DEF Begin, IInv, TypeOK
  <2>3. Held(t)' = {}
        BY <2>2 DEF Held
  <2>4. \A u \in Sessions \ {t} : session'[u] = session[u]
        BY <2>1 DEF Begin, IInv, TypeOK
  <2>5. QED
        BY <1>0, <2>2, <2>3, <2>4, NothingReserved
<1>2. ASSUME NEW t \in Sessions, Rollback(t)
      PROVE  IInv'
  <2>1. \A u \in Sessions : session'[u] = session[u] \/ Held(u)' = {}
        BY <1>2 DEF Rollback, Held, InFlight, Idle, IInv, TypeOK
  <2>2. QED
        BY <1>0, <1>2, <2>1, NothingReserved DEF Rollback
<1>3. ASSUME NEW t \in Sessions, ReserveOutput(t)
      PROVE  IInv'
      BY <1>0, <1>3, ReserveOutputKeeps
<1>4. ASSUME NEW t \in Sessions, NEW s \in StepIds, Commit(t, s)
      PROVE  IInv'
      BY <1>0, <1>4, CommitKeeps
<1>5. ASSUME NEW s \in DOMAIN steps, Succeed(s) \/ Fail(s)
      PROVE  IInv'
  <2>1. PICK st \in {"succeeded", "failed"} : steps' = [steps EXCEPT ![s].status = st]
        BY <1>5 DEF Succeed, Fail
  <2>2. UNCHANGED session
        BY <1>5 DEF Succeed, Fail
  <2>3. \A i \in DOMAIN steps : /\ steps'[i].spec = steps[i].spec
                                /\ steps'[i].versions = steps[i].versions
        BY <2>1 DEF IInv, TypeOK, IsStep
  <2>4. QED
        BY <1>0, <2>1, <2>2, <2>3, NothingReserved
<1>6. ASSUME NEW r \in Runs, EndRun(r)
      PROVE  IInv'
      BY <1>0, <1>6, NothingReserved DEF EndRun
<1>7. ASSUME NEW r \in Runs, NEW ref \in artifacts, InvalidateDependents(r, {ref})
      PROVE  IInv'
  <2>1. /\ UNCHANGED session
        /\ DOMAIN steps' = DOMAIN steps
        /\ \A i \in DOMAIN steps : /\ steps'[i].spec = steps[i].spec
                                   /\ steps'[i].versions = steps[i].versions
        BY <1>7 DEF InvalidateDependents, IInv, TypeOK, IsStep
  <2>2. QED
        BY <1>0, <2>1, NothingReserved
<1>8. CASE UNCHANGED vars
      BY <1>0, <1>8, NothingReserved DEF vars
<1>9. QED
      BY <1>1, <1>2, <1>3, <1>4, <1>5, <1>6, <1>7, <1>8 DEF Next

\* Two step runs never reserve the same version of a stream
\* (StreamVersionsDistinct).
THEOREM VersionsNeverCollide == Spec => []StreamVersionsDistinct
<1>1. Spec => []IInv
      BY InvariantInit, InvariantStep, PTL DEF Spec
<1>2. IInv => StreamVersionsDistinct
      BY VersionsSuffice DEF IInv
<1>3. QED
      BY <1>1, <1>2, PTL

-----------------------------------------------------------------------------
(* Reruns                                                                  *)

LEMMA RerunInit == Init => RerunInv
<1> SUFFICES ASSUME Init PROVE RerunInv
    OBVIOUS
<1>1. TypeOK
      BY TypeInit
<1>2. SpecsFit /\ RerunStaysAtNode
      BY DEF Init, Idle, SpecsFit, InFlight, RerunStaysAtNode
<1>3. QED
      BY <1>1, <1>2 DEF RerunInv

\* A step that adds no step run, and no transaction that is not validated.
LEMMA NothingAdded ==
    ASSUME RerunInv, TypeOK',
           DOMAIN steps' = DOMAIN steps,
           \A s \in DOMAIN steps : /\ steps'[s].spec = steps[s].spec
                                   /\ steps'[s].versions = steps[s].versions,
           \A t \in InFlight' :
               \/ t \in InFlight /\ session'[t].spec = session[t].spec
               \/ /\ Fits(session'[t].spec)
                  /\ session'[t].spec.parent \in DOMAIN steps \cup {NoStep}
    PROVE  RerunInv'
<1>1. SpecsFit'
      BY DEF RerunInv, SpecsFit, Fits
<1>2. RerunStaysAtNode'
  <2> SUFFICES ASSUME NEW s \in DOMAIN steps, steps[s].spec.parent # NoStep
               PROVE  LET q == steps[s].spec.parent IN
                      /\ q \in DOMAIN steps
                      /\ steps'[q].spec.run = steps'[s].spec.run
                      /\ steps'[q].spec.kind = steps'[s].spec.kind
                      /\ steps'[s].spec.targets \subseteq steps'[q].spec.targets
                      /\ \A o \in steps'[s].spec.targets :
                            steps'[s].versions[o] > steps'[q].versions[o]
      BY DEF RerunStaysAtNode
  <2> DEFINE q == steps[s].spec.parent
  <2>1. /\ q \in DOMAIN steps
        /\ steps[q].spec.run = steps[s].spec.run
        /\ steps[q].spec.kind = steps[s].spec.kind
        /\ steps[s].spec.targets \subseteq steps[q].spec.targets
        /\ \A o \in steps[s].spec.targets : steps[s].versions[o] > steps[q].versions[o]
        BY DEF RerunInv, RerunStaysAtNode
  <2>2. /\ steps'[s].spec = steps[s].spec /\ steps'[s].versions = steps[s].versions
        /\ steps'[q].spec = steps[q].spec /\ steps'[q].versions = steps[q].versions
        BY <2>1
  <2>3. QED
        BY <2>1, <2>2
<1>3. QED
      BY <1>1, <1>2 DEF RerunInv

\* A fan-out rerun is compared with its parent by streams only; as nodes share
\* no stream, it is of its parent's kind all the same.
LEMMA AllowedStaysAtNode ==
    ASSUME RerunInv, NEW t \in InFlight, AllReserved(t),
           session[t].spec.parent # NoStep, ReferencesHold(session[t].spec),
           RerunAllowed(session[t].spec, session[t].key, session[t].versions)
    PROVE  LET q == session[t].spec.parent IN
           /\ q \in DOMAIN steps
           /\ steps[q].spec.run = session[t].spec.run
           /\ steps[q].spec.kind = session[t].spec.kind
           /\ session[t].spec.targets \subseteq steps[q].spec.targets
           /\ \A o \in session[t].spec.targets :
                 session[t].versions[o] > steps[q].versions[o]
<1> DEFINE q == session[t].spec.parent
<1>1. q \in DOMAIN steps
      BY DEF RerunInv, SpecsFit
<1>2. steps[q].spec.run = session[t].spec.run
      BY DEF ReferencesHold
<1>3. session[t].spec.targets \subseteq steps[q].spec.targets
      BY DEF RerunAllowed, StepRerun, FanoutItemRerun
<1>4. \A o \in session[t].spec.targets : session[t].versions[o] > steps[q].versions[o]
      BY DEF RerunAllowed, StepRerun, FanoutItemRerun, Newer, AllReserved
<1>5. steps[q].spec.kind = session[t].spec.kind
  <2>1. Fits(steps[q].spec) /\ Fits(session[t].spec)
        BY <1>1 DEF RerunInv, SpecsFit
  <2>2. PICK o : o \in OutputsOf(steps[q].spec.kind) \cap OutputsOf(session[t].spec.kind)
        BY <1>3, <2>1 DEF Fits
  <2>3. steps[q].spec.kind \in Kinds /\ session[t].spec.kind \in Kinds
        BY <1>1 DEF RerunInv, TypeOK, IsStep, IsReserving, StepSpec, InFlight, Idle
  <2>4. QED
        BY <2>2, <2>3, DefinitionAssumption
<1>6. QED
      BY <1>1, <1>2, <1>3, <1>4, <1>5

LEMMA CommitStaysAtNode ==
    ASSUME RerunInv, TypeOK', NEW t \in Sessions, NEW s \in StepIds, Commit(t, s)
    PROVE  RerunInv'
<1>1. /\ t \in InFlight
      /\ s \notin DOMAIN steps
      /\ DOMAIN steps' = DOMAIN steps \cup {s}
      /\ \A i \in DOMAIN steps : steps'[i] = steps[i]
      /\ steps'[s].spec = session[t].spec
      /\ steps'[s].versions = session[t].versions
      BY DEF Commit
<1>2. \A u \in InFlight' : u \in InFlight /\ session'[u] = session[u]
      BY DEF Commit, InFlight, Idle, RerunInv, TypeOK
<1>3. SpecsFit'
      BY <1>1, <1>2 DEF RerunInv, SpecsFit, Fits
<1>4. RerunStaysAtNode'
  <2> SUFFICES ASSUME NEW i \in DOMAIN steps', steps'[i].spec.parent # NoStep
               PROVE  LET q == steps'[i].spec.parent IN
                      /\ q \in DOMAIN steps'
                      /\ steps'[q].spec.run = steps'[i].spec.run
                      /\ steps'[q].spec.kind = steps'[i].spec.kind
                      /\ steps'[i].spec.targets \subseteq steps'[q].spec.targets
                      /\ \A o \in steps'[i].spec.targets :
                            steps'[i].versions[o] > steps'[q].versions[o]
      BY DEF RerunStaysAtNode
  <2>1. CASE i = s
    <3>1. RerunAllowed(session[t].spec, session[t].key, session[t].versions)
          BY DEF Commit
    <3>2. AllReserved(t) /\ ReferencesHold(session[t].spec)
          BY DEF Commit
    <3>3. QED
          BY <1>1, <2>1, <3>1, <3>2, AllowedStaysAtNode
  <2>2. CASE i \in DOMAIN steps
        BY <1>1, <2>2 DEF RerunInv, RerunStaysAtNode
  <2>3. QED
        BY <1>1, <2>1, <2>2
<1>5. QED
      BY <1>3, <1>4 DEF RerunInv

LEMMA RerunStep == RerunInv /\ [Next]_vars => RerunInv'
<1> SUFFICES ASSUME RerunInv, [Next]_vars
             PROVE  RerunInv'
    OBVIOUS
<1>0. TypeOK'
      BY TypeStep DEF RerunInv
<1>1. ASSUME NEW t \in Sessions, Request(t)
      PROVE  RerunInv'
  <2>1. PICK spec, key :
            /\ Begin(t, spec, key)
            /\ spec.parent \in DOMAIN steps \cup {NoStep}
            /\ spec.targets \subseteq OutputsOf(spec.kind)
        BY <1>1 DEF Request
  <2>2. Fits(spec) /\ UNCHANGED steps
        BY <2>1 DEF Fits, Begin, WellFormed
  <2>3. /\ session'[t].spec = spec
        /\ \A u \in Sessions \ {t} : session'[u] = session[u]
        BY <2>1 DEF Begin, RerunInv, TypeOK
  <2>4. \A u \in InFlight' :
            \/ u \in InFlight /\ session'[u].spec = session[u].spec
            \/ /\ Fits(session'[u].spec)
               /\ session'[u].spec.parent \in DOMAIN steps \cup {NoStep}
        BY <2>1, <2>2, <2>3 DEF InFlight
  <2>5. QED
        BY <1>0, <2>2, <2>4, NothingAdded
<1>2. ASSUME NEW t \in Sessions, ReserveOutput(t) \/ Rollback(t)
      PROVE  RerunInv'
  <2>1. UNCHANGED steps
        BY <1>2 DEF ReserveOutput, Rollback
  <2>2. \A u \in InFlight' : u \in InFlight /\ session'[u].spec = session[u].spec
    <3>1. CASE ReserveOutput(t)
          BY <3>1 DEF ReserveOutput, InFlight, IsReserving, Idle, RerunInv, TypeOK
    <3>2. CASE Rollback(t)
          BY <3>2 DEF Rollback, InFlight, Idle, RerunInv, TypeOK
    <3>3. QED
          BY <1>2, <3>1, <3>2
  <2>3. QED
        BY <1>0, <2>1, <2>2, NothingAdded
<1>3. ASSUME NEW t \in Sessions, NEW s \in StepIds, Commit(t, s)
      PROVE  RerunInv'
      BY <1>0, <1>3, CommitStaysAtNode
<1>4. ASSUME NEW s \in DOMAIN steps, Succeed(s) \/ Fail(s)
      PROVE  RerunInv'
  <2>1. PICK st \in {"succeeded", "failed"} : steps' = [steps EXCEPT ![s].status = st]
        BY <1>4 DEF Succeed, Fail
  <2>2. UNCHANGED session
        BY <1>4 DEF Succeed, Fail
  <2>3. \A i \in DOMAIN steps : /\ steps'[i].spec = steps[i].spec
                                /\ steps'[i].versions = steps[i].versions
        BY <2>1 DEF RerunInv, TypeOK, IsStep
  <2>4. QED
        BY <1>0, <2>1, <2>2, <2>3, NothingAdded DEF InFlight
<1>5. ASSUME NEW r \in Runs, EndRun(r)
      PROVE  RerunInv'
      BY <1>0, <1>5, NothingAdded DEF EndRun, InFlight
<1>6. ASSUME NEW r \in Runs, NEW ref \in artifacts, InvalidateDependents(r, {ref})
      PROVE  RerunInv'
  <2>1. /\ UNCHANGED session
        /\ DOMAIN steps' = DOMAIN steps
        /\ \A i \in DOMAIN steps : /\ steps'[i].spec = steps[i].spec
                                   /\ steps'[i].versions = steps[i].versions
        BY <1>6 DEF InvalidateDependents, RerunInv, TypeOK, IsStep
  <2>2. QED
        BY <1>0, <2>1, NothingAdded DEF InFlight
<1>7. CASE UNCHANGED vars
      BY <1>0, <1>7, NothingAdded DEF vars, InFlight
<1>8. QED
      BY <1>1, <1>2, <1>3, <1>4, <1>5, <1>6, <1>7 DEF Next

\* A rerun stays at its node, whatever happens to its parent meanwhile
\* (RerunStaysAtNode).
THEOREM RerunsStay == Spec => []RerunStaysAtNode
<1>1. Spec => []RerunInv
      BY RerunInit, RerunStep, PTL DEF Spec
<1>2. RerunInv => RerunStaysAtNode
      BY DEF RerunInv
<1>3. QED
      BY <1>1, <1>2, PTL

-----------------------------------------------------------------------------
(* Locks                                                                   *)

\* A transaction in flight and its specification.
LEMMA FlightFields ==
    ASSUME RerunInv, NEW t \in InFlight
    PROVE  /\ t \in Sessions
           /\ session[t].spec.kind \in Kinds
           /\ session[t].spec.targets \subseteq OutputsOf(session[t].spec.kind)
           /\ Held(t) = DOMAIN session[t].versions
           /\ Held(t) \subseteq session[t].spec.targets
BY DEF RerunInv, TypeOK, SpecsFit, Fits, IsReserving, StepSpec, InFlight, Idle, Held

\* The next output is the first of those that are not yet locked.
LEMMA NextIsFirst ==
    ASSUME RerunInv, NEW t \in InFlight, NEW o \in NextOutput(t)
    PROVE  \E i \in DOMAIN Outputs[session[t].spec.kind] :
              /\ Outputs[session[t].spec.kind][i] = o
              /\ o \in session[t].spec.targets \ Held(t)
              /\ \A l \in DOMAIN Outputs[session[t].spec.kind] :
                    Outputs[session[t].spec.kind][l] \in session[t].spec.targets \ Held(t)
                       => i <= l
BY FlightFields DEF NextOutput

LEMMA OrderKept ==
    ASSUME LocksInOrder,
           \A t \in Sessions : \/ session'[t] = session[t]
                               \/ Held(t)' = {}
    PROVE  LocksInOrder'
<1>1. SUFFICES ASSUME NEW t \in InFlight', NEW o \in Held(t)'
               PROVE  \E j \in DOMAIN Outputs[session'[t].spec.kind] :
                         /\ Outputs[session'[t].spec.kind][j] = o
                         /\ \A i \in DOMAIN Outputs[session'[t].spec.kind] :
                               Outputs[session'[t].spec.kind][i]
                                  \in session'[t].spec.targets \ Held(t)' => j < i
  BY DEF LocksInOrder
<1>2. session'[t] = session[t] /\ t \in InFlight
  BY <1>1 DEF InFlight
<1>3. Held(t)' = Held(t)
  BY <1>2 DEF Held, InFlight
<1>4. QED
  BY <1>2, <1>3 DEF LocksInOrder

\* The output locked last precedes what is still to be locked, and so do, all
\* the more, the ones locked before.
LEMMA ReserveOutputInOrder ==
    ASSUME LockInv, NEW t \in Sessions, ReserveOutput(t)
    PROVE  LocksInOrder'
<1>1. PICK o \in NextOutput(t) : \E latest \in Versions(t, o) \cup {0} :
          session' = [session EXCEPT ![t].versions =
              [p \in DOMAIN @ \cup {o} |-> IF p = o THEN latest + 1 ELSE @[p]]]
  BY DEF ReserveOutput
<1>2. t \in InFlight /\ RerunInv
  BY DEF ReserveOutput, LockInv
<1>3. PICK spec : spec = session[t].spec
  OBVIOUS
<1>4. /\ session'[t].pc = "reserving"
      /\ session'[t].spec = spec
      /\ Held(t)' = Held(t) \cup {o}
  BY <1>1, <1>2, <1>3 DEF LockInv, RerunInv, TypeOK, IsReserving, InFlight, Idle, Held
<1>5. \A u \in Sessions \ {t} : session'[u] = session[u] /\ Held(u)' = Held(u)
  BY <1>1, <1>2 DEF Held, InFlight, RerunInv, TypeOK
<1>6. PICK i \in DOMAIN Outputs[spec.kind] :
         /\ Outputs[spec.kind][i] = o
         /\ o \in spec.targets \ Held(t)
         /\ \A l \in DOMAIN Outputs[spec.kind] :
               Outputs[spec.kind][l] \in spec.targets \ Held(t) => i <= l
  BY <1>2, <1>3, NextIsFirst
<1>7. DOMAIN Outputs[spec.kind] \subseteq Nat
  BY <1>2, <1>3, FlightFields, DefinitionAssumption
<1>8. \A l \in DOMAIN Outputs[spec.kind] :
         Outputs[spec.kind][l] \in spec.targets \ Held(t)' => i < l
  BY <1>4, <1>6, <1>7
<1>9. ASSUME NEW p \in Held(t)'
      PROVE  \E j \in DOMAIN Outputs[spec.kind] :
                /\ Outputs[spec.kind][j] = p
                /\ \A l \in DOMAIN Outputs[spec.kind] :
                      Outputs[spec.kind][l] \in spec.targets \ Held(t)' => j < l
  <2>1. CASE p = o
    BY <1>6, <1>8, <2>1
  <2>2. CASE p \in Held(t)
    BY <1>2, <1>3, <1>4, <2>2 DEF LockInv, LocksInOrder
  <2>3. QED
    BY <1>4, <2>1, <2>2
<1>10. ASSUME NEW u \in InFlight', u # t, NEW p \in Held(u)'
       PROVE  \E j \in DOMAIN Outputs[session'[u].spec.kind] :
                 /\ Outputs[session'[u].spec.kind][j] = p
                 /\ \A l \in DOMAIN Outputs[session'[u].spec.kind] :
                       Outputs[session'[u].spec.kind][l]
                          \in session'[u].spec.targets \ Held(u)' => j < l
  <2>1. u \in Sessions /\ session'[u] = session[u] /\ Held(u)' = Held(u)
    BY <1>5, <1>10 DEF InFlight
  <2>2. u \in InFlight
    BY <1>10, <2>1 DEF InFlight
  <2>3. QED
    BY <1>10, <2>1, <2>2 DEF LockInv, LocksInOrder
<1>11. QED
  BY <1>4, <1>9, <1>10 DEF LocksInOrder

\* Every other step leaves a transaction alone, begins or ends it.
LEMMA SessionsStep ==
    ASSUME TypeOK, [Next]_vars
    PROVE  \/ \E t \in Sessions : ReserveOutput(t)
           \/ \A t \in Sessions : session'[t] = session[t] \/ Held(t)' = {}
<1>1. ASSUME NEW t \in Sessions, Request(t)
      PROVE  \A u \in Sessions : session'[u] = session[u] \/ Held(u)' = {}
  <2>1. PICK spec, key : Begin(t, spec, key)
    BY <1>1 DEF Request
  <2>2. session'[t].versions = [o \in {} |-> 0]
    BY <2>1 DEF Begin, TypeOK
  <2>3. Held(t)' = {}
    BY <2>2 DEF Held
  <2>4. QED
    BY <2>1, <2>3 DEF Begin, TypeOK
<1>2. ASSUME NEW t \in Sessions, Rollback(t) \/ \E s \in StepIds : Commit(t, s)
      PROVE  \A u \in Sessions : session'[u] = session[u] \/ Held(u)' = {}
  <2>1. session' = [session EXCEPT ![t] = Idle]
    BY <1>2 DEF Rollback, Commit
  <2>2. Held(t)' = {}
    BY <2>1 DEF Held, InFlight, Idle, TypeOK
  <2>3. QED
    BY <2>1, <2>2 DEF TypeOK
<1>3. CASE \/ \E s \in DOMAIN steps : Succeed(s) \/ Fail(s)
           \/ \E r \in Runs : EndRun(r)
           \/ \E r \in Runs, ref \in artifacts : InvalidateDependents(r, {ref})
           \/ UNCHANGED vars
  <2>1. UNCHANGED session
    BY <1>3 DEF Succeed, Fail, EndRun, InvalidateDependents, vars
  <2>2. QED
    BY <2>1
<1>4. QED
  BY <1>1, <1>2, <1>3 DEF Next

LEMMA LockInit == Init => LockInv
<1>1. Init => RerunInv
  BY RerunInit
<1>2. Init => LocksInOrder
  BY DEF Init, LocksInOrder, InFlight, Idle
<1>3. QED
  BY <1>1, <1>2 DEF LockInv

LEMMA LockStep == LockInv /\ [Next]_vars => LockInv'
<1>1. SUFFICES ASSUME LockInv, [Next]_vars PROVE LockInv'
  OBVIOUS
<1>2. RerunInv'
  BY <1>1, RerunStep DEF LockInv
<1>3. LocksInOrder'
  BY <1>1, SessionsStep, OrderKept, ReserveOutputInOrder DEF LockInv, RerunInv
<1>4. QED
  BY <1>2, <1>3 DEF LockInv

\* The places of the outputs that a transaction has still to lock.
ToLock(t) == {i \in DOMAIN Outputs[session[t].spec.kind] :
    Outputs[session[t].spec.kind][i] \in session[t].spec.targets \ Held(t)}

\* A session that waits for another has its next output before all outputs
\* that the other has still to lock: along a chain of waiting sessions, of any
\* length, the places of the next outputs only rise, so it never closes.
WaitsClimb ==
    \A t, u \in Sessions : WaitsFor(t, u) =>
        \E i \in ToLock(t) : \A j \in ToLock(u) : i < j

LEMMA InOrderClimbs == LockInv => WaitsClimb
<1>1. SUFFICES ASSUME LockInv, NEW t \in Sessions, NEW u \in Sessions,
                      WaitsFor(t, u)
               PROVE  \E i \in ToLock(t) : \A j \in ToLock(u) : i < j
  BY DEF WaitsClimb
<1>2. RerunInv /\ t \in InFlight
  BY <1>1 DEF LockInv, WaitsFor
<1>3. PICK o : o \in NextOutput(t) /\ o \in Held(u)
  BY <1>1 DEF WaitsFor
<1>4. u \in InFlight
  BY <1>3 DEF Held
<1>5. PICK k : k = session[t].spec.kind
  OBVIOUS
<1>6. session[u].spec.kind = k /\ DOMAIN Outputs[k] \subseteq Nat
  <2>1. o \in OutputsOf(k) /\ o \in OutputsOf(session[u].spec.kind)
    BY <1>2, <1>3, <1>4, <1>5, FlightFields, NextIsFirst
  <2>2. QED
    BY <1>2, <1>4, <1>5, <2>1, FlightFields, DefinitionAssumption
<1>7. PICK i \in DOMAIN Outputs[k] :
         /\ Outputs[k][i] = o
         /\ \A l \in DOMAIN Outputs[k] :
               Outputs[k][l] \in session[u].spec.targets \ Held(u) => i < l
  BY <1>1, <1>3, <1>4, <1>6 DEF LockInv, LocksInOrder
<1>8. i \in ToLock(t)
  BY <1>2, <1>3, <1>5, <1>7, NextIsFirst DEF ToLock
<1>9. QED
  BY <1>6, <1>7, <1>8 DEF ToLock

\* Two sessions that waited for each other would each have a first output to
\* lock before that of the other.
LEMMA ClimbsNoCycle == LockInv /\ WaitsClimb => NoLockCycle
<1>1. SUFFICES ASSUME LockInv, WaitsClimb, NEW t \in Sessions, NEW u \in Sessions,
                      WaitsFor(t, u), WaitsFor(u, t)
               PROVE  FALSE
  BY DEF NoLockCycle
<1>2. PICK i \in ToLock(t) : \A j \in ToLock(u) : i < j
  BY <1>1 DEF WaitsClimb
<1>3. PICK j \in ToLock(u) : \A l \in ToLock(t) : j < l
  BY <1>1 DEF WaitsClimb
<1>4. RerunInv /\ t \in InFlight /\ u \in InFlight
  BY <1>1 DEF LockInv, WaitsFor
<1>5. i \in Nat /\ j \in Nat
  BY <1>4, FlightFields, DefinitionAssumption DEF ToLock
<1>6. i < j /\ j < i
  BY <1>2, <1>3
<1>7. QED
  BY <1>5, <1>6

\* No two sessions wait for each other's streams, for any definition and any
\* number of sessions (NoLockCycle).
THEOREM NoSessionsDeadlock == Spec => []NoLockCycle
<1>1. Spec => []LockInv
  BY LockInit, LockStep, PTL DEF Spec
<1>2. LockInv => NoLockCycle
  BY InOrderClimbs, ClimbsNoCycle
<1>3. QED
  BY <1>1, <1>2, PTL

\* Nor does a chain of more sessions close (WaitsClimb).
THEOREM NoChainCloses == Spec => []WaitsClimb
<1>1. Spec => []LockInv
  BY LockInit, LockStep, PTL DEF Spec
<1>2. QED
  BY <1>1, InOrderClimbs, PTL

-----------------------------------------------------------------------------
(* What a rerun covers, and which step can be rerun                        *)

\* The outputs a rerun of the targets leaves alone.
LEMMA UnaffectedStreams ==
    ASSUME NEW q, NEW targets
    PROVE  StreamsOf(Unaffected(q, targets)) = steps[q].spec.targets \ targets
<1>1. ASSUME NEW o \in StreamsOf(Unaffected(q, targets))
      PROVE  o \in steps[q].spec.targets \ targets
  BY <1>1 DEF Unaffected, Written, StreamsOf
<1>2. ASSUME NEW o \in steps[q].spec.targets \ targets
      PROVE  o \in StreamsOf(Unaffected(q, targets))
  <2>1. PICK ref : ref = [stream |-> o, version |-> steps[q].versions[o]]
    OBVIOUS
  <2>2. ref \in Unaffected(q, targets) /\ ref.stream = o
    BY <1>2, <2>1 DEF Unaffected, Written
  <2>3. QED
    BY <2>2 DEF StreamsOf
<1>3. QED
  BY <1>1, <1>2

\* What Begin validates, of a specification with or without a parent.
LEMMA BeginChecks ==
    ASSUME NEW t \in Sessions, NEW spec \in StepSpec, NEW key, Begin(t, spec, key)
    PROVE  Checked(spec)
<1>1. PICK checked : checked = ValidationSpec(spec)
  OBVIOUS
<1>2. /\ checked.inputs = spec.inputs
      /\ checked.kind = spec.kind
      /\ checked.targets = spec.targets
      /\ spec.parent = NoStep => checked = spec
  BY <1>1 DEF ValidationSpec, StepSpec
<1>3. ValidateStepSpec(checked) /\ WellFormed(checked)
  BY <1>1 DEF Begin
<1>4. ASSUME spec.parent # NoStep, steps[spec.parent].status # "succeeded"
      PROVE  spec.preserved = {}
  <2>1. checked = [spec EXCEPT !.parent = NoStep]
    BY <1>1, <1>4 DEF ValidationSpec
  <2>2. checked.parent = NoStep /\ checked.preserved = spec.preserved
    BY <2>1 DEF StepSpec
  <2>3. QED
    BY <1>3, <2>2 DEF WellFormed
<1>5. QED
  BY <1>2, <1>3, <1>4 DEF ValidateStepSpec, Checked

\* A step that adds no step run, undoes no success but by an invalidation and no
\* invalidation, forgets no artifact and begins no transaction that is not
\* validated.
LEMMA CoverKept ==
    ASSUME CoverInv, RerunInv',
           DOMAIN steps' = DOMAIN steps,
           \A s \in DOMAIN steps :
               /\ steps'[s].spec = steps[s].spec
               /\ steps'[s].versions = steps[s].versions
               /\ steps[s].status \in {"succeeded", "invalidated"} =>
                     steps'[s].status \in {"succeeded", "invalidated"}
               /\ steps[s].status = "invalidated" => steps'[s].status = "invalidated",
           artifacts \subseteq artifacts',
           \A t \in InFlight' :
               \/ t \in InFlight /\ session'[t].spec = session[t].spec
               \/ /\ Checked(session'[t].spec)
                  /\ session'[t].spec.parent \in DOMAIN steps \cup {NoStep}
    PROVE  CoverInv'
<1>1. ASSUME NEW spec, spec.parent \in DOMAIN steps \cup {NoStep}, Checked(spec)
      PROVE  /\ StreamsOf(spec.inputs) = Bindings[spec.kind]
             /\ IF spec.parent = NoStep
                THEN OutputsOf(spec.kind) \cap Singles \subseteq spec.targets
                ELSE spec.preserved # {} =>
                         steps'[spec.parent].status \in {"succeeded", "invalidated"}
  BY <1>1 DEF Checked
<1>2. \A s \in DOMAIN steps : steps[s].spec.parent \in DOMAIN steps \cup {NoStep}
  BY DEF CoverInv, RerunInv, RerunStaysAtNode
<1>3. \A t \in InFlight : session[t].spec.parent \in DOMAIN steps \cup {NoStep}
  BY DEF CoverInv, RerunInv, SpecsFit
<1>4. RequestsChecked'
  <2>1. ASSUME NEW s \in DOMAIN steps'
        PROVE  Checked(steps[s].spec)' /\ steps'[s].spec.inputs \subseteq artifacts'
    <3>1. PICK spec : spec = steps[s].spec
      OBVIOUS
    <3>2. steps'[s].spec = spec /\ s \in DOMAIN steps
      BY <2>1, <3>1
    <3>3. Checked(spec) /\ spec.inputs \subseteq artifacts
          /\ spec.parent \in DOMAIN steps \cup {NoStep}
      BY <1>2, <3>1, <3>2 DEF CoverInv, RequestsChecked
    <3>4. /\ StreamsOf(spec.inputs) = Bindings[spec.kind]
          /\ IF spec.parent = NoStep
             THEN OutputsOf(spec.kind) \cap Singles \subseteq spec.targets
             ELSE spec.preserved # {} =>
                      steps'[spec.parent].status \in {"succeeded", "invalidated"}
      BY <1>1, <3>3
    <3>5. QED
      BY <3>2, <3>3, <3>4 DEF Checked
  <2>2. ASSUME NEW t \in InFlight'
        PROVE  Checked(session[t].spec)'
    <3>1. PICK spec : spec = session'[t].spec
      OBVIOUS
    <3>2. Checked(spec) /\ spec.parent \in DOMAIN steps \cup {NoStep}
      BY <1>3, <2>2, <3>1 DEF CoverInv, RequestsChecked
    <3>3. /\ StreamsOf(spec.inputs) = Bindings[spec.kind]
          /\ IF spec.parent = NoStep
             THEN OutputsOf(spec.kind) \cap Singles \subseteq spec.targets
             ELSE spec.preserved # {} =>
                      steps'[spec.parent].status \in {"succeeded", "invalidated"}
      BY <1>1, <3>2
    <3>4. QED
      BY <3>1, <3>3 DEF Checked
  <2>3. QED
    BY <2>1, <2>2 DEF RequestsChecked
<1>5. RerunCoversParent'
  <2>1. ASSUME NEW s \in DOMAIN steps
        PROVE  CoversParent(s)'
    <3>1. CASE steps[s].spec.parent = NoStep
      BY <2>1, <3>1 DEF CoverInv, RerunCoversParent, CoversParent
    <3>2. CASE steps[s].spec.parent \in DOMAIN steps /\ steps[s].spec.parent # NoStep
      BY <2>1, <3>2 DEF CoverInv, RerunCoversParent, CoversParent, Left, Written
    <3>3. QED
      BY <1>2, <2>1, <3>1, <3>2
  <2>2. QED
    BY <2>1 DEF RerunCoversParent
<1>6. LatestExists'
  BY DEF CoverInv, LatestExists
<1>7. QED
  BY <1>4, <1>5, <1>6 DEF CoverInv

\* The new step run covers its parent: a whole rerun writes all that the parent
\* wrote, a rerun of items pins exactly what it leaves alone.
LEMMA AllowedCovers ==
    ASSUME CoverInv, NEW t \in InFlight, NEW spec, spec = session[t].spec,
           spec.parent # NoStep,
           RerunAllowed(spec, session[t].key, session[t].versions)
    PROVE  /\ Left(spec) \subseteq spec.preserved
           /\ \/ spec.preserved = Left(spec)
              \/ /\ steps[spec.parent].status = "invalidated"
                 /\ spec.targets = steps[spec.parent].spec.targets
<1>1. CASE StepRerun(spec, session[t].key, session[t].versions)
  <2>1. spec.targets = steps[spec.parent].spec.targets
    BY <1>1 DEF StepRerun
  <2>2. Left(spec) = {}
    BY <2>1 DEF Left, Written
  <2>3. spec.preserved # {} => steps[spec.parent].status \in {"succeeded", "invalidated"}
    BY DEF CoverInv, RequestsChecked, Checked
  <2>4. QED
    BY <1>1, <2>1, <2>2, <2>3 DEF StepRerun
<1>2. CASE FanoutItemRerun(spec, session[t].key, session[t].versions)
  BY <1>2 DEF FanoutItemRerun, Unaffected, Left
<1>3. QED
  BY <1>1, <1>2 DEF RerunAllowed

\* A new version, above or below what there is, leaves a maximum.
LEMMA CommitLatest ==
    ASSUME CoverInv, TypeOK', NEW s, s \notin DOMAIN steps,
           DOMAIN steps' = DOMAIN steps \cup {s},
           \A i \in DOMAIN steps : steps'[i] = steps[i],
           NEW o \in Streams
    PROVE  \E v \in {0} \cup {steps'[i].versions[o] :
                       i \in {u \in DOMAIN steps' : o \in steps'[u].spec.targets}} :
              \A i \in DOMAIN steps' :
                  o \in steps'[i].spec.targets => steps'[i].versions[o] <= v
<1>1. PICK v \in {0} \cup {steps[i].versions[o] :
                     i \in {u \in DOMAIN steps : o \in steps[u].spec.targets}} :
            \A i \in DOMAIN steps :
                o \in steps[i].spec.targets => steps[i].versions[o] <= v
  BY DEF CoverInv, LatestExists
<1>2. \A i \in DOMAIN steps' : o \in steps'[i].spec.targets => steps'[i].versions[o] \in Nat
  BY DEF TypeOK, IsStep
<1>3. v \in Nat
  BY <1>1, <1>2
<1>4. CASE o \in steps'[s].spec.targets /\ steps'[s].versions[o] > v
  <2>1. \A i \in DOMAIN steps' : o \in steps'[i].spec.targets =>
           steps'[i].versions[o] <= steps'[s].versions[o]
    BY <1>1, <1>2, <1>3, <1>4
  <2>2. QED
    BY <1>4, <2>1
<1>5. CASE ~(o \in steps'[s].spec.targets /\ steps'[s].versions[o] > v)
  <2>1. \A i \in DOMAIN steps' : o \in steps'[i].spec.targets =>
           steps'[i].versions[o] <= v
    BY <1>1, <1>2, <1>3, <1>5
  <2>2. v \in {0} \cup {steps'[i].versions[o] :
                 i \in {u \in DOMAIN steps' : o \in steps'[u].spec.targets}}
    BY <1>1
  <2>3. QED
    BY <2>1, <2>2
<1>6. QED
  BY <1>4, <1>5

LEMMA CommitCovers ==
    ASSUME CoverInv, RerunInv', NEW t \in Sessions, NEW s \in StepIds, Commit(t, s)
    PROVE  CoverInv'
<1>1. /\ t \in InFlight
      /\ s \notin DOMAIN steps
      /\ DOMAIN steps' = DOMAIN steps \cup {s}
      /\ \A i \in DOMAIN steps : steps'[i] = steps[i]
      /\ steps'[s].spec = session[t].spec
      /\ steps'[s].versions = session[t].versions
      /\ artifacts' = artifacts
  BY DEF Commit
<1>2. \A u \in InFlight' : u \in InFlight /\ session'[u] = session[u]
  BY DEF Commit, InFlight, Idle, CoverInv, RerunInv, TypeOK
<1>3. ASSUME NEW spec, spec.parent \in DOMAIN steps \cup {NoStep}, Checked(spec)
      PROVE  /\ StreamsOf(spec.inputs) = Bindings[spec.kind]
             /\ IF spec.parent = NoStep
                THEN OutputsOf(spec.kind) \cap Singles \subseteq spec.targets
                ELSE spec.preserved # {} =>
                         steps'[spec.parent].status \in {"succeeded", "invalidated"}
  BY <1>1, <1>3 DEF Checked
<1>4. \A i \in DOMAIN steps : steps[i].spec.parent \in DOMAIN steps \cup {NoStep}
  BY DEF CoverInv, RerunInv, RerunStaysAtNode
<1>5. \A u \in InFlight : session[u].spec.parent \in DOMAIN steps \cup {NoStep}
  BY DEF CoverInv, RerunInv, SpecsFit
<1>6. RequestsChecked'
  <2>1. ASSUME NEW i \in DOMAIN steps'
        PROVE  Checked(steps[i].spec)' /\ steps'[i].spec.inputs \subseteq artifacts'
    <3>1. PICK spec : spec = steps'[i].spec
      OBVIOUS
    <3>2. /\ spec.parent \in DOMAIN steps \cup {NoStep}
          /\ Checked(spec)
          /\ spec.inputs \subseteq artifacts
      <4>1. CASE i = s
        BY <1>1, <1>5, <3>1, <4>1 DEF CoverInv, RequestsChecked, Commit, ReferencesHold
      <4>2. CASE i \in DOMAIN steps
        BY <1>1, <1>4, <3>1, <4>2 DEF CoverInv, RequestsChecked
      <4>3. QED
        BY <1>1, <2>1, <4>1, <4>2
    <3>3. /\ StreamsOf(spec.inputs) = Bindings[spec.kind]
          /\ IF spec.parent = NoStep
             THEN OutputsOf(spec.kind) \cap Singles \subseteq spec.targets
             ELSE spec.preserved # {} =>
                      steps'[spec.parent].status \in {"succeeded", "invalidated"}
      BY <1>3, <3>2
    <3>4. QED
      BY <1>1, <3>1, <3>2, <3>3 DEF Checked
  <2>2. ASSUME NEW u \in InFlight'
        PROVE  Checked(session[u].spec)'
    <3>1. PICK spec : spec = session[u].spec
      OBVIOUS
    <3>2. Checked(spec) /\ spec.parent \in DOMAIN steps \cup {NoStep}
          /\ session'[u].spec = spec
      BY <1>2, <1>5, <2>2, <3>1 DEF CoverInv, RequestsChecked
    <3>3. /\ StreamsOf(spec.inputs) = Bindings[spec.kind]
          /\ IF spec.parent = NoStep
             THEN OutputsOf(spec.kind) \cap Singles \subseteq spec.targets
             ELSE spec.preserved # {} =>
                      steps'[spec.parent].status \in {"succeeded", "invalidated"}
      BY <1>3, <3>2
    <3>4. QED
      BY <3>2, <3>3 DEF Checked
  <2>3. QED
    BY <2>1, <2>2 DEF RequestsChecked
<1>7. RerunCoversParent'
  <2>1. ASSUME NEW i \in DOMAIN steps', steps'[i].spec.parent = NoStep
        PROVE  CoversParent(i)'
    BY <1>6, <2>1 DEF RequestsChecked, Checked, CoversParent
  <2>2. ASSUME NEW i \in DOMAIN steps', steps'[i].spec.parent # NoStep
        PROVE  CoversParent(i)'
    <3>1. CASE i = s
      <4>1. PICK spec : spec = session[t].spec
        OBVIOUS
      <4>2. /\ Left(spec) \subseteq spec.preserved
            /\ \/ spec.preserved = Left(spec)
               \/ /\ steps[spec.parent].status = "invalidated"
                  /\ spec.targets = steps[spec.parent].spec.targets
        BY <1>1, <2>2, <3>1, <4>1, AllowedCovers DEF Commit
      <4>3. spec.parent \in DOMAIN steps /\ steps'[i].spec = spec
        BY <1>1, <1>5, <2>2, <3>1, <4>1
      <4>4. QED
        BY <1>1, <2>2, <4>2, <4>3 DEF CoversParent, Left, Written
    <3>2. CASE i \in DOMAIN steps
      <4>1. PICK spec : spec = steps[i].spec
        OBVIOUS
      <4>2. spec.parent \in DOMAIN steps /\ steps'[i].spec = spec /\ spec.parent # NoStep
        BY <1>1, <1>4, <2>2, <3>2, <4>1
      <4>3. CoversParent(i)
        BY <3>2 DEF CoverInv, RerunCoversParent
      <4>4. /\ Left(spec) \subseteq spec.preserved
            /\ \/ spec.preserved = Left(spec)
               \/ /\ steps[spec.parent].status = "invalidated"
                  /\ spec.targets = steps[spec.parent].spec.targets
        BY <4>1, <4>2, <4>3 DEF CoversParent
      <4>5. steps'[spec.parent] = steps[spec.parent]
        BY <1>1, <4>2
      <4>6. QED
        BY <4>2, <4>4, <4>5 DEF CoversParent, Left, Written
    <3>3. QED
      BY <1>1, <2>2, <3>1, <3>2
  <2>3. QED
    BY <2>1, <2>2 DEF RerunCoversParent
<1>8. LatestExists'
  BY <1>1, CommitLatest DEF RerunInv, LatestExists
<1>9. QED
  BY <1>6, <1>7, <1>8 DEF CoverInv

LEMMA CoverInit == Init => CoverInv
<1>1. SUFFICES ASSUME Init PROVE CoverInv
  OBVIOUS
<1>2. RerunInv
  BY <1>1, RerunInit
<1>3. DOMAIN steps = {} /\ InFlight = {}
  BY <1>1 DEF Init, InFlight, Idle
<1>4. QED
  BY <1>2, <1>3 DEF CoverInv, RequestsChecked, RerunCoversParent, LatestExists

LEMMA CoverStep == CoverInv /\ [Next]_vars => CoverInv'
<1>1. SUFFICES ASSUME CoverInv, [Next]_vars PROVE CoverInv'
  OBVIOUS
<1>2. RerunInv /\ RerunInv' /\ TypeOK
  BY <1>1, RerunStep DEF CoverInv, RerunInv
<1>3. ASSUME NEW t \in Sessions, Request(t) PROVE CoverInv'
  <2>1. PICK spec \in StepSpec, key \in Keys :
            /\ Begin(t, spec, key)
            /\ spec.parent \in DOMAIN steps \cup {NoStep}
    <3>1. PICK r \in Runs, k \in Kinds, p \in Params, key \in Keys,
               parent \in DOMAIN steps \cup {NoStep} :
             \E inputs \in InputChoices(k), targets \in SUBSET OutputsOf(k) :
                 \E pins \in PinChoices(parent, targets) :
                     Begin(t, [run |-> r, kind |-> k, params |-> p, inputs |-> inputs,
                               targets |-> targets, parent |-> parent,
                               preserved |-> pins], key)
      BY <1>3 DEF Request
    <3>2. PICK inputs \in InputChoices(k), targets \in SUBSET OutputsOf(k) :
             \E pins \in PinChoices(parent, targets) :
                 Begin(t, [run |-> r, kind |-> k, params |-> p, inputs |-> inputs,
                           targets |-> targets, parent |-> parent,
                           preserved |-> pins], key)
      BY <3>1
    <3>3. PICK pins \in PinChoices(parent, targets) :
             Begin(t, [run |-> r, kind |-> k, params |-> p, inputs |-> inputs,
                       targets |-> targets, parent |-> parent,
                       preserved |-> pins], key)
      BY <3>2
    <3>4. PICK spec : spec = [run |-> r, kind |-> k, params |-> p, inputs |-> inputs,
                              targets |-> targets, parent |-> parent,
                              preserved |-> pins]
      OBVIOUS
    <3>5. spec \in StepSpec
      BY <1>2, <3>4, RequestType
    <3>6. QED
      BY <3>3, <3>4, <3>5
  <2>2. Checked(spec) /\ UNCHANGED <<steps, artifacts>>
    BY <2>1, BeginChecks DEF Begin
  <2>3. /\ session'[t].spec = spec
        /\ \A u \in Sessions \ {t} : session'[u] = session[u]
    BY <1>2, <2>1 DEF Begin, TypeOK
  <2>4. \A u \in InFlight' :
            \/ u \in InFlight /\ session'[u].spec = session[u].spec
            \/ /\ Checked(session'[u].spec)
               /\ session'[u].spec.parent \in DOMAIN steps \cup {NoStep}
    BY <2>1, <2>2, <2>3 DEF InFlight
  <2>5. QED
    BY <1>1, <1>2, <2>2, <2>4, CoverKept
<1>4. ASSUME NEW t \in Sessions, ReserveOutput(t) \/ Rollback(t) PROVE CoverInv'
  <2>1. \A u \in InFlight' : u \in InFlight /\ session'[u].spec = session[u].spec
    <3>1. CASE ReserveOutput(t)
      BY <1>2, <3>1 DEF ReserveOutput, InFlight, IsReserving, Idle, TypeOK
    <3>2. CASE Rollback(t)
      BY <1>2, <3>2 DEF Rollback, InFlight, Idle, TypeOK
    <3>3. QED
      BY <1>4, <3>1, <3>2
  <2>2. UNCHANGED <<steps, artifacts>>
    BY <1>4 DEF ReserveOutput, Rollback
  <2>3. QED
    BY <1>1, <1>2, <2>1, <2>2, CoverKept
<1>5. ASSUME NEW t \in Sessions, NEW s \in StepIds, Commit(t, s) PROVE CoverInv'
  BY <1>1, <1>2, <1>5, CommitCovers
<1>6. CASE \/ \E s \in DOMAIN steps : Succeed(s) \/ Fail(s)
           \/ \E r \in Runs : EndRun(r)
           \/ \E r \in Runs, ref \in artifacts : InvalidateDependents(r, {ref})
           \/ UNCHANGED vars
  <2>1. UNCHANGED session /\ artifacts \subseteq artifacts' /\ DOMAIN steps' = DOMAIN steps
    BY <1>6 DEF Succeed, Fail, EndRun, InvalidateDependents, vars
  <2>2. \A i \in DOMAIN steps :
            /\ steps'[i].spec = steps[i].spec
            /\ steps'[i].versions = steps[i].versions
            /\ steps[i].status \in {"succeeded", "invalidated"} =>
                  steps'[i].status \in {"succeeded", "invalidated"}
            /\ steps[i].status = "invalidated" => steps'[i].status = "invalidated"
    <3>1. CASE \E s \in DOMAIN steps : Succeed(s) \/ Fail(s)
      BY <1>2, <3>1 DEF Succeed, Fail, StepTransitions, TypeOK, IsStep, StepStatus
    <3>2. CASE \E r \in Runs, ref \in artifacts : InvalidateDependents(r, {ref})
      BY <1>2, <3>2 DEF InvalidateDependents, TypeOK, IsStep
    <3>3. CASE \/ \E r \in Runs : EndRun(r)
               \/ UNCHANGED vars
      BY <3>3 DEF EndRun, vars
    <3>4. QED
      BY <1>6, <3>1, <3>2, <3>3
  <2>3. QED
    BY <1>1, <1>2, <2>1, <2>2, CoverKept DEF InFlight
<1>7. QED
  BY <1>1, <1>3, <1>4, <1>5, <1>6 DEF Next

\* No output is dropped by a rerun: a step run without a parent writes every
\* single output of its node, one with a parent writes or pins every output of
\* the parent, for any definition and however the parent's status moves between
\* the validation and the commit (RerunCoversParent).
THEOREM RerunsCover == Spec => []RerunCoversParent
<1>1. Spec => []CoverInv
  BY CoverInit, CoverStep, PTL DEF Spec
<1>2. CoverInv => RerunCoversParent
  BY DEF CoverInv
<1>3. QED
  BY <1>1, <1>2, PTL

\* The rerun of a step as a whole: its request with the step as the parent.
LEMMA WholeRerun ==
    ASSUME TypeOK, NEW s \in DOMAIN steps
    PROVE  /\ RerunOf(s, s, {}).run = steps[s].spec.run
           /\ RerunOf(s, s, {}).kind = steps[s].spec.kind
           /\ RerunOf(s, s, {}).inputs = steps[s].spec.inputs
           /\ RerunOf(s, s, {}).targets = steps[s].spec.targets
           /\ RerunOf(s, s, {}).parent = s
           /\ RerunOf(s, s, {}).preserved = {}
           /\ RerunOf(s, s, {}) \in StepSpec
<1>1. steps[s].spec \in StepSpec /\ s \in StepIds
  BY DEF TypeOK, IsStep
<1>2. PICK spec \in StepSpec : spec = steps[s].spec
  BY <1>1
<1>3. PICK named \in StepSpec : named = [spec EXCEPT !.parent = s]
  BY <1>1 DEF StepSpec
<1>4. RerunOf(s, s, {}) = [named EXCEPT !.preserved = {}]
  BY <1>2, <1>3 DEF RerunOf
<1>5. QED
  BY <1>2, <1>3, <1>4 DEF StepSpec

\* Versions above the latest are newer than any parent's.
LEMMA LatestIsNewer ==
    ASSUME CoverInv, NEW s \in DOMAIN steps
    PROVE  Newer(s, [o \in steps[s].spec.targets |-> Latest(o) + 1])
<1>1. ASSUME NEW o \in steps[s].spec.targets
      PROVE  Latest(o) + 1 > steps[s].versions[o]
  <2>1. o \in Streams
    BY <1>1 DEF CoverInv, RerunInv, TypeOK, IsStep, StepSpec
  <2>2. PICK V : V = {0} \cup {steps[i].versions[o] :
                        i \in {u \in DOMAIN steps : o \in steps[u].spec.targets}}
    OBVIOUS
  <2>3. \E v \in V : \A i \in DOMAIN steps :
           o \in steps[i].spec.targets => steps[i].versions[o] <= v
    BY <2>1, <2>2 DEF CoverInv, LatestExists
  <2>4. Latest(o) = CHOOSE v \in V : \A i \in DOMAIN steps :
           o \in steps[i].spec.targets => steps[i].versions[o] <= v
    BY <2>2 DEF Latest
  <2>5. /\ Latest(o) \in V
        /\ steps[s].versions[o] <= Latest(o)
    BY <1>1, <2>3, <2>4
  <2>6. /\ \A i \in DOMAIN steps :
              o \in steps[i].spec.targets => steps[i].versions[o] \in Nat
        /\ steps[s].versions[o] \in Nat
    BY <1>1 DEF CoverInv, RerunInv, TypeOK, IsStep
  <2>7. Latest(o) \in Nat
    BY <2>2, <2>5, <2>6
  <2>8. QED
    BY <2>5, <2>6, <2>7
<1>2. QED
  BY <1>1 DEF Newer

LEMMA WholeStepAccepted ==
    ASSUME CoverInv, NEW s \in DOMAIN steps, Ended(s), IsWhole(s),
           steps[s].spec.run \in open,
           \A u \in DOMAIN steps : steps[u].spec.parent # s
    PROVE  Accepts(RerunOf(s, s, {}))
<1>1. TypeOK /\ SpecsFit /\ RequestsChecked
  BY DEF CoverInv, RerunInv
<1>2. PICK spec \in StepSpec :
         /\ spec = RerunOf(s, s, {})
         /\ spec.run = steps[s].spec.run
         /\ spec.kind = steps[s].spec.kind
         /\ spec.inputs = steps[s].spec.inputs
         /\ spec.targets = steps[s].spec.targets
         /\ spec.parent = s
         /\ spec.preserved = {}
  BY <1>1, WholeRerun
<1>3. s # NoStep
  BY <1>1, DefinitionAssumption DEF TypeOK
<1>4. PICK whole \in StepSpec : whole = [spec EXCEPT !.parent = NoStep]
  BY DEF StepSpec
<1>5. /\ whole.kind = spec.kind /\ whole.inputs = spec.inputs
      /\ whole.targets = spec.targets /\ whole.parent = NoStep
      /\ whole.preserved = {}
  BY <1>2, <1>4 DEF StepSpec
<1>6. ValidationSpec(spec) = whole
  BY <1>2, <1>3, <1>4 DEF ValidationSpec, Ended
<1>7. WellFormed(spec) /\ WellFormed(whole)
  BY <1>1, <1>2, <1>5 DEF WellFormed, StreamsOf, SpecsFit, Fits
<1>8. ValidateStepSpec(whole)
  <2>1. StreamsOf(steps[s].spec.inputs) = Bindings[steps[s].spec.kind]
    BY <1>1 DEF RequestsChecked, Checked
  <2>2. steps[s].spec.targets \subseteq OutputsOf(steps[s].spec.kind)
    BY <1>1 DEF SpecsFit, Fits
  <2>3. QED
    BY <1>2, <1>5, <2>1, <2>2 DEF ValidateStepSpec, IsWhole
<1>9. ~KeyUsed(spec, "unused") /\ steps[s].key # "unused"
  BY <1>1, UnusedKeyAssumption DEF KeyUsed, StepsOf, TypeOK, IsStep
<1>10. StepRerun(spec, "unused", [o \in spec.targets |-> Latest(o) + 1])
  BY <1>2, <1>3, <1>9, LatestIsNewer DEF StepRerun, Ended
<1>11. ReferencesHold(spec)
  BY <1>1, <1>2 DEF ReferencesHold, RequestsChecked
<1>12. ~SameFingerprint(spec)
  BY <1>2 DEF SameFingerprint
<1>13. QED
  BY <1>2, <1>6, <1>7, <1>8, <1>9, <1>10, <1>11, <1>12 DEF Accepts, RerunAllowed

\* Work of a whole step is never lost for good: once it failed or was
\* invalidated, and until its run ends, a request that names it is accepted,
\* whatever was reserved since and for any definition (WholeStepCanBeRerun).
THEOREM WholeStepsComeBack == Spec => []WholeStepCanBeRerun
<1>1. Spec => []CoverInv
  BY CoverInit, CoverStep, PTL DEF Spec
<1>2. CoverInv => WholeStepCanBeRerun
  BY WholeStepAccepted DEF WholeStepCanBeRerun
<1>3. QED
  BY <1>1, <1>2, PTL

-----------------------------------------------------------------------------
(* What an invalidation reaches                                            *)

LEMMA StoreInit == Init => StoreInv
<1>1. SUFFICES ASSUME Init PROVE StoreInv
  OBVIOUS
<1>2. DOMAIN steps = {} /\ \A t \in Sessions : Held(t) = {}
  BY <1>1 DEF Init, Held, InFlight, Idle
<1>3. QED
  BY <1>1, <1>2, InvariantInit DEF StoreInv, NotStored

\* A step that stores nothing, reserves nothing and brings nothing back.
LEMMA NothingStored ==
    ASSUME StoreInv, IInv', UNCHANGED artifacts,
           DOMAIN steps' = DOMAIN steps,
           \A s \in DOMAIN steps :
               /\ steps'[s].spec = steps[s].spec
               /\ steps'[s].versions = steps[s].versions
               /\ steps'[s].status \in {"pending", "failed"} =>
                     steps[s].status \in {"pending", "failed"},
           \A t \in Sessions : session'[t] = session[t] \/ Held(t)' = {}
    PROVE  StoreInv'
<1>1. \A t \in Sessions : Held(t)' \subseteq Held(t)
  BY DEF Held, InFlight
<1>2. ASSUME NEW s \in DOMAIN steps', steps'[s].status \in {"pending", "failed"}
      PROVE  Written(s)' \cap artifacts' = {}
  <2>1. Written(s)' = Written(s)
    BY <1>2 DEF Written
  <2>2. QED
    BY <1>2, <2>1 DEF StoreInv, NotStored
<1>3. ASSUME NEW t \in Sessions, NEW o \in Held(t)'
      PROVE  [stream |-> o, version |-> session'[t].versions[o]] \notin artifacts'
  <2>1. session'[t] = session[t] /\ o \in Held(t)
    BY <1>1, <1>3
  <2>2. QED
    BY <2>1 DEF StoreInv, NotStored
<1>4. QED
  BY <1>2, <1>3 DEF StoreInv, NotStored

\* The version read is above those of the stored artifacts too.
LEMMA ReserveOutputStores ==
    ASSUME StoreInv, IInv', NEW t \in Sessions, ReserveOutput(t)
    PROVE  StoreInv'
<1>1. PICK o \in NextOutput(t) : \E latest \in Versions(t, o) \cup {0} :
          /\ \A v \in Versions(t, o) : v <= latest
          /\ session' = [session EXCEPT ![t].versions =
                [p \in DOMAIN @ \cup {o} |-> IF p = o THEN latest + 1 ELSE @[p]]]
  BY DEF ReserveOutput
<1>2. PICK latest \in Versions(t, o) \cup {0} :
          /\ \A v \in Versions(t, o) : v <= latest
          /\ session' = [session EXCEPT ![t].versions =
                [p \in DOMAIN @ \cup {o} |-> IF p = o THEN latest + 1 ELSE @[p]]]
  BY <1>1
<1>3. IsReserving(session[t]) /\ session[t].pc = "reserving" /\ TypeOK
  BY DEF ReserveOutput, InFlight, StoreInv, IInv, TypeOK, Idle
<1>4. /\ Held(t)' = Held(t) \cup {o}
      /\ \A p \in Held(t)' : session'[t].versions[p] =
            IF p = o THEN latest + 1 ELSE session[t].versions[p]
  BY <1>2, <1>3 DEF Held, InFlight, IsReserving, TypeOK
<1>5. \A u \in Sessions \ {t} : Held(u)' = Held(u) /\ session'[u] = session[u]
  BY <1>2, <1>3 DEF Held, InFlight, TypeOK
<1>6. UNCHANGED <<steps, artifacts>>
  BY DEF ReserveOutput
<1>7. [stream |-> o, version |-> latest + 1] \notin artifacts
  <2>1. SUFFICES ASSUME [stream |-> o, version |-> latest + 1] \in artifacts
                 PROVE  FALSE
    OBVIOUS
  <2>2. latest + 1 \in Versions(t, o)
    BY <2>1 DEF Versions
  <2>3. latest \in Nat
    <3>1. \A s \in DOMAIN steps : o \in steps[s].spec.targets =>
              steps[s].versions[o] \in Nat
      BY <1>3 DEF TypeOK, IsStep
    <3>2. \A ref \in artifacts : ref.version \in Nat
      BY <1>3 DEF TypeOK, Ref
    <3>3. QED
      BY <3>1, <3>2 DEF Versions
  <2>4. latest + 1 <= latest
    BY <1>2, <2>2
  <2>5. QED
    BY <2>3, <2>4
<1>8. ASSUME NEW u \in Sessions, NEW p \in Held(u)'
      PROVE  [stream |-> p, version |-> session'[u].versions[p]] \notin artifacts'
  <2>1. CASE u = t /\ p = o
    BY <1>4, <1>6, <1>7, <1>8, <2>1
  <2>2. CASE ~(u = t /\ p = o)
    <3>1. p \in Held(u) /\ session'[u].versions[p] = session[u].versions[p]
      BY <1>4, <1>5, <1>8, <2>2
    <3>2. QED
      BY <1>6, <3>1 DEF StoreInv, NotStored
  <2>3. QED
    BY <2>1, <2>2
<1>9. \A s \in DOMAIN steps' : steps'[s].status \in {"pending", "failed"} =>
          Written(s)' \cap artifacts' = {}
  BY <1>6 DEF StoreInv, NotStored, Written
<1>10. QED
  BY <1>8, <1>9 DEF StoreInv, NotStored

\* The step run that is inserted has the versions its transaction held.
LEMMA CommitStores ==
    ASSUME StoreInv, IInv', NEW t \in Sessions, NEW s \in StepIds, Commit(t, s)
    PROVE  StoreInv'
<1>1. /\ Held(t) = session[t].spec.targets
      /\ DOMAIN steps' = DOMAIN steps \cup {s}
      /\ \A i \in DOMAIN steps \ {s} : steps'[i] = steps[i]
      /\ steps'[s].spec = session[t].spec
      /\ steps'[s].versions = session[t].versions
      /\ UNCHANGED artifacts
  BY DEF Commit, AllReserved, Held
<1>2. /\ Held(t)' = {}
      /\ \A u \in Sessions \ {t} : Held(u)' = Held(u) /\ session'[u] = session[u]
  BY DEF Commit, Held, InFlight, Idle, StoreInv, IInv, TypeOK
<1>3. Written(s)' \cap artifacts' = {}
  BY <1>1 DEF Written, StoreInv, NotStored
<1>4. ASSUME NEW i \in DOMAIN steps', steps'[i].status \in {"pending", "failed"}
      PROVE  Written(i)' \cap artifacts' = {}
  <2>1. CASE i = s
    BY <1>3, <2>1
  <2>2. CASE i # s
    <3>1. steps'[i] = steps[i] /\ i \in DOMAIN steps
      BY <1>1, <1>4, <2>2
    <3>2. Written(i)' = Written(i)
      BY <3>1 DEF Written
    <3>3. QED
      BY <1>1, <1>4, <3>1, <3>2 DEF StoreInv, NotStored
  <2>3. QED
    BY <2>1, <2>2
<1>5. \A u \in Sessions : \A o \in Held(u)' :
         [stream |-> o, version |-> session'[u].versions[o]] \notin artifacts'
  BY <1>1, <1>2 DEF StoreInv, NotStored
<1>6. QED
  BY <1>4, <1>5 DEF StoreInv, NotStored

\* What a step stores is nobody else's reservation.
LEMMA SucceedStores ==
    ASSUME StoreInv, IInv', NEW s \in DOMAIN steps, Succeed(s)
    PROVE  StoreInv'
<1>1. /\ DOMAIN steps' = DOMAIN steps
      /\ \A i \in DOMAIN steps : /\ steps'[i].spec = steps[i].spec
                                 /\ steps'[i].versions = steps[i].versions
      /\ \A i \in DOMAIN steps \ {s} : steps'[i].status = steps[i].status
      /\ steps'[s].status = "succeeded"
      /\ artifacts' = artifacts \cup Written(s)
      /\ UNCHANGED session
  BY DEF Succeed, StoreInv, IInv, TypeOK, IsStep
<1>2. ASSUME NEW i \in DOMAIN steps', steps'[i].status \in {"pending", "failed"}
      PROVE  Written(i)' \cap artifacts' = {}
  <2>1. i # s /\ i \in DOMAIN steps /\ steps[i].status \in {"pending", "failed"}
    BY <1>1, <1>2
  <2>2. Written(i)' = Written(i)
    BY <1>1, <2>1 DEF Written
  <2>3. Written(i) \cap Written(s) = {}
    BY <2>1, VersionsSuffice DEF StoreInv, IInv, StreamVersionsDistinct
  <2>4. Written(i) \cap artifacts = {}
    BY <2>1 DEF StoreInv, NotStored
  <2>5. QED
    BY <1>1, <2>2, <2>3, <2>4
<1>3. ASSUME NEW t \in Sessions, NEW o \in Held(t)'
      PROVE  [stream |-> o, version |-> session'[t].versions[o]] \notin artifacts'
  <2>1. o \in Held(t) /\ session'[t] = session[t]
    BY <1>1, <1>3 DEF Held, InFlight
  <2>2. [stream |-> o, version |-> session[t].versions[o]] \notin Written(s)
    BY <2>1 DEF Written, StoreInv, IInv, HeldAreFresh
  <2>3. QED
    BY <1>1, <2>1, <2>2 DEF StoreInv, NotStored
<1>4. QED
  BY <1>2, <1>3 DEF StoreInv, NotStored

LEMMA StoreStep == StoreInv /\ [Next]_vars => StoreInv'
<1>1. SUFFICES ASSUME StoreInv, [Next]_vars PROVE StoreInv'
  OBVIOUS
<1>2. IInv' /\ TypeOK
  BY <1>1, InvariantStep DEF StoreInv, IInv
<1>3. ASSUME NEW t \in Sessions, Request(t) PROVE StoreInv'
  <2>1. PICK spec, key : Begin(t, spec, key)
    BY <1>3 DEF Request
  <2>2. /\ session'[t].versions = [o \in {} |-> 0]
        /\ UNCHANGED <<steps, artifacts>>
        /\ \A u \in Sessions \ {t} : session'[u] = session[u]
    BY <1>2, <2>1 DEF Begin, TypeOK
  <2>3. Held(t)' = {}
    BY <2>2 DEF Held
  <2>4. QED
    BY <1>1, <1>2, <2>2, <2>3, NothingStored
<1>4. ASSUME NEW t \in Sessions, Rollback(t) PROVE StoreInv'
  <2>1. \A u \in Sessions : session'[u] = session[u] \/ Held(u)' = {}
    BY <1>2, <1>4 DEF Rollback, Held, InFlight, Idle, TypeOK
  <2>2. QED
    BY <1>1, <1>2, <1>4, <2>1, NothingStored DEF Rollback
<1>5. ASSUME NEW t \in Sessions, ReserveOutput(t) PROVE StoreInv'
  BY <1>1, <1>2, <1>5, ReserveOutputStores
<1>6. ASSUME NEW t \in Sessions, NEW s \in StepIds, Commit(t, s) PROVE StoreInv'
  BY <1>1, <1>2, <1>6, CommitStores
<1>7. ASSUME NEW s \in DOMAIN steps, Succeed(s) PROVE StoreInv'
  BY <1>1, <1>2, <1>7, SucceedStores
<1>8. ASSUME NEW s \in DOMAIN steps, Fail(s) PROVE StoreInv'
  <2>1. steps[s].status = "pending"
    BY <1>2, <1>8 DEF Fail, StepTransitions, TypeOK, IsStep, StepStatus
  <2>2. /\ DOMAIN steps' = DOMAIN steps
        /\ UNCHANGED <<session, artifacts>>
        /\ \A i \in DOMAIN steps : /\ steps'[i].spec = steps[i].spec
                                   /\ steps'[i].versions = steps[i].versions
        /\ \A i \in DOMAIN steps \ {s} : steps'[i] = steps[i]
    BY <1>2, <1>8 DEF Fail, TypeOK, IsStep
  <2>3. \A i \in DOMAIN steps : steps'[i].status \in {"pending", "failed"} =>
           steps[i].status \in {"pending", "failed"}
    BY <2>1, <2>2
  <2>4. QED
    BY <1>1, <1>2, <2>2, <2>3, NothingStored
<1>9. ASSUME NEW r \in Runs, NEW ref \in artifacts, InvalidateDependents(r, {ref})
      PROVE  StoreInv'
  <2>1. /\ UNCHANGED <<session, artifacts>>
        /\ DOMAIN steps' = DOMAIN steps
        /\ \A i \in DOMAIN steps :
              /\ steps'[i].spec = steps[i].spec
              /\ steps'[i].versions = steps[i].versions
              /\ steps'[i].status \in {"pending", "failed"} =>
                    steps[i].status \in {"pending", "failed"}
    BY <1>2, <1>9 DEF InvalidateDependents, TypeOK, IsStep
  <2>2. QED
    BY <1>1, <1>2, <2>1, NothingStored
<1>10. CASE (\E r \in Runs : EndRun(r)) \/ UNCHANGED vars
  <2>1. UNCHANGED <<steps, artifacts, session>>
    BY <1>10 DEF EndRun, vars
  <2>2. QED
    BY <1>1, <1>2, <2>1, NothingStored
<1>11. QED
  BY <1>1, <1>3, <1>4, <1>5, <1>6, <1>7, <1>8, <1>9, <1>10 DEF Next

\* Nobody reads more than what was changed and what the set A writes, unless
\* it is in A.
ClosedUnder(r, changed, A) == \A s \in StepsOf(r) :
    steps[s].spec.inputs \cap (changed \cup UNION {Written(a) : a \in A}) # {} => s \in A

\* Affected is closed, and in every closed set.
LEMMA AffectedIsLeast ==
    ASSUME NEW r, NEW changed
    PROVE  /\ Affected(r, changed) \subseteq StepsOf(r)
           /\ ClosedUnder(r, changed, Affected(r, changed))
           /\ \A A \in SUBSET StepsOf(r) :
                 ClosedUnder(r, changed, A) => Affected(r, changed) \subseteq A
<1>1. Affected(r, changed) =
         {s \in StepsOf(r) : \A A \in SUBSET StepsOf(r) :
             ClosedUnder(r, changed, A) => s \in A}
  BY DEF Affected, ClosedUnder
<1>2. PICK least : least = Affected(r, changed)
  OBVIOUS
<1>3. \A A \in SUBSET StepsOf(r) : ClosedUnder(r, changed, A) => least \subseteq A
  BY <1>1, <1>2
<1>4. ASSUME NEW s \in StepsOf(r),
             steps[s].spec.inputs \cap (changed \cup UNION {Written(a) : a \in least}) # {}
      PROVE  s \in least
  <2>1. ASSUME NEW A \in SUBSET StepsOf(r), ClosedUnder(r, changed, A)
        PROVE  s \in A
    <3>1. least \subseteq A
      BY <1>3, <2>1
    <3>2. UNION {Written(a) : a \in least} \subseteq UNION {Written(a) : a \in A}
      BY <3>1
    <3>3. steps[s].spec.inputs \cap (changed \cup UNION {Written(a) : a \in A}) # {}
      BY <1>4, <3>2
    <3>4. QED
      BY <2>1, <3>3 DEF ClosedUnder
  <2>2. QED
    BY <1>1, <1>2, <2>1
<1>5. ClosedUnder(r, changed, least)
  BY <1>4 DEF ClosedUnder
<1>6. QED
  BY <1>1, <1>2, <1>3, <1>5

\* Which steps an invalidation changes, and to what.
LEMMA HitAreAffected ==
    ASSUME TypeOK, NEW r, NEW changed, InvalidateDependents(r, changed)
    PROVE  /\ \A s \in DOMAIN steps : steps'[s] # steps[s] =>
                 s \in Affected(r, changed) /\ steps[s].status = "succeeded"
           /\ \A s \in DOMAIN steps : steps'[s].status = "succeeded" =>
                 s \notin Affected(r, changed)
           /\ \A s \in Affected(r, changed) :
                 steps[s].status \in {"succeeded", "invalidated"} =>
                    steps'[s].status = "invalidated"
<1>1. PICK least : least = Affected(r, changed)
  OBVIOUS
<1>2. steps' = [s \in DOMAIN steps |->
          IF s \in least /\ steps[s].status = "succeeded"
          THEN [steps[s] EXCEPT !.status = "invalidated"]
          ELSE steps[s]]
  BY <1>1 DEF InvalidateDependents
<1>3. ASSUME NEW s \in DOMAIN steps, steps'[s] # steps[s]
      PROVE  s \in least /\ steps[s].status = "succeeded"
  BY <1>2, <1>3
<1>4. ASSUME NEW s \in DOMAIN steps, steps'[s].status = "succeeded"
      PROVE  s \notin least
  BY <1>2, <1>4 DEF TypeOK, IsStep
<1>5. least \subseteq DOMAIN steps
  BY <1>1, AffectedIsLeast DEF StepsOf
<1>6. ASSUME NEW s \in least, steps[s].status \in {"succeeded", "invalidated"}
      PROVE  steps'[s].status = "invalidated"
  BY <1>2, <1>5, <1>6 DEF TypeOK, IsStep
<1>7. QED
  BY <1>1, <1>3, <1>4, <1>6

\* Why an affected step is affected: it reads the change, or what another
\* affected step stored.
LEMMA AffectedForAReason ==
    ASSUME StoreInv, RequestsChecked, NEW r, NEW changed,
           NEW s \in Affected(r, changed)
    PROVE  \/ steps[s].spec.inputs \cap changed # {}
           \/ \E a \in Affected(r, changed) \ {s} :
                 /\ steps[s].spec.inputs \cap Written(a) # {}
                 /\ steps[a].status \in {"succeeded", "invalidated"}
<1>1. PICK least : /\ least = Affected(r, changed)
                   /\ least \subseteq StepsOf(r)
                   /\ ClosedUnder(r, changed, least)
                   /\ \A A \in SUBSET StepsOf(r) :
                         ClosedUnder(r, changed, A) => least \subseteq A
  BY AffectedIsLeast
<1>2. ~ClosedUnder(r, changed, least \ {s})
  BY <1>1
<1>3. PICK u \in StepsOf(r) :
         /\ steps[u].spec.inputs
              \cap (changed \cup UNION {Written(a) : a \in least \ {s}}) # {}
         /\ u \notin least \ {s}
  BY <1>2 DEF ClosedUnder
<1>4. u \in least
  <2>1. UNION {Written(a) : a \in least \ {s}} \subseteq UNION {Written(a) : a \in least}
    OBVIOUS
  <2>2. steps[u].spec.inputs \cap (changed \cup UNION {Written(a) : a \in least}) # {}
    BY <1>3, <2>1
  <2>3. QED
    BY <1>1, <2>2 DEF ClosedUnder
<1>5. u = s
  BY <1>3, <1>4
<1>6. CASE steps[s].spec.inputs \cap changed = {}
  <2>1. PICK a \in least \ {s} : steps[s].spec.inputs \cap Written(a) # {}
    BY <1>3, <1>5, <1>6
  <2>2. s \in DOMAIN steps /\ a \in DOMAIN steps
    BY <1>1, <2>1 DEF StepsOf
  <2>3. Written(a) \cap artifacts # {}
    BY <2>1, <2>2 DEF RequestsChecked
  <2>4. steps[a].status \in {"succeeded", "invalidated"}
    BY <2>2, <2>3 DEF StoreInv, NotStored, IInv, TypeOK, IsStep, StepStatus
  <2>5. QED
    BY <1>1, <2>1, <2>4
<1>7. QED
  BY <1>6

LEMMA InvalidationStep ==
    ASSUME StoreInv, RequestsChecked, NEW r \in Runs, NEW ref \in artifacts,
           InvalidateDependents(r, {ref})
    PROVE  LET hit == {s \in DOMAIN steps : steps'[s] # steps[s]}
               gone == {s \in StepsOf(r) : steps'[s].status = "invalidated"}
           IN  /\ hit \subseteq StepsOf(r)
               /\ \A s \in StepsOf(r) : steps'[s].status = "succeeded" =>
                     steps[s].spec.inputs
                       \cap ({ref} \cup UNION {Written(a) : a \in hit}) = {}
               /\ \A s \in hit :
                     steps[s].spec.inputs
                       \cap ({ref} \cup UNION {Written(a) : a \in gone \ {s}}) # {}
<1>1. PICK hit, gone, least :
         /\ hit = {s \in DOMAIN steps : steps'[s] # steps[s]}
         /\ gone = {s \in StepsOf(r) : steps'[s].status = "invalidated"}
         /\ least = Affected(r, {ref})
  OBVIOUS
<1>2. TypeOK
  BY DEF StoreInv, IInv
<1>3. /\ least \subseteq StepsOf(r)
      /\ ClosedUnder(r, {ref}, least)
  BY <1>1, AffectedIsLeast
<1>4. /\ hit \subseteq least
      /\ \A s \in DOMAIN steps : steps'[s].status = "succeeded" => s \notin least
      /\ \A s \in least : steps[s].status \in {"succeeded", "invalidated"} => s \in gone
  BY <1>1, <1>2, <1>3, HitAreAffected
<1>5. ASSUME NEW s \in StepsOf(r), steps'[s].status = "succeeded"
      PROVE  steps[s].spec.inputs \cap ({ref} \cup UNION {Written(a) : a \in hit}) = {}
  <2>1. s \notin least
    BY <1>4, <1>5 DEF StepsOf
  <2>2. steps[s].spec.inputs \cap ({ref} \cup UNION {Written(a) : a \in least}) = {}
    BY <1>3, <2>1 DEF ClosedUnder
  <2>3. UNION {Written(a) : a \in hit} \subseteq UNION {Written(a) : a \in least}
    BY <1>4
  <2>4. QED
    BY <2>2, <2>3
<1>6. ASSUME NEW s \in hit
      PROVE  steps[s].spec.inputs
                \cap ({ref} \cup UNION {Written(a) : a \in gone \ {s}}) # {}
  <2>1. \/ steps[s].spec.inputs \cap {ref} # {}
        \/ \E a \in least \ {s} :
              /\ steps[s].spec.inputs \cap Written(a) # {}
              /\ steps[a].status \in {"succeeded", "invalidated"}
    BY <1>1, <1>4, AffectedForAReason
  <2>2. \/ steps[s].spec.inputs \cap {ref} # {}
        \/ \E a \in gone \ {s} : steps[s].spec.inputs \cap Written(a) # {}
    BY <1>4, <2>1
  <2>3. QED
    BY <2>2
<1>7. QED
  BY <1>1, <1>3, <1>4, <1>5, <1>6

\* invalidate_dependents reaches exactly the dependent subgraph, for any
\* definition and any chain of readers: it reaches the last of them and
\* nobody without a reason (InvalidationExact).  The reason given is a step
\* that is invalidated by then, as what a step has not stored nobody reads.
THEOREM InvalidationReaches == Spec => InvalidationExact
<1>1. Spec => []StoreInv
  BY StoreInit, StoreStep, PTL DEF Spec
<1>2. Spec => []CoverInv
  BY CoverInit, CoverStep, PTL DEF Spec
<1>3. StoreInv /\ CoverInv /\ [Next]_vars =>
        [\A r \in Runs, ref \in artifacts : InvalidateDependents(r, {ref}) =>
            LET hit == {s \in DOMAIN steps : steps'[s] # steps[s]}
                gone == {s \in StepsOf(r) : steps'[s].status = "invalidated"}
            IN  /\ hit \subseteq StepsOf(r)
                /\ \A s \in StepsOf(r) : steps'[s].status = "succeeded" =>
                      steps[s].spec.inputs
                        \cap ({ref} \cup UNION {Written(a) : a \in hit}) = {}
                /\ \A s \in hit :
                      steps[s].spec.inputs
                        \cap ({ref} \cup UNION {Written(a) : a \in gone \ {s}}) # {}]_vars
  BY InvalidationStep DEF CoverInv
<1>4. QED
  BY <1>1, <1>2, <1>3, PTL DEF Spec, InvalidationExact

-----------------------------------------------------------------------------
(* New versions are the newest                                             *)

\* A step that commits and stores no version that was not committed before.
LEMMA VersionsKept ==
    ASSUME DOMAIN steps' = DOMAIN steps,
           \A s \in DOMAIN steps : /\ steps'[s].spec = steps[s].spec
                                   /\ steps'[s].versions = steps[s].versions,
           artifacts' \subseteq artifacts \cup UNION {Written(s) : s \in DOMAIN steps},
           NEW t, NEW o
    PROVE  Versions(t, o)' \subseteq Versions(t, o)
<1>1. ASSUME NEW v \in Versions(t, o)'
      PROVE  v \in Versions(t, o)
  <2>1. CASE \E s \in DOMAIN steps' : o \in steps'[s].spec.targets
                                      /\ v = steps'[s].versions[o]
    BY <2>1 DEF Versions
  <2>2. CASE \E ref \in artifacts' : ref.stream = o /\ v = ref.version
    <3>1. PICK ref \in artifacts' : ref.stream = o /\ v = ref.version
      BY <2>2
    <3>2. CASE ref \in artifacts
      BY <3>1, <3>2 DEF Versions
    <3>3. CASE \E s \in DOMAIN steps : ref \in Written(s)
      <4>1. PICK s \in DOMAIN steps : ref \in Written(s)
        BY <3>3
      <4>2. o \in steps[s].spec.targets /\ v = steps[s].versions[o]
        BY <3>1, <4>1 DEF Written
      <4>3. QED
        BY <4>2 DEF Versions
    <3>4. QED
      BY <3>1, <3>2, <3>3
  <2>3. QED
    BY <1>1, <2>1, <2>2 DEF Versions
<1>2. QED
  BY <1>1

\* The same, of a step that takes no lock either.
LEMMA NothingNewer ==
    ASSUME NewestInv, IInv',
           DOMAIN steps' = DOMAIN steps,
           \A s \in DOMAIN steps : /\ steps'[s].spec = steps[s].spec
                                   /\ steps'[s].versions = steps[s].versions,
           artifacts' \subseteq artifacts \cup UNION {Written(s) : s \in DOMAIN steps},
           \A t \in Sessions : session'[t] = session[t] \/ Held(t)' = {}
    PROVE  NewestInv'
<1>1. ASSUME NEW t \in Sessions, NEW o \in Held(t)', NEW v \in Versions(t, o)'
      PROVE  v < session'[t].versions[o]
  <2>1. session'[t] = session[t] /\ o \in Held(t)
    BY <1>1 DEF Held, InFlight
  <2>2. v \in Versions(t, o)
    BY <1>1, VersionsKept
  <2>3. QED
    BY <2>1, <2>2 DEF NewestInv, HeldAreNewest
<1>2. QED
  BY <1>1 DEF NewestInv, HeldAreNewest

\* The version read is one above all there are.
LEMMA ReserveOutputNewest ==
    ASSUME NewestInv, IInv', NEW t \in Sessions, ReserveOutput(t)
    PROVE  NewestInv'
<1>1. PICK o \in NextOutput(t) : \E latest \in Versions(t, o) \cup {0} :
          /\ \A v \in Versions(t, o) : v <= latest
          /\ session' = [session EXCEPT ![t].versions =
                [p \in DOMAIN @ \cup {o} |-> IF p = o THEN latest + 1 ELSE @[p]]]
  BY DEF ReserveOutput
<1>2. PICK latest \in Versions(t, o) \cup {0} :
          /\ \A v \in Versions(t, o) : v <= latest
          /\ session' = [session EXCEPT ![t].versions =
                [p \in DOMAIN @ \cup {o} |-> IF p = o THEN latest + 1 ELSE @[p]]]
  BY <1>1
<1>3. IsReserving(session[t]) /\ session[t].pc = "reserving" /\ TypeOK
  BY DEF ReserveOutput, InFlight, NewestInv, IInv, TypeOK, Idle
<1>4. /\ Held(t)' = Held(t) \cup {o}
      /\ \A p \in Held(t)' : session'[t].versions[p] =
            IF p = o THEN latest + 1 ELSE session[t].versions[p]
  BY <1>2, <1>3 DEF Held, InFlight, IsReserving, TypeOK
<1>5. \A u \in Sessions \ {t} : Held(u)' = Held(u) /\ session'[u] = session[u]
  BY <1>2, <1>3 DEF Held, InFlight, TypeOK
<1>6. \A u, p : Versions(u, p)' = Versions(u, p)
  BY DEF ReserveOutput, Versions
<1>7. \A v \in Versions(t, o) : v \in Nat
  <2>1. \A s \in DOMAIN steps : o \in steps[s].spec.targets => steps[s].versions[o] \in Nat
    BY <1>3 DEF TypeOK, IsStep
  <2>2. \A ref \in artifacts : ref.version \in Nat
    BY <1>3 DEF TypeOK, Ref
  <2>3. QED
    BY <2>1, <2>2 DEF Versions
<1>8. ASSUME NEW u \in Sessions, NEW p \in Held(u)', NEW v \in Versions(u, p)'
      PROVE  v < session'[u].versions[p]
  <2>1. v \in Versions(u, p)
    BY <1>6, <1>8
  <2>2. CASE u = t /\ p = o
    <3>1. session'[u].versions[p] = latest + 1
      BY <1>4, <1>8, <2>2
    <3>2. v \in Nat /\ v <= latest
      BY <1>2, <1>7, <2>1, <2>2
    <3>3. latest \in Nat
      BY <1>7
    <3>4. QED
      BY <3>1, <3>2, <3>3
  <2>3. CASE ~(u = t /\ p = o)
    <3>1. p \in Held(u) /\ session'[u].versions[p] = session[u].versions[p]
      BY <1>4, <1>5, <1>8, <2>3
    <3>2. QED
      BY <2>1, <3>1 DEF NewestInv, HeldAreNewest
  <2>4. QED
    BY <2>2, <2>3
<1>9. QED
  BY <1>8 DEF NewestInv, HeldAreNewest

\* Nobody else holds a stream whose version becomes visible.
LEMMA CommitNewest ==
    ASSUME NewestInv, IInv', NEW t \in Sessions, NEW s \in StepIds, Commit(t, s)
    PROVE  NewestInv'
<1>1. /\ Held(t) = session[t].spec.targets
      /\ DOMAIN steps' = DOMAIN steps \cup {s}
      /\ \A i \in DOMAIN steps \ {s} : steps'[i] = steps[i]
      /\ s \notin DOMAIN steps
      /\ steps'[s].spec = session[t].spec
      /\ UNCHANGED artifacts
  BY DEF Commit, AllReserved, Held
<1>2. /\ Held(t)' = {}
      /\ \A u \in Sessions \ {t} : Held(u)' = Held(u) /\ session'[u] = session[u]
  BY DEF Commit, Held, InFlight, Idle, NewestInv, IInv, TypeOK
<1>3. ASSUME NEW u \in Sessions, NEW p \in Held(u)', NEW v \in Versions(u, p)'
      PROVE  v < session'[u].versions[p]
  <2>1. u # t /\ p \in Held(u) /\ session'[u] = session[u]
    BY <1>2, <1>3
  <2>2. p \notin steps'[s].spec.targets
    BY <1>1, <2>1 DEF NewestInv, IInv, LocksExclusive
  <2>3. v \in Versions(u, p)
    BY <1>1, <1>3, <2>2 DEF Versions
  <2>4. QED
    BY <2>1, <2>3 DEF NewestInv, HeldAreNewest
<1>4. QED
  BY <1>3 DEF NewestInv, HeldAreNewest

LEMMA NewestInit == Init => NewestInv
<1>1. SUFFICES ASSUME Init PROVE NewestInv
  OBVIOUS
<1>2. \A t \in Sessions : Held(t) = {}
  BY <1>1 DEF Init, Held, InFlight, Idle
<1>3. QED
  BY <1>1, <1>2, InvariantInit DEF NewestInv, HeldAreNewest

LEMMA NewestStep == NewestInv /\ [Next]_vars => NewestInv'
<1>1. SUFFICES ASSUME NewestInv, [Next]_vars PROVE NewestInv'
  OBVIOUS
<1>2. IInv' /\ TypeOK
  BY <1>1, InvariantStep DEF NewestInv, IInv
<1>3. ASSUME NEW t \in Sessions, Request(t) PROVE NewestInv'
  <2>1. PICK spec, key : Begin(t, spec, key)
    BY <1>3 DEF Request
  <2>2. /\ session'[t].versions = [o \in {} |-> 0]
        /\ UNCHANGED <<steps, artifacts>>
        /\ \A u \in Sessions \ {t} : session'[u] = session[u]
    BY <1>2, <2>1 DEF Begin, TypeOK
  <2>3. Held(t)' = {}
    BY <2>2 DEF Held
  <2>4. QED
    BY <1>1, <1>2, <2>2, <2>3, NothingNewer
<1>4. ASSUME NEW t \in Sessions, Rollback(t) PROVE NewestInv'
  <2>1. \A u \in Sessions : session'[u] = session[u] \/ Held(u)' = {}
    BY <1>2, <1>4 DEF Rollback, Held, InFlight, Idle, TypeOK
  <2>2. QED
    BY <1>1, <1>2, <1>4, <2>1, NothingNewer DEF Rollback
<1>5. ASSUME NEW t \in Sessions, ReserveOutput(t) PROVE NewestInv'
  BY <1>1, <1>2, <1>5, ReserveOutputNewest
<1>6. ASSUME NEW t \in Sessions, NEW s \in StepIds, Commit(t, s) PROVE NewestInv'
  BY <1>1, <1>2, <1>6, CommitNewest
<1>7. ASSUME NEW s \in DOMAIN steps, Succeed(s) \/ Fail(s) PROVE NewestInv'
  <2>1. PICK status : steps' = [steps EXCEPT ![s].status = status]
    BY <1>7 DEF Succeed, Fail
  <2>2. /\ DOMAIN steps' = DOMAIN steps
        /\ \A i \in DOMAIN steps : /\ steps'[i].spec = steps[i].spec
                                   /\ steps'[i].versions = steps[i].versions
    BY <1>2, <2>1 DEF TypeOK, IsStep
  <2>3. /\ artifacts' \subseteq artifacts \cup UNION {Written(i) : i \in DOMAIN steps}
        /\ UNCHANGED session
    BY <1>7 DEF Succeed, Fail
  <2>4. QED
    BY <1>1, <1>2, <2>2, <2>3, NothingNewer
<1>8. ASSUME NEW r \in Runs, NEW ref \in artifacts, InvalidateDependents(r, {ref})
      PROVE  NewestInv'
  <2>1. /\ UNCHANGED <<session, artifacts>>
        /\ DOMAIN steps' = DOMAIN steps
        /\ \A i \in DOMAIN steps : /\ steps'[i].spec = steps[i].spec
                                   /\ steps'[i].versions = steps[i].versions
    BY <1>2, <1>8 DEF InvalidateDependents, TypeOK, IsStep
  <2>2. QED
    BY <1>1, <1>2, <2>1, NothingNewer
<1>9. CASE (\E r \in Runs : EndRun(r)) \/ UNCHANGED vars
  <2>1. UNCHANGED <<steps, artifacts, session>>
    BY <1>9 DEF EndRun, vars
  <2>2. QED
    BY <1>1, <1>2, <2>1, NothingNewer
<1>10. QED
  BY <1>1, <1>3, <1>4, <1>5, <1>6, <1>7, <1>8, <1>9 DEF Next

-----------------------------------------------------------------------------
(* Step runs implement the ledger                                          *)

LEMMA LedgerInit == Init => Ledger!Init
<1>1. SUFFICES ASSUME Init PROVE Ledger!Init
  OBVIOUS
<1>2. DOMAIN steps = {}
  BY <1>1 DEF Init
<1>3. QED
  BY <1>1, <1>2 DEF Init, Ledger!Init

\* What the ledger knows is what the version query reads.
LEMMA KnownVersions ==
    ASSUME TypeOK, NEW ref \in Ledger!Known, NEW t
    PROVE  ref.version \in Versions(t, ref.stream) /\ ref.version \in Nat
<1>1. \/ ref \in artifacts
      \/ \E s \in DOMAIN steps : ref \in Written(s)
  BY DEF Ledger!Known, BatchOf
<1>2. CASE ref \in artifacts
  BY <1>2 DEF Versions, TypeOK, Ref
<1>3. CASE \E s \in DOMAIN steps : ref \in Written(s)
  <2>1. PICK s \in DOMAIN steps : ref \in Written(s)
    BY <1>3
  <2>2. PICK o \in steps[s].spec.targets :
           ref = [stream |-> o, version |-> steps[s].versions[o]]
    BY <2>1 DEF Written
  <2>3. ref.version \in Versions(t, ref.stream)
    BY <2>2 DEF Versions
  <2>4. ref.version \in Nat
    BY <2>2 DEF TypeOK, IsStep
  <2>5. QED
    BY <2>3, <2>4
<1>4. QED
  BY <1>1, <1>2, <1>3

\* What a transaction is about to commit is above all of it.
LEMMA ReservedAreNewest ==
    ASSUME NewestInv, NEW t \in InFlight, AllReserved(t), session[t].spec.targets # {},
           NEW writes,
           writes = {[stream |-> o, version |-> session[t].versions[o]] :
                        o \in session[t].spec.targets}
    PROVE  Ledger!Newest(writes)
<1>1. TypeOK /\ t \in Sessions
  BY DEF NewestInv, IInv, InFlight
<1>2. Held(t) = session[t].spec.targets
  BY DEF Held, AllReserved
<1>3. writes # {}
  OBVIOUS
<1>4. ASSUME NEW w \in writes, NEW ref \in Ledger!Known, ref.stream = w.stream
      PROVE  ref.version < w.version /\ ref.version \in Nat
  <2>1. PICK o \in session[t].spec.targets :
           w = [stream |-> o, version |-> session[t].versions[o]]
    BY <1>4
  <2>2. ref.version \in Versions(t, o) /\ ref.version \in Nat
    BY <1>1, <1>4, <2>1, KnownVersions
  <2>3. ref.version < session[t].versions[o]
    BY <1>1, <1>2, <2>2 DEF NewestInv, HeldAreNewest
  <2>4. QED
    BY <2>1, <2>2, <2>3
<1>5. ASSUME NEW w \in writes, NEW ref \in writes, ref.stream = w.stream
      PROVE  ref = w
  BY <1>5
<1>6. writes \cap Ledger!Known = {}
  <2>1. ASSUME NEW w \in writes, w \in Ledger!Known
        PROVE  FALSE
    <3>1. w.version < w.version /\ w.version \in Nat
      BY <1>4, <2>1
    <3>2. QED
      BY <3>1
  <2>2. QED
    BY <2>1
<1>7. QED
  BY <1>3, <1>4, <1>5, <1>6 DEF Ledger!Newest

\* A reservation takes effect when it commits.
LEMMA CommitReserves ==
    ASSUME NewestInv, RerunInv, NEW t \in Sessions, NEW s \in StepIds, Commit(t, s)
    PROVE  Ledger!Reserve(s)
<1>1. /\ t \in InFlight
      /\ AllReserved(t)
      /\ s \notin DOMAIN steps
      /\ DOMAIN steps' = DOMAIN steps \cup {s}
      /\ \A i \in DOMAIN steps : steps'[i] = steps[i]
      /\ steps'[s] = [spec |-> session[t].spec, key |-> session[t].key,
                      versions |-> session[t].versions, status |-> "pending"]
      /\ UNCHANGED artifacts
  BY DEF Commit
<1>2. PICK writes : writes = {[stream |-> o, version |-> session[t].versions[o]] :
                                 o \in session[t].spec.targets}
  OBVIOUS
<1>3. Ledger!Newest(writes)
  <2>1. session[t].spec.targets # {}
    BY <1>1 DEF RerunInv, SpecsFit, Fits
  <2>2. QED
    BY <1>1, <1>2, <2>1, ReservedAreNewest
<1>4. BatchOf(s)' = [run |-> session[t].spec.run, reads |-> session[t].spec.inputs,
                     pins |-> session[t].spec.preserved, writes |-> writes,
                     state |-> "pending"]
  BY <1>1, <1>2 DEF BatchOf, Written
<1>5. \A i \in DOMAIN steps : BatchOf(i)' = BatchOf(i)
  BY <1>1 DEF BatchOf, Written
<1>6. session[t].spec.inputs \cup session[t].spec.preserved \subseteq artifacts
  BY DEF Commit, ReferencesHold
<1>7. PICK before, after :
         /\ before = [i \in DOMAIN steps |-> BatchOf(i)]
         /\ after = [i \in DOMAIN steps' |-> BatchOf(i)']
  OBVIOUS
<1>8. /\ DOMAIN before = DOMAIN steps
      /\ DOMAIN after = DOMAIN steps \cup {s}
      /\ after[s] = BatchOf(s)'
      /\ after = [a \in DOMAIN before \cup {s} |-> IF a = s THEN after[s] ELSE before[a]]
  BY <1>1, <1>5, <1>7
<1>9. /\ after[s].reads \cup after[s].pins \subseteq artifacts
      /\ after[s].state = "pending"
      /\ Ledger!Newest(after[s].writes)
  BY <1>3, <1>4, <1>6, <1>8
<1>10. QED
  BY <1>1, <1>7, <1>8, <1>9 DEF Ledger!Reserve

\* A step run whose status changes, or nothing.
LEMMA BatchMoves ==
    ASSUME NEW s, NEW state,
           steps'[s].spec = steps[s].spec, steps'[s].versions = steps[s].versions,
           steps'[s].status = state
    PROVE  BatchOf(s)' = [BatchOf(s) EXCEPT !.state = state]
<1>1. Written(s)' = Written(s)
  BY DEF Written
<1>2. QED
  BY <1>1 DEF BatchOf

LEMMA BatchStays ==
    ASSUME NEW s, steps'[s] = steps[s]
    PROVE  BatchOf(s)' = BatchOf(s)
<1>1. Written(s)' = Written(s)
  BY DEF Written
<1>2. QED
  BY <1>1 DEF BatchOf

\* A step run that ends ends its batch.
LEMMA SucceedDelivers ==
    ASSUME TypeOK, NEW s \in DOMAIN steps, Succeed(s)
    PROVE  Ledger!Deliver(s)
<1>1. /\ steps[s].status = "pending"
      /\ steps' = [steps EXCEPT ![s].status = "succeeded"]
      /\ artifacts' = artifacts \cup Written(s)
  BY DEF Succeed, StepTransitions, TypeOK, IsStep, StepStatus
<1>2. /\ DOMAIN steps' = DOMAIN steps
      /\ BatchOf(s)' = [BatchOf(s) EXCEPT !.state = "succeeded"]
      /\ \A i \in DOMAIN steps \ {s} : BatchOf(i)' = BatchOf(i)
  <2>1. /\ steps'[s].spec = steps[s].spec
        /\ steps'[s].versions = steps[s].versions
        /\ steps'[s].status = "succeeded"
    BY <1>1 DEF TypeOK, IsStep
  <2>2. \A i \in DOMAIN steps \ {s} : steps'[i] = steps[i]
    BY <1>1
  <2>3. QED
    BY <1>1, <2>1, <2>2, BatchMoves, BatchStays
<1>3. BatchOf(s).state = "pending" /\ BatchOf(s).writes = Written(s)
  BY <1>1 DEF BatchOf
<1>4. QED
  BY <1>1, <1>2, <1>3 DEF Ledger!Deliver, Ledger!Settle

LEMMA FailGivesUp ==
    ASSUME TypeOK, NEW s \in DOMAIN steps, Fail(s)
    PROVE  Ledger!GiveUp(s)
<1>1. /\ steps[s].status = "pending"
      /\ steps' = [steps EXCEPT ![s].status = "failed"]
      /\ UNCHANGED artifacts
  BY DEF Fail, StepTransitions, TypeOK, IsStep, StepStatus
<1>2. /\ DOMAIN steps' = DOMAIN steps
      /\ BatchOf(s)' = [BatchOf(s) EXCEPT !.state = "failed"]
      /\ \A i \in DOMAIN steps \ {s} : BatchOf(i)' = BatchOf(i)
  <2>1. /\ steps'[s].spec = steps[s].spec
        /\ steps'[s].versions = steps[s].versions
        /\ steps'[s].status = "failed"
    BY <1>1 DEF TypeOK, IsStep
  <2>2. \A i \in DOMAIN steps \ {s} : steps'[i] = steps[i]
    BY <1>1
  <2>3. QED
    BY <1>1, <2>1, <2>2, BatchMoves, BatchStays
<1>3. BatchOf(s).state = "pending"
  BY <1>1 DEF BatchOf
<1>4. QED
  BY <1>1, <1>2, <1>3 DEF Ledger!GiveUp, Ledger!Settle

\* An invalidation marks the batches it hits, if any.
LEMMA InvalidationMarks ==
    ASSUME StoreInv, RequestsChecked, NEW r \in Runs, NEW ref \in artifacts,
           InvalidateDependents(r, {ref}),
           NEW hit, hit = {s \in DOMAIN steps : steps'[s] # steps[s]}, hit # {}
    PROVE  /\ r \in {steps[s].spec.run : s \in DOMAIN steps}
           /\ Ledger!Mark(r, ref)
<1>1. TypeOK /\ UNCHANGED artifacts /\ DOMAIN steps' = DOMAIN steps
  BY DEF StoreInv, IInv, InvalidateDependents
<1>2. PICK gone : gone = {s \in StepsOf(r) : steps'[s].status = "invalidated"}
  OBVIOUS
<1>3. /\ hit \subseteq StepsOf(r)
      /\ \A s \in StepsOf(r) : steps'[s].status = "succeeded" =>
            steps[s].spec.inputs \cap ({ref} \cup UNION {Written(a) : a \in hit}) = {}
      /\ \A s \in hit :
            steps[s].spec.inputs
              \cap ({ref} \cup UNION {Written(a) : a \in gone \ {s}}) # {}
  BY <1>2, InvalidationStep
<1>4. \A s \in hit : /\ steps[s].status = "succeeded"
                     /\ steps'[s] = [steps[s] EXCEPT !.status = "invalidated"]
  <2>1. \A s \in hit : steps[s].status = "succeeded"
    BY <1>1, HitAreAffected
  <2>2. PICK least : least = Affected(r, {ref})
    OBVIOUS
  <2>3. steps' = [s \in DOMAIN steps |->
            IF s \in least /\ steps[s].status = "succeeded"
            THEN [steps[s] EXCEPT !.status = "invalidated"]
            ELSE steps[s]]
    BY <2>2 DEF InvalidateDependents
  <2>4. QED
    BY <2>1, <2>3
<1>5. \A s \in DOMAIN steps \ hit : steps'[s] = steps[s]
  OBVIOUS
<1>6. /\ \A s \in hit : BatchOf(s)' = [BatchOf(s) EXCEPT !.state = "invalidated"]
      /\ \A s \in DOMAIN steps \ hit : BatchOf(s)' = BatchOf(s)
  <2>1. \A s \in hit : /\ steps'[s].spec = steps[s].spec
                       /\ steps'[s].versions = steps[s].versions
                       /\ steps'[s].status = "invalidated"
    BY <1>1, <1>4 DEF TypeOK, IsStep
  <2>2. QED
    BY <1>5, <2>1, BatchMoves, BatchStays
<1>7. PICK batches : batches = [s \in DOMAIN steps |-> BatchOf(s)]
  OBVIOUS
<1>8. /\ DOMAIN batches = DOMAIN steps
      /\ \A s \in DOMAIN steps : /\ batches[s].run = steps[s].spec.run
                                 /\ batches[s].reads = steps[s].spec.inputs
                                 /\ batches[s].writes = Written(s)
                                 /\ batches[s].state = steps[s].status
  BY <1>7 DEF BatchOf
<1>9. \A state : Ledger!InState(r, state) = {s \in StepsOf(r) : steps[s].status = state}
  BY <1>7, <1>8 DEF Ledger!InState, StepsOf
<1>10. \A some \in SUBSET DOMAIN steps :
          Ledger!WrittenBy(some) = UNION {Written(a) : a \in some}
  BY <1>7, <1>8 DEF Ledger!WrittenBy
<1>11. gone \subseteq hit \cup Ledger!InState(r, "invalidated")
  BY <1>2, <1>5, <1>9 DEF StepsOf
<1>12. hit \in SUBSET Ledger!InState(r, "succeeded")
  <2>1. Ledger!InState(r, "succeeded") = {s \in StepsOf(r) : steps[s].status = "succeeded"}
    BY <1>9
  <2>2. QED
    BY <1>3, <1>4, <2>1
<1>13. ASSUME NEW s \in Ledger!InState(r, "succeeded") \ hit
       PROVE  batches[s].reads \cap ({ref} \cup Ledger!WrittenBy(hit)) = {}
  <2>1. s \in StepsOf(r) /\ s \in DOMAIN steps /\ steps'[s].status = "succeeded"
    BY <1>5, <1>9, <1>13 DEF StepsOf
  <2>2. hit \in SUBSET DOMAIN steps
    OBVIOUS
  <2>3. QED
    BY <1>3, <1>8, <1>10, <2>1, <2>2
<1>14. ASSUME NEW s \in hit
       PROVE  batches[s].reads \cap ({ref} \cup
                 Ledger!WrittenBy((hit \cup Ledger!InState(r, "invalidated")) \ {s})) # {}
  <2>1. PICK marked : marked = (hit \cup Ledger!InState(r, "invalidated")) \ {s}
    OBVIOUS
  <2>2. marked \in SUBSET DOMAIN steps /\ gone \ {s} \subseteq marked
    BY <1>9, <1>11, <2>1 DEF StepsOf
  <2>3. UNION {Written(a) : a \in gone \ {s}} \subseteq Ledger!WrittenBy(marked)
    BY <1>10, <2>2
  <2>4. batches[s].reads \cap ({ref} \cup Ledger!WrittenBy(marked)) # {}
    BY <1>3, <1>8, <2>3
  <2>5. QED
    BY <2>1, <2>4
<1>15. [s \in DOMAIN steps |-> BatchOf(s)]' =
          [s \in DOMAIN batches |->
              IF s \in hit THEN [batches[s] EXCEPT !.state = "invalidated"] ELSE batches[s]]
  BY <1>1, <1>6, <1>7
<1>16. Ledger!Mark(r, ref)
  <2>1. \A b \in Ledger!InState(r, "succeeded") \ hit :
           [s \in DOMAIN steps |-> BatchOf(s)][b].reads
             \cap ({ref} \cup Ledger!WrittenBy(hit)) = {}
    BY <1>7, <1>13
  <2>2. \A b \in hit :
           [s \in DOMAIN steps |-> BatchOf(s)][b].reads \cap ({ref} \cup
              Ledger!WrittenBy((hit \cup Ledger!InState(r, "invalidated")) \ {b})) # {}
    BY <1>7, <1>14
  <2>3. [s \in DOMAIN steps |-> BatchOf(s)]' =
           [b \in DOMAIN [s \in DOMAIN steps |-> BatchOf(s)] |->
              IF b \in hit
              THEN [[s \in DOMAIN steps |-> BatchOf(s)][b] EXCEPT !.state = "invalidated"]
              ELSE [s \in DOMAIN steps |-> BatchOf(s)][b]]
    BY <1>7, <1>15, Zenon
  <2>4. QED
    BY <1>1, <1>12, <2>1, <2>2, <2>3, Zenon DEF Ledger!Mark
<1>17. r \in {steps[s].spec.run : s \in DOMAIN steps}
  BY <1>3 DEF StepsOf
<1>18. QED
  BY <1>16, <1>17

LEMMA LedgerStep ==
    NewestInv /\ StoreInv /\ CoverInv /\ [Next]_vars => [Ledger!Next]_(Ledger!vars)
<1>1. SUFFICES ASSUME NewestInv, StoreInv, CoverInv, [Next]_vars
               PROVE  [Ledger!Next]_(Ledger!vars)
  OBVIOUS
<1>2. TypeOK /\ RerunInv /\ RequestsChecked
  BY <1>1 DEF CoverInv, RerunInv
<1>3. ASSUME UNCHANGED <<steps, artifacts>>
      PROVE  UNCHANGED Ledger!vars
  BY <1>3 DEF Ledger!vars, BatchOf, Written
<1>4. ASSUME NEW t \in Sessions, Request(t) \/ ReserveOutput(t) \/ Rollback(t)
      PROVE  UNCHANGED <<steps, artifacts>>
  <2>1. CASE Request(t)
    <3>1. PICK spec, key : Begin(t, spec, key)
      BY <2>1 DEF Request
    <3>2. QED
      BY <3>1 DEF Begin
  <2>2. QED
    BY <1>4, <2>1 DEF ReserveOutput, Rollback
<1>5. ASSUME NEW t \in Sessions, NEW s \in StepIds, Commit(t, s)
      PROVE  Ledger!Next
  BY <1>1, <1>2, <1>5, CommitReserves DEF Ledger!Next
<1>6. ASSUME NEW s \in DOMAIN steps, Succeed(s) \/ Fail(s)
      PROVE  Ledger!Next
  BY <1>2, <1>6, SucceedDelivers, FailGivesUp DEF Ledger!Next
<1>7. ASSUME NEW r \in Runs, NEW ref \in artifacts, InvalidateDependents(r, {ref})
      PROVE  Ledger!Next \/ UNCHANGED <<steps, artifacts>>
  <2>1. PICK hit : hit = {s \in DOMAIN steps : steps'[s] # steps[s]}
    OBVIOUS
  <2>2. CASE hit = {}
    <3>1. steps' = [s \in DOMAIN steps |-> steps'[s]] /\ UNCHANGED artifacts
      BY <1>7 DEF InvalidateDependents
    <3>2. steps = [s \in DOMAIN steps |-> steps[s]]
      BY <1>2 DEF TypeOK
    <3>3. \A s \in DOMAIN steps : steps'[s] = steps[s]
      BY <2>1, <2>2
    <3>4. QED
      BY <3>1, <3>2, <3>3
  <2>3. CASE hit # {}
    <3>1. r \in {steps[s].spec.run : s \in DOMAIN steps} /\ Ledger!Mark(r, ref)
      BY <1>1, <1>2, <1>7, <2>1, <2>3, InvalidationMarks
    <3>2. \A s \in DOMAIN steps :
             [i \in DOMAIN steps |-> BatchOf(i)][s].run = steps[s].spec.run
      BY DEF BatchOf
    <3>3. r \in {[i \in DOMAIN steps |-> BatchOf(i)][s].run :
                    s \in DOMAIN [i \in DOMAIN steps |-> BatchOf(i)]}
      BY <3>1, <3>2
    <3>4. QED
      BY <3>1, <3>3 DEF Ledger!Next
  <2>4. QED
    BY <2>2, <2>3
<1>8. CASE (\E r \in Runs : EndRun(r)) \/ UNCHANGED vars
  BY <1>3, <1>8 DEF EndRun, vars
<1>9. QED
  BY <1>1, <1>3, <1>4, <1>5, <1>6, <1>7, <1>8 DEF Next

\* Step runs implement the ledger of batches (ImplementsLedger): a reservation
\* of many locked statements is one step that announces the newest version of
\* each of its streams, whatever other sessions and runs do in between; a batch
\* reads what was stored before it and stores all or nothing; and an
\* invalidation marks exactly the batches that depend on the change.
THEOREM LedgerImplemented == Spec => ImplementsLedger
<1>1. Spec => []NewestInv
  BY NewestInit, NewestStep, PTL DEF Spec
<1>2. Spec => []StoreInv
  BY StoreInit, StoreStep, PTL DEF Spec
<1>3. Spec => []CoverInv
  BY CoverInit, CoverStep, PTL DEF Spec
<1>4. QED
  BY <1>1, <1>2, <1>3, LedgerInit, LedgerStep, PTL DEF Spec, ImplementsLedger, Ledger!Spec

-----------------------------------------------------------------------------
(* Where an artifact comes from                                            *)

LEMMA WrittenByAny ==
    ASSUME NEW some, NEW ref
    PROVE  ref \in WrittenBy(some) <=> \E s \in some : ref \in Written(s)
BY DEF WrittenBy

\* What a step has written already is not written again.
LEMMA WrittenByStays ==
    ASSUME NEW some, \A s \in some : Written(s)' = Written(s)
    PROVE  WrittenBy(some)' = WrittenBy(some)
<1>1. ASSUME NEW ref
      PROVE  ref \in WrittenBy(some)' <=> ref \in WrittenBy(some)
  <2>1. ref \in WrittenBy(some)' <=> \E s \in some : ref \in Written(s)'
    BY DEF WrittenBy
  <2>2. QED
    BY <2>1, WrittenByAny
<1>2. QED
  BY <1>1

LEMMA ProvenanceInit == Init => ProvenanceInv
<1>1. SUFFICES ASSUME Init PROVE ProvenanceInv
  OBVIOUS
<1>2. DOMAIN steps = {} /\ artifacts = [stream : Externals, version : ExternalVersions]
  BY <1>1 DEF Init
<1>3. WrittenBy(Delivered) = {}
  BY <1>2 DEF Delivered, WrittenBy
<1>4. StoredIsDelivered /\ ReadsAreStored /\ ProvenanceAcyclic
  BY <1>2, <1>3 DEF StoredIsDelivered, ReadsAreStored, ProvenanceAcyclic
<1>5. QED
  BY <1>1, <1>4, StoreInit DEF ProvenanceInv

\* A step that reserves nothing and delivers what it stores.
LEMMA ProvenanceKept ==
    ASSUME ProvenanceInv, StoreInv',
           DOMAIN steps' = DOMAIN steps,
           \A s \in DOMAIN steps : /\ steps'[s].spec = steps[s].spec
                                   /\ steps'[s].versions = steps[s].versions,
           NEW more \in SUBSET DOMAIN steps,
           Delivered' = Delivered \cup more,
           artifacts' = artifacts \cup WrittenBy(more)
    PROVE  ProvenanceInv'
<1>1. \A s \in DOMAIN steps : Written(s)' = Written(s) /\ Reads(s)' = Reads(s)
  BY DEF Written, Reads
<1>2. \A some \in SUBSET DOMAIN steps : WrittenBy(some)' = WrittenBy(some)
  <2>1. ASSUME NEW some \in SUBSET DOMAIN steps
        PROVE  WrittenBy(some)' = WrittenBy(some)
    BY <1>1, WrittenByStays
  <2>2. QED
    BY <2>1
<1>3. StoredIsDelivered'
  <2>1. PICK before, after : before = Delivered /\ after = Delivered'
    OBVIOUS
  <2>2. after = before \cup more /\ after \in SUBSET DOMAIN steps
    BY <2>1 DEF Delivered
  <2>3. WrittenBy(after) = WrittenBy(before) \cup WrittenBy(more)
    <3>1. ASSUME NEW ref
          PROVE  ref \in WrittenBy(after) <=>
                    ref \in WrittenBy(before) \/ ref \in WrittenBy(more)
      BY <2>2, WrittenByAny
    <3>2. QED
      BY <3>1
  <2>4. artifacts = [stream : Externals, version : ExternalVersions] \cup WrittenBy(before)
    BY <2>1 DEF ProvenanceInv, StoredIsDelivered
  <2>5. artifacts' = [stream : Externals, version : ExternalVersions] \cup WrittenBy(after)'
    <3>1. PICK given : given = [stream : Externals, version : ExternalVersions]
      OBVIOUS
    <3>2. artifacts' = given \cup WrittenBy(after)
      BY <2>3, <2>4, <3>1
    <3>3. QED
      BY <1>2, <2>2, <3>1, <3>2
  <2>6. WrittenBy(after)' = WrittenBy(Delivered)'
    BY <2>1 DEF WrittenBy
  <2>7. QED
    BY <2>5, <2>6 DEF StoredIsDelivered
<1>4. ReadsAreStored'
  BY <1>1 DEF ProvenanceInv, ReadsAreStored
<1>5. ProvenanceAcyclic'
  <2>1. ASSUME NEW some \in (SUBSET DOMAIN steps) \ {{}}
        PROVE  \E s \in some : Reads(s)' \cap WrittenBy(some)' = {}
    BY <1>1, <1>2, <2>1 DEF ProvenanceInv, ProvenanceAcyclic
  <2>2. QED
    BY <2>1 DEF ProvenanceAcyclic
<1>6. QED
  BY <1>3, <1>4, <1>5 DEF ProvenanceInv

\* The new step run reads what is stored, and nothing stored is its own.
LEMMA CommitProvenance ==
    ASSUME ProvenanceInv, StoreInv', NEW t \in Sessions, NEW s \in StepIds, Commit(t, s)
    PROVE  ProvenanceInv'
<1>1. /\ s \notin DOMAIN steps
      /\ DOMAIN steps' = DOMAIN steps \cup {s}
      /\ \A i \in DOMAIN steps : steps'[i] = steps[i]
      /\ steps'[s] = [spec |-> session[t].spec, key |-> session[t].key,
                      versions |-> session[t].versions, status |-> "pending"]
      /\ UNCHANGED artifacts
      /\ session[t].spec.inputs \cup session[t].spec.preserved \subseteq artifacts
  BY DEF Commit, ReferencesHold
<1>2. \A i \in DOMAIN steps : Written(i)' = Written(i) /\ Reads(i)' = Reads(i)
  BY <1>1 DEF Written, Reads
<1>3. \A some \in SUBSET DOMAIN steps : WrittenBy(some)' = WrittenBy(some)
  <2>1. ASSUME NEW some \in SUBSET DOMAIN steps
        PROVE  WrittenBy(some)' = WrittenBy(some)
    BY <1>2, WrittenByStays
  <2>2. QED
    BY <2>1
<1>4. /\ Reads(s)' \subseteq artifacts
      /\ Written(s)' \cap artifacts = {}
  <2>1. Written(s)' \cap artifacts' = {}
    BY <1>1 DEF StoreInv, NotStored
  <2>2. QED
    BY <1>1, <2>1 DEF Reads
<1>5. StoredIsDelivered'
  <2>1. PICK done : done = Delivered
    OBVIOUS
  <2>2. Delivered' = done /\ done \in SUBSET DOMAIN steps
    BY <1>1, <2>1 DEF Delivered
  <2>3. artifacts' = [stream : Externals, version : ExternalVersions] \cup WrittenBy(done)
    BY <1>1, <2>1 DEF ProvenanceInv, StoredIsDelivered
  <2>4. WrittenBy(done) = WrittenBy(done)' /\ WrittenBy(done)' = WrittenBy(Delivered)'
    BY <1>3, <2>2 DEF WrittenBy
  <2>5. QED
    BY <2>3, <2>4 DEF StoredIsDelivered
<1>6. \A i \in DOMAIN steps : Reads(i) \subseteq artifacts
  BY DEF ProvenanceInv, ReadsAreStored
<1>7. ReadsAreStored'
  BY <1>1, <1>2, <1>4, <1>6 DEF ReadsAreStored
<1>8. ASSUME NEW some \in (SUBSET DOMAIN steps') \ {{}}
      PROVE  \E i \in some : Reads(i)' \cap WrittenBy(some)' = {}
  <2>1. PICK old : old = some \ {s} /\ old \in SUBSET DOMAIN steps
    BY <1>1
  <2>2. ASSUME NEW ref \in WrittenBy(some)'
        PROVE  ref \in WrittenBy(old) \/ ref \in Written(s)'
    <3>1. PICK u \in some : ref \in Written(u)'
      BY <2>2 DEF WrittenBy
    <3>2. CASE u = s
      BY <3>1, <3>2 DEF Written
    <3>3. CASE u # s
      <4>1. u \in old /\ ref \in Written(u)
        BY <1>2, <2>1, <3>1, <3>3
      <4>2. QED
        BY <4>1, WrittenByAny
    <3>4. QED
      BY <3>2, <3>3
  <2>3. CASE old = {}
    <3>1. s \in some /\ WrittenBy(old) = {}
      BY <1>8, <2>1, <2>3 DEF WrittenBy
    <3>2. QED
      BY <1>4, <2>2, <3>1
  <2>4. CASE old # {}
    <3>1. PICK i \in old : Reads(i) \cap WrittenBy(old) = {}
      BY <2>1, <2>4 DEF ProvenanceInv, ProvenanceAcyclic
    <3>2. i \in some /\ Reads(i)' = Reads(i) /\ Reads(i) \subseteq artifacts
      BY <1>2, <1>6, <2>1
    <3>3. Reads(i)' \cap WrittenBy(some)' = {}
      BY <1>4, <2>2, <3>1, <3>2
    <3>4. QED
      BY <3>2, <3>3
  <2>5. QED
    BY <2>3, <2>4
<1>9. ProvenanceAcyclic'
  BY <1>8 DEF ProvenanceAcyclic
<1>10. QED
  BY <1>5, <1>7, <1>9 DEF ProvenanceInv

LEMMA ProvenanceStep == ProvenanceInv /\ [Next]_vars => ProvenanceInv'
<1>1. SUFFICES ASSUME ProvenanceInv, [Next]_vars PROVE ProvenanceInv'
  OBVIOUS
<1>2. StoreInv' /\ TypeOK
  BY <1>1, StoreStep DEF ProvenanceInv, StoreInv, IInv
<1>3. ASSUME UNCHANGED <<steps, artifacts>> PROVE ProvenanceInv'
  <2>1. /\ DOMAIN steps' = DOMAIN steps
        /\ \A s \in DOMAIN steps : /\ steps'[s].spec = steps[s].spec
                                   /\ steps'[s].versions = steps[s].versions
        /\ {} \in SUBSET DOMAIN steps
        /\ Delivered' = Delivered \cup {}
        /\ artifacts' = artifacts \cup WrittenBy({})
    BY <1>3 DEF Delivered, WrittenBy
  <2>2. QED
    BY <1>1, <1>2, <2>1, ProvenanceKept
<1>4. ASSUME NEW t \in Sessions, Request(t) \/ ReserveOutput(t) \/ Rollback(t)
      PROVE  UNCHANGED <<steps, artifacts>>
  <2>1. CASE Request(t)
    <3>1. PICK spec, key : Begin(t, spec, key)
      BY <2>1 DEF Request
    <3>2. QED
      BY <3>1 DEF Begin
  <2>2. QED
    BY <1>4, <2>1 DEF ReserveOutput, Rollback
<1>5. ASSUME NEW t \in Sessions, NEW s \in StepIds, Commit(t, s) PROVE ProvenanceInv'
  BY <1>1, <1>2, <1>5, CommitProvenance
<1>6. ASSUME NEW s \in DOMAIN steps, Succeed(s) PROVE ProvenanceInv'
  <2>1. /\ DOMAIN steps' = DOMAIN steps
        /\ \A i \in DOMAIN steps : /\ steps'[i].spec = steps[i].spec
                                   /\ steps'[i].versions = steps[i].versions
        /\ \A i \in DOMAIN steps \ {s} : steps'[i].status = steps[i].status
        /\ steps'[s].status = "succeeded"
        /\ artifacts' = artifacts \cup Written(s)
    BY <1>2, <1>6 DEF Succeed, TypeOK, IsStep
  <2>2. Delivered' = Delivered \cup {s}
    BY <2>1 DEF Delivered
  <2>3. artifacts' = artifacts \cup WrittenBy({s})
    BY <2>1 DEF WrittenBy
  <2>4. QED
    BY <1>1, <1>2, <2>1, <2>2, <2>3, ProvenanceKept
<1>7. ASSUME NEW s \in DOMAIN steps, Fail(s) PROVE ProvenanceInv'
  <2>1. steps[s].status = "pending" /\ UNCHANGED artifacts
    BY <1>2, <1>7 DEF Fail, StepTransitions, TypeOK, IsStep, StepStatus
  <2>2. /\ DOMAIN steps' = DOMAIN steps
        /\ \A i \in DOMAIN steps : /\ steps'[i].spec = steps[i].spec
                                   /\ steps'[i].versions = steps[i].versions
        /\ \A i \in DOMAIN steps \ {s} : steps'[i].status = steps[i].status
        /\ steps'[s].status = "failed"
    BY <1>2, <1>7 DEF Fail, TypeOK, IsStep
  <2>3. Delivered' = Delivered \cup {}
    BY <2>1, <2>2 DEF Delivered
  <2>4. artifacts' = artifacts \cup WrittenBy({})
    BY <2>1 DEF WrittenBy
  <2>5. QED
    BY <1>1, <1>2, <2>2, <2>3, <2>4, ProvenanceKept
<1>8. ASSUME NEW r \in Runs, NEW ref \in artifacts, InvalidateDependents(r, {ref})
      PROVE  ProvenanceInv'
  <2>1. PICK least : least = Affected(r, {ref})
    OBVIOUS
  <2>2. steps' = [s \in DOMAIN steps |->
            IF s \in least /\ steps[s].status = "succeeded"
            THEN [steps[s] EXCEPT !.status = "invalidated"]
            ELSE steps[s]]
        /\ UNCHANGED artifacts
    BY <1>8, <2>1 DEF InvalidateDependents
  <2>3. /\ DOMAIN steps' = DOMAIN steps
        /\ \A i \in DOMAIN steps : /\ steps'[i].spec = steps[i].spec
                                   /\ steps'[i].versions = steps[i].versions
        /\ \A i \in DOMAIN steps : steps'[i].status \in {"succeeded", "invalidated"}
              <=> steps[i].status \in {"succeeded", "invalidated"}
    BY <1>2, <2>2 DEF TypeOK, IsStep
  <2>4. Delivered' = Delivered \cup {}
    BY <2>3 DEF Delivered
  <2>5. artifacts' = artifacts \cup WrittenBy({})
    BY <2>2 DEF WrittenBy
  <2>6. QED
    BY <1>1, <1>2, <2>3, <2>4, <2>5, ProvenanceKept
<1>9. CASE (\E r \in Runs : EndRun(r)) \/ UNCHANGED vars
  BY <1>3, <1>9 DEF EndRun, vars
<1>10. QED
  BY <1>1, <1>3, <1>4, <1>5, <1>6, <1>7, <1>8, <1>9 DEF Next

\* No step run depends on itself through what others wrote or pinned
\* (ProvenanceAcyclic): a walk from an artifact to what it was made of ends,
\* through any number of reruns, runs and invalidations.
THEOREM ProvenanceEnds == Spec => []ProvenanceAcyclic
<1>1. Spec => []ProvenanceInv
  BY ProvenanceInit, ProvenanceStep, PTL DEF Spec
<1>2. ProvenanceInv => ProvenanceAcyclic
  BY DEF ProvenanceInv
<1>3. QED
  BY <1>1, <1>2, PTL

\* The stored artifacts are the external inputs and all that the step runs
\* wrote which succeeded, and nothing else, whatever became of them since
\* (StoredIsDelivered): an invalidation loses no artifact, and a failure leaves
\* none.
THEOREM NothingElseIsStored == Spec => []StoredIsDelivered
<1>1. Spec => []ProvenanceInv
  BY ProvenanceInit, ProvenanceStep, PTL DEF Spec
<1>2. ProvenanceInv => StoredIsDelivered
  BY DEF ProvenanceInv
<1>3. QED
  BY <1>1, <1>2, PTL

-----------------------------------------------------------------------------
(* Which items can be generated again                                      *)

\* The request that names a step for some of its items.
LEMMA ItemsFields ==
    ASSUME TypeOK, NEW s \in DOMAIN steps, NEW items \in SUBSET Streams
    PROVE  /\ ItemsOf(s, items).run = steps[s].spec.run
           /\ ItemsOf(s, items).kind = steps[s].spec.kind
           /\ ItemsOf(s, items).inputs = steps[s].spec.inputs
           /\ ItemsOf(s, items).targets = items
           /\ ItemsOf(s, items).parent = s
           /\ ItemsOf(s, items).preserved = Unaffected(s, items)
           /\ ItemsOf(s, items) \in StepSpec
<1>1. steps[s].spec \in StepSpec /\ s \in StepIds
  BY DEF TypeOK, IsStep
<1>2. PICK spec \in StepSpec : spec = steps[s].spec
  BY <1>1
<1>3. PICK pins \in SUBSET Ref : pins = Unaffected(s, items)
  BY WrittenAreRefs DEF Unaffected
<1>4. PICK named \in StepSpec : named = [spec EXCEPT !.parent = s]
  BY <1>1 DEF StepSpec
<1>5. PICK pinned \in StepSpec : pinned = [named EXCEPT !.preserved = pins]
  BY DEF StepSpec
<1>6. ItemsOf(s, items) = [pinned EXCEPT !.targets = items]
  BY <1>2, <1>3, <1>4, <1>5 DEF ItemsOf, RerunOf
<1>7. QED
  BY <1>2, <1>3, <1>4, <1>5, <1>6 DEF StepSpec

LEMMA ItemsAccepted ==
    ASSUME CoverInv, StoredIsDelivered, NEW s \in DOMAIN steps,
           NEW items \in (SUBSET (steps[s].spec.targets \ Singles)) \ {{}},
           steps[s].status = "succeeded",
           steps[s].spec.run \in open,
           ~SameFingerprint(ItemsOf(s, items))
    PROVE  Accepts(ItemsOf(s, items))
<1>1. TypeOK /\ SpecsFit /\ RequestsChecked
  BY DEF CoverInv, RerunInv
<1>2. items \in SUBSET Streams
  BY <1>1 DEF TypeOK, IsStep, StepSpec
<1>3. PICK spec \in StepSpec :
         /\ spec = ItemsOf(s, items)
         /\ spec.run = steps[s].spec.run
         /\ spec.kind = steps[s].spec.kind
         /\ spec.inputs = steps[s].spec.inputs
         /\ spec.targets = items
         /\ spec.parent = s
         /\ spec.preserved = Unaffected(s, items)
  BY <1>1, <1>2, ItemsFields
<1>4. s # NoStep
  BY <1>1, DefinitionAssumption DEF TypeOK
<1>5. ValidationSpec(spec) = spec
  BY <1>3 DEF ValidationSpec
<1>6. WellFormed(spec)
  <2>1. StreamsOf(spec.preserved) = steps[s].spec.targets \ items
    BY <1>3, UnaffectedStreams
  <2>2. \A a, b \in spec.preserved : a.stream = b.stream => a = b
    BY <1>3 DEF Unaffected, Written
  <2>3. QED
    BY <1>3, <1>4, <2>1, <2>2 DEF WellFormed
<1>7. ValidateStepSpec(spec)
  <2>1. StreamsOf(steps[s].spec.inputs) = Bindings[steps[s].spec.kind]
    BY <1>1 DEF RequestsChecked, Checked
  <2>2. steps[s].spec.targets \subseteq OutputsOf(steps[s].spec.kind)
    BY <1>1 DEF SpecsFit, Fits
  <2>3. QED
    BY <1>3, <1>4, <2>1, <2>2 DEF ValidateStepSpec
<1>8. ~KeyUsed(spec, "unused") /\ steps[s].key # "unused"
  BY <1>1, UnusedKeyAssumption DEF KeyUsed, StepsOf, TypeOK, IsStep
<1>9. Newer(s, [o \in items |-> Latest(o) + 1])
  BY LatestIsNewer DEF Newer
<1>10. FanoutItemRerun(spec, "unused", [o \in spec.targets |-> Latest(o) + 1])
  BY <1>3, <1>4, <1>8, <1>9 DEF FanoutItemRerun
<1>11. ReferencesHold(spec)
  <2>1. steps[s].spec.inputs \subseteq artifacts
    BY <1>1 DEF RequestsChecked
  <2>2. Written(s) \subseteq artifacts
    <3>1. s \in Delivered
      BY DEF Delivered
    <3>2. \A ref \in Written(s) : ref \in WrittenBy(Delivered)
      BY <3>1, WrittenByAny
    <3>3. QED
      BY <3>2 DEF StoredIsDelivered
  <2>3. Unaffected(s, items) \subseteq artifacts
    BY <2>2 DEF Unaffected
  <2>4. QED
    BY <1>3, <2>1, <2>3 DEF ReferencesHold
<1>12. QED
  BY <1>3, <1>5, <1>6, <1>7, <1>8, <1>10, <1>11 DEF Accepts, RerunAllowed

\* Any items of a succeeded step can be generated again, before its run ends,
\* by a request that names it and pins its other outputs, unless that very
\* request was made before: whatever was reserved, invalidated or rerun since
\* (ItemsCanBeRerun).
THEOREM ItemsComeBack == Spec => []ItemsCanBeRerun
<1>1. Spec => []CoverInv
  BY CoverInit, CoverStep, PTL DEF Spec
<1>2. Spec => []ProvenanceInv
  BY ProvenanceInit, ProvenanceStep, PTL DEF Spec
<1>3. CoverInv /\ ProvenanceInv => ItemsCanBeRerun
  BY ItemsAccepted DEF ItemsCanBeRerun, ProvenanceInv
<1>4. QED
  BY <1>1, <1>2, <1>3, PTL

-----------------------------------------------------------------------------
(* Idempotency keys                                                        *)

\* A step that begins nothing, commits nothing and changes statuses at most.
LEMMA KeysKept ==
    ASSUME KeyInv, TypeOK',
           DOMAIN steps' = DOMAIN steps,
           \A s \in DOMAIN steps : /\ steps'[s].spec = steps[s].spec
                                   /\ steps'[s].key = steps[s].key,
           \A t \in InFlight' : /\ t \in InFlight
                                /\ session'[t].spec = session[t].spec
                                /\ session'[t].key = session[t].key
    PROVE  KeyInv'
<1>1. RunsLocked' /\ OneStepPerKey'
  BY DEF KeyInv, RunsLocked, OneStepPerKey
<1>2. KeysStayNew'
  BY DEF KeyInv, KeysStayNew, KeyUsed, StepsOf
<1>3. QED
  BY <1>1, <1>2 DEF KeyInv

LEMMA BeginKeepsKeys ==
    ASSUME KeyInv, TypeOK', NEW t \in Sessions, NEW spec, NEW key, Begin(t, spec, key)
    PROVE  KeyInv'
<1>1. /\ session'[t].spec = spec /\ session'[t].key = key
      /\ \A u \in Sessions \ {t} : session'[u] = session[u]
      /\ UNCHANGED steps
      /\ RunIsFree(spec.run)
      /\ ~KeyUsed(spec, key)
  BY DEF Begin, KeyInv, TypeOK
<1>2. \A u \in InFlight' \ {t} : u \in InFlight /\ session'[u] = session[u]
  BY <1>1 DEF InFlight
<1>3. RunsLocked'
  BY <1>1, <1>2 DEF KeyInv, RunsLocked, RunIsFree, InFlight
<1>4. KeysStayNew'
  <2>1. ASSUME NEW u \in InFlight' PROVE ~KeyUsed(session[u].spec, session[u].key)'
    <3>1. CASE u = t
      BY <1>1, <3>1 DEF KeyUsed, StepsOf
    <3>2. CASE u # t
      BY <1>1, <1>2, <2>1, <3>2 DEF KeyInv, KeysStayNew, KeyUsed, StepsOf
    <3>3. QED
      BY <3>1, <3>2
  <2>2. QED
    BY <2>1 DEF KeysStayNew
<1>5. OneStepPerKey'
  BY <1>1 DEF KeyInv, OneStepPerKey
<1>6. QED
  BY <1>3, <1>4, <1>5 DEF KeyInv

\* The key was looked up under the lock of the run, which nobody else had since.
LEMMA CommitKeepsKeys ==
    ASSUME KeyInv, TypeOK', NEW t \in Sessions, NEW s \in StepIds, Commit(t, s)
    PROVE  KeyInv'
<1>1. /\ t \in InFlight
      /\ s \notin DOMAIN steps
      /\ DOMAIN steps' = DOMAIN steps \cup {s}
      /\ \A i \in DOMAIN steps : steps'[i] = steps[i]
      /\ steps'[s].spec = session[t].spec
      /\ steps'[s].key = session[t].key
  BY DEF Commit
<1>2. \A u \in InFlight' : u # t /\ u \in InFlight /\ session'[u] = session[u]
  BY DEF Commit, InFlight, Idle, KeyInv, TypeOK
<1>3. RunsLocked'
  BY <1>2 DEF KeyInv, RunsLocked
<1>4. KeysStayNew'
  <2>1. ASSUME NEW u \in InFlight', NEW i \in DOMAIN steps',
               steps'[i].spec.run = session'[u].spec.run,
               steps'[i].spec.kind = session'[u].spec.kind,
               steps'[i].key = session'[u].key
        PROVE  FALSE
    <3>1. CASE i = s
      BY <1>1, <1>2, <2>1, <3>1 DEF KeyInv, RunsLocked
    <3>2. CASE i # s
      BY <1>1, <1>2, <2>1, <3>2 DEF KeyInv, KeysStayNew, KeyUsed, StepsOf
    <3>3. QED
      BY <3>1, <3>2
  <2>2. QED
    BY <2>1 DEF KeysStayNew, KeyUsed, StepsOf
<1>5. OneStepPerKey'
  <2>1. \A i \in DOMAIN steps :
           /\ steps[i].spec.run = session[t].spec.run
           /\ steps[i].spec.kind = session[t].spec.kind
           => steps[i].key # session[t].key
    BY <1>1 DEF KeyInv, KeysStayNew, KeyUsed, StepsOf
  <2>2. QED
    BY <1>1, <2>1 DEF KeyInv, OneStepPerKey
<1>6. QED
  BY <1>3, <1>4, <1>5 DEF KeyInv

LEMMA KeyInit == Init => KeyInv
<1>1. SUFFICES ASSUME Init PROVE KeyInv
  OBVIOUS
<1>2. DOMAIN steps = {} /\ InFlight = {}
  BY <1>1 DEF Init, InFlight, Idle
<1>3. QED
  BY <1>1, <1>2, TypeInit DEF KeyInv, RunsLocked, KeysStayNew, OneStepPerKey

LEMMA KeyStep == KeyInv /\ [Next]_vars => KeyInv'
<1>1. SUFFICES ASSUME KeyInv, [Next]_vars PROVE KeyInv'
  OBVIOUS
<1>2. TypeOK /\ TypeOK'
  BY <1>1, TypeStep DEF KeyInv
<1>3. ASSUME NEW t \in Sessions, Request(t) PROVE KeyInv'
  <2>1. PICK spec, key : Begin(t, spec, key)
    BY <1>3 DEF Request
  <2>2. QED
    BY <1>1, <1>2, <2>1, BeginKeepsKeys
<1>4. ASSUME NEW t \in Sessions, Rollback(t) PROVE KeyInv'
  <2>1. UNCHANGED steps /\ \A u \in InFlight' : u \in InFlight /\ session'[u] = session[u]
    BY <1>2, <1>4 DEF Rollback, InFlight, Idle, TypeOK
  <2>2. QED
    BY <1>1, <1>2, <2>1, KeysKept
<1>5. ASSUME NEW t \in Sessions, ReserveOutput(t) PROVE KeyInv'
  <2>1. UNCHANGED steps
    BY <1>5 DEF ReserveOutput
  <2>2. PICK versions : session' = [session EXCEPT ![t].versions = versions]
    BY <1>5 DEF ReserveOutput
  <2>3. IsReserving(session[t]) /\ t \in InFlight
    BY <1>2, <1>5 DEF ReserveOutput, InFlight, TypeOK, Idle
  <2>4. /\ session'[t].spec = session[t].spec
        /\ session'[t].key = session[t].key
        /\ \A u \in Sessions \ {t} : session'[u] = session[u]
    BY <1>2, <2>2, <2>3 DEF TypeOK, IsReserving
  <2>5. \A u \in InFlight' : /\ u \in InFlight
                             /\ session'[u].spec = session[u].spec
                             /\ session'[u].key = session[u].key
    BY <2>3, <2>4 DEF InFlight
  <2>6. QED
    BY <1>1, <1>2, <2>1, <2>5, KeysKept
<1>6. ASSUME NEW t \in Sessions, NEW s \in StepIds, Commit(t, s) PROVE KeyInv'
  BY <1>1, <1>2, <1>6, CommitKeepsKeys
<1>7. ASSUME NEW s \in DOMAIN steps, Succeed(s) \/ Fail(s) PROVE KeyInv'
  <2>1. PICK status : steps' = [steps EXCEPT ![s].status = status]
    BY <1>7 DEF Succeed, Fail
  <2>2. /\ DOMAIN steps' = DOMAIN steps
        /\ \A i \in DOMAIN steps : /\ steps'[i].spec = steps[i].spec
                                   /\ steps'[i].key = steps[i].key
    BY <1>2, <2>1 DEF TypeOK, IsStep
  <2>3. UNCHANGED session
    BY <1>7 DEF Succeed, Fail
  <2>4. QED
    BY <1>1, <1>2, <2>2, <2>3, KeysKept DEF InFlight
<1>8. ASSUME NEW r \in Runs, NEW ref \in artifacts, InvalidateDependents(r, {ref})
      PROVE  KeyInv'
  <2>1. /\ UNCHANGED session
        /\ DOMAIN steps' = DOMAIN steps
        /\ \A i \in DOMAIN steps : /\ steps'[i].spec = steps[i].spec
                                   /\ steps'[i].key = steps[i].key
    BY <1>2, <1>8 DEF InvalidateDependents, TypeOK, IsStep
  <2>2. QED
    BY <1>1, <1>2, <2>1, KeysKept DEF InFlight
<1>9. CASE (\E r \in Runs : EndRun(r)) \/ UNCHANGED vars
  <2>1. UNCHANGED <<steps, session>>
    BY <1>9 DEF EndRun, vars
  <2>2. QED
    BY <1>1, <1>2, <2>1, KeysKept DEF InFlight
<1>10. QED
  BY <1>1, <1>3, <1>4, <1>5, <1>6, <1>7, <1>8, <1>9 DEF Next

\* A key names at most one step run of a run and a kind (OneStepPerKey): the
\* lock of the run alone keeps two sessions that look up the same new key from
\* both inserting under it.
THEOREM ReplayFindsTheOne == Spec => []OneStepPerKey
<1>1. Spec => []KeyInv
  BY KeyInit, KeyStep, PTL DEF Spec
<1>2. KeyInv => OneStepPerKey
  BY DEF KeyInv
<1>3. QED
  BY <1>1, <1>2, PTL

-----------------------------------------------------------------------------
(* A reservation under way is not spoilt by others                         *)

\* A step that takes nothing back and inserts no step run of the same request.
LEMMA PromiseStays ==
    ASSUME NEW t, Promised(t), t \in InFlight',
           session'[t].spec = session[t].spec, session'[t].key = session[t].key,
           session[t].spec.run \in open', artifacts \subseteq artifacts',
           \A s \in DOMAIN steps :
               /\ s \in DOMAIN steps'
               /\ steps'[s].spec = steps[s].spec /\ steps'[s].key = steps[s].key
               /\ steps[s].status \in {"failed", "invalidated"} =>
                     steps'[s].status \in {"failed", "invalidated"},
           \A s \in DOMAIN steps' \ DOMAIN steps : steps'[s].spec # session[t].spec
    PROVE  Promised(t)'
<1>1. PICK spec, key : spec = session[t].spec /\ key = session[t].key
  OBVIOUS
<1>2. /\ spec.run \in open /\ spec.inputs \cup spec.preserved \subseteq artifacts
      /\ spec.parent # NoStep =>
            /\ steps[spec.parent].spec.run = spec.run
            /\ spec.parent \in DOMAIN steps
            /\ steps[spec.parent].status \in {"failed", "invalidated"}
            /\ steps[spec.parent].key # key
            /\ steps[spec.parent].spec.kind = spec.kind
            /\ steps[spec.parent].spec.targets = spec.targets
      /\ \A s \in DOMAIN steps : steps[s].spec # spec
  BY <1>1 DEF Promised, ReferencesHold, SameFingerprint
<1>3. ReferencesHold(spec)'
  BY <1>1, <1>2 DEF ReferencesHold
<1>4. ~SameFingerprint(spec)'
  BY <1>1, <1>2 DEF SameFingerprint
<1>5. session'[t].spec = spec /\ session'[t].key = key
  BY <1>1
<1>6. spec.parent # NoStep =>
         /\ spec.parent \in DOMAIN steps'
         /\ steps'[spec.parent].status \in {"failed", "invalidated"}
         /\ steps'[spec.parent].key # key
         /\ steps'[spec.parent].spec.kind = spec.kind
         /\ steps'[spec.parent].spec.targets = spec.targets
  BY <1>2
<1>7. ReferencesHold(session[t].spec)' /\ ~SameFingerprint(session[t].spec)'
  BY <1>3, <1>4, <1>5 DEF ReferencesHold, SameFingerprint
<1>8. QED
  BY <1>5, <1>6, <1>7 DEF Promised

LEMMA PromiseStep ==
    ASSUME KeyInv, [Next]_vars, NEW t \in Sessions, Promised(t)
    PROVE  session'[t] = Idle \/ Promised(t)'
<1>1. /\ TypeOK /\ RunsLocked /\ t \in InFlight /\ IsReserving(session[t])
      /\ session[t].pc = "reserving" /\ session[t].spec.run \in open
  BY DEF KeyInv, Promised, InFlight, TypeOK, Idle, ReferencesHold
<1>2. ASSUME NEW u \in Sessions, Request(u) PROVE Promised(t)'
  <2>1. PICK spec, key : Begin(u, spec, key)
    BY <1>2 DEF Request
  <2>2. u # t /\ session'[t] = session[t] /\ UNCHANGED <<open, steps, artifacts>>
    BY <1>1, <2>1 DEF Begin, Idle, TypeOK
  <2>3. t \in InFlight'
    BY <1>1, <2>2 DEF InFlight
  <2>4. QED
    BY <1>1, <2>2, <2>3, PromiseStays
<1>3. ASSUME NEW u \in Sessions, Rollback(u)
      PROVE  session'[t] = Idle \/ Promised(t)'
  <2>1. CASE u = t
    BY <1>1, <1>3, <2>1 DEF Rollback, TypeOK
  <2>2. CASE u # t
    <3>1. session'[t] = session[t] /\ UNCHANGED <<open, steps, artifacts>>
      BY <1>1, <1>3, <2>2 DEF Rollback, TypeOK
    <3>2. t \in InFlight'
      BY <1>1, <3>1 DEF InFlight
    <3>3. QED
      BY <1>1, <3>1, <3>2, PromiseStays
  <2>3. QED
    BY <2>1, <2>2
<1>4. ASSUME NEW u \in Sessions, ReserveOutput(u) PROVE Promised(t)'
  <2>1. PICK versions : session' = [session EXCEPT ![u].versions = versions]
    BY <1>4 DEF ReserveOutput
  <2>2. /\ session'[t].spec = session[t].spec
        /\ session'[t].key = session[t].key
        /\ session'[t].pc = "reserving"
    BY <1>1, <2>1 DEF TypeOK, IsReserving
  <2>3. t \in InFlight' /\ UNCHANGED <<open, steps, artifacts>>
    BY <1>1, <1>4, <2>2 DEF InFlight, ReserveOutput
  <2>4. QED
    BY <1>1, <2>2, <2>3, PromiseStays
<1>5. ASSUME NEW u \in Sessions, NEW s \in StepIds, Commit(u, s)
      PROVE  session'[t] = Idle \/ Promised(t)'
  <2>1. CASE u = t
    BY <1>1, <1>5, <2>1 DEF Commit, TypeOK
  <2>2. CASE u # t
    <3>1. /\ session'[t] = session[t] /\ UNCHANGED <<open, artifacts>>
          /\ u \in InFlight
          /\ s \notin DOMAIN steps
          /\ DOMAIN steps' = DOMAIN steps \cup {s}
          /\ \A i \in DOMAIN steps : steps'[i] = steps[i]
          /\ steps'[s].spec = session[u].spec
      BY <1>1, <1>5, <2>2 DEF Commit, TypeOK
    <3>2. steps'[s].spec # session[t].spec
      BY <1>1, <2>2, <3>1 DEF RunsLocked
    <3>3. t \in InFlight'
      BY <1>1, <3>1 DEF InFlight
    <3>4. QED
      BY <1>1, <3>1, <3>2, <3>3, PromiseStays
  <2>3. QED
    BY <2>1, <2>2
<1>6. ASSUME NEW s \in DOMAIN steps, Succeed(s) \/ Fail(s) PROVE Promised(t)'
  <2>1. PICK status \in {"succeeded", "failed"} :
           steps' = [steps EXCEPT ![s].status = status]
    BY <1>6 DEF Succeed, Fail
  <2>2. steps[s].status \notin {"failed", "invalidated"}
    BY <1>6 DEF Succeed, Fail, StepTransitions
  <2>3. \A i \in DOMAIN steps :
           /\ i \in DOMAIN steps'
           /\ steps'[i].spec = steps[i].spec /\ steps'[i].key = steps[i].key
           /\ steps[i].status \in {"failed", "invalidated"} =>
                 steps'[i].status \in {"failed", "invalidated"}
    BY <1>1, <2>1, <2>2 DEF TypeOK, IsStep
  <2>4. /\ DOMAIN steps' = DOMAIN steps /\ UNCHANGED <<open, session>>
        /\ artifacts \subseteq artifacts'
    BY <1>6, <2>1 DEF Succeed, Fail
  <2>5. t \in InFlight'
    BY <1>1, <2>4 DEF InFlight
  <2>6. QED
    BY <1>1, <2>3, <2>4, <2>5, PromiseStays
<1>7. ASSUME NEW r \in Runs, EndRun(r) PROVE Promised(t)'
  <2>1. session[t].spec.run # r
    BY <1>1, <1>7 DEF EndRun, RunIsFree
  <2>2. session[t].spec.run \in open' /\ UNCHANGED <<steps, artifacts, session>>
    BY <1>1, <1>7, <2>1 DEF EndRun
  <2>3. t \in InFlight'
    BY <1>1, <2>2 DEF InFlight
  <2>4. QED
    BY <1>1, <2>2, <2>3, PromiseStays
<1>8. ASSUME NEW r \in Runs, NEW ref \in artifacts, InvalidateDependents(r, {ref})
      PROVE  Promised(t)'
  <2>1. /\ DOMAIN steps' = DOMAIN steps /\ UNCHANGED <<open, artifacts, session>>
        /\ \A i \in DOMAIN steps :
              /\ steps'[i].spec = steps[i].spec /\ steps'[i].key = steps[i].key
              /\ steps[i].status \in {"failed", "invalidated"} =>
                    steps'[i].status \in {"failed", "invalidated"}
    BY <1>1, <1>8 DEF InvalidateDependents, TypeOK, IsStep
  <2>2. t \in InFlight'
    BY <1>1, <2>1 DEF InFlight
  <2>3. QED
    BY <1>1, <2>1, <2>2, PromiseStays
<1>9. CASE UNCHANGED vars
  <2>1. UNCHANGED <<open, steps, artifacts, session>> /\ t \in InFlight'
    BY <1>1, <1>9 DEF vars, InFlight
  <2>2. QED
    BY <1>1, <2>1, PromiseStays
<1>10. QED
  BY <1>2, <1>3, <1>4, <1>5, <1>6, <1>7, <1>8, <1>9 DEF Next

\* Once a transaction holds its run, nothing speaks against its reservation that
\* did not before (PromisesKept), for any number of sessions and runs: the run
\* does not end, the same request is not made by others, and a parent that is
\* over stays so.
THEOREM NothingSpoilsIt == Spec => PromisesKept
<1>1. Spec => []KeyInv
  BY KeyInit, KeyStep, PTL DEF Spec
<1>2. KeyInv /\ [Next]_vars =>
         [\A t \in Sessions : Promised(t) => session'[t] = Idle \/ Promised(t)']_vars
  BY PromiseStep
<1>3. QED
  BY <1>1, <1>2, PTL DEF Spec, PromisesKept

LEMMA PromiseAllowed ==
    ASSUME NewestInv, NEW t \in Sessions, Promised(t), AllReserved(t)
    PROVE  RerunAllowed(session[t].spec, session[t].key, session[t].versions)
<1>1. PICK spec, key, versions : /\ spec = session[t].spec
                                 /\ key = session[t].key
                                 /\ versions = session[t].versions
  OBVIOUS
<1>2. CASE spec.parent = NoStep
  BY <1>1, <1>2 DEF RerunAllowed
<1>3. CASE spec.parent # NoStep
  <2>1. /\ spec.parent \in DOMAIN steps
        /\ steps[spec.parent].status \in {"failed", "invalidated"}
        /\ steps[spec.parent].key # key
        /\ steps[spec.parent].spec.run = spec.run
        /\ steps[spec.parent].spec.kind = spec.kind
        /\ steps[spec.parent].spec.targets = spec.targets
    BY <1>1, <1>3 DEF Promised, ReferencesHold
  <2>2. DOMAIN versions = spec.targets /\ Held(t) = spec.targets
    BY <1>1 DEF Promised, AllReserved, Held
  <2>3. ASSUME NEW o \in DOMAIN versions
        PROVE  versions[o] > steps[spec.parent].versions[o]
    <3>1. steps[spec.parent].versions[o] \in Versions(t, o)
      BY <2>1, <2>2 DEF Versions
    <3>2. steps[spec.parent].versions[o] < versions[o]
      BY <1>1, <2>2, <3>1 DEF NewestInv, HeldAreNewest
    <3>3. QED
      BY <3>2
  <2>4. Newer(spec.parent, versions)
    BY <2>3 DEF Newer
  <2>5. StepRerun(spec, key, versions)
    BY <1>3, <2>1, <2>4 DEF StepRerun
  <2>6. QED
    BY <1>1, <2>5 DEF RerunAllowed
<1>4. QED
  BY <1>2, <1>3

\* When all outputs of such a request are reserved, the comparison with its
\* parent lets it through (PromisedCommits), so that with PromisesKept it commits
\* unless its process goes: no whole step is asked for in vain.
THEOREM PromisesCommit == Spec => []PromisedCommits
<1>1. Spec => []NewestInv
  BY NewestInit, NewestStep, PTL DEF Spec
<1>2. NewestInv => PromisedCommits
  BY PromiseAllowed DEF PromisedCommits
<1>3. QED
  BY <1>1, <1>2, PTL

=============================================================================
