---------------------------- MODULE ConsoleProofs ----------------------------
(***************************************************************************)
(* Proofs about the web console, for every set of projects and any number  *)
(* of requests, loads and changes.                                         *)
(***************************************************************************)
EXTENDS ConsoleProperties, TLAPS

-----------------------------------------------------------------------------
(* Types.  The type invariant, split along the parts that actions change.  *)

PartState == {"idle", "loading", "empty", "error", "content"}

ServerTyped ==
    /\ stage \in [Projects -> Stages]
    /\ revision \in [Projects -> Nat]
    /\ asked \in [Projects -> Nat]
    /\ delivered \in [Projects -> Nat]
    /\ job \in [Projects -> {"none", "active", "succeeded", "failed"}]
    /\ rejected \in [Projects -> SUBSET Nat]
    /\ stored \subseteq Projects

PartsTyped ==
    /\ jobs \in [state : PartState, project : Projects \cup {NoProject}, offer : Nat]
    /\ evidence \in [state : PartState, project : Projects \cup {NoProject},
                     version : Nat]

ListTyped ==
    list \in [state : {"loading", "empty", "error", "content"},
              step : {"sent", "answered", "over"},
              read : SUBSET Projects, items : SUBSET Projects]

CallOf(n, c) == c \in Call /\ c.view.project \in Projects /\ c.load \in 1..n

CallsTyped == \A c \in calls : CallOf(request, c)

FormsTyped == create \in Form /\ review \in Form /\ recover \in Form

Typed ==
    /\ ServerTyped /\ PartsTyped /\ ListTyped /\ CallsTyped /\ FormsTyped
    /\ request \in Nat /\ selected \in View /\ loading \in BOOLEAN

LEMMA TypedIsTypeOK == Typed <=> ConsoleTypeOK
BY DEF Typed, ConsoleTypeOK, ServerTyped, PartsTyped, ListTyped, CallsTyped, FormsTyped,
     CallOf, Stages, PartState

LEMMA NoViewTyped == NoView \in View /\ Unsent \in Form
BY DEF NoView, View, Unsent, Form, Stages

LEMMA NothingTyped ==
    ASSUME NEW state \in PartState
    PROVE  /\ NoJobs(state) \in [state : PartState, project : Projects \cup {NoProject},
                                 offer : Nat]
           /\ NoEvidence(state) \in [state : PartState,
                                     project : Projects \cup {NoProject}, version : Nat]
BY DEF NoJobs, NoEvidence

LEMMA SentTyped ==
    ASSUME NEW n \in Nat \ {0}, NEW kind \in {"project", "jobs", "evidence"},
           NEW p \in Projects
    PROVE  /\ CallOf(n, Sent(n, kind, p))
           /\ Sent(n, kind, p).load = n /\ Sent(n, kind, p).kind = kind
           /\ Sent(n, kind, p).step = "sent" /\ Sent(n, kind, p).offer = 0
           /\ Sent(n, kind, p).view.project = p
           /\ Sent(n, kind, p).view \in View
<1>1. /\ [NoView EXCEPT !.project = p] \in View
      /\ [NoView EXCEPT !.project = p].project = p
  BY DEF NoView, View, Stages
<1>2. PICK v \in View : v = [NoView EXCEPT !.project = p] /\ v.project = p
  BY <1>1
<1>3. Sent(n, kind, p) = [load |-> n, kind |-> kind, step |-> "sent", offer |-> 0,
                          view |-> v]
  BY <1>2 DEF Sent
<1>4. n \in 1..n /\ n \in Nat
  OBVIOUS
<1>5. Sent(n, kind, p) \in Call
  BY <1>2, <1>3, <1>4 DEF Call
<1>6. /\ Sent(n, kind, p).load = n /\ Sent(n, kind, p).kind = kind
      /\ Sent(n, kind, p).step = "sent" /\ Sent(n, kind, p).offer = 0
      /\ Sent(n, kind, p).view = v
  BY <1>3
<1> QED BY <1>2, <1>4, <1>5, <1>6 DEF CallOf

LEMMA AboutTyped ==
    ASSUME NEW view \in View
    PROVE  About(view) \in View /\ About(view).project = view.project
BY DEF About, NoView, View, Stages

LEMMA FormTyped ==
    /\ \A view \in View, reply \in {"none", "ok", "refused"} :
          Replied(view, reply) \in Form /\ Submitted(view) \in Form
    /\ request \in Nat => Reloading \in Form
<1>1. Unsent = [step |-> "idle", view |-> NoView, reply |-> "none", load |-> 0]
      /\ NoView \in View
  BY NoViewTyped DEF Unsent
<1>2. ASSUME NEW view \in View, NEW reply \in {"none", "ok", "refused"}
      PROVE  Replied(view, reply) \in Form /\ Submitted(view) \in Form
  BY <1>1 DEF Replied, Submitted, Form
<1>3. ASSUME request \in Nat PROVE Reloading \in Form
  <2>1. PICK next \in Nat : next = request + 1
    BY <1>3
  <2>2. Reloading = [Unsent EXCEPT !.step = "reloading", !.load = next]
    BY <2>1 DEF Reloading
  <2> QED BY <1>1, <2>2 DEF Form
<1> QED BY <1>2, <1>3

LEMMA StartsTyped == Init => Typed
<1> SUFFICES ASSUME Init PROVE Typed
  OBVIOUS
<1> USE DEF Init
<1>1. ServerTyped
  BY ConsoleAssumption DEF ServerTyped, Stages
<1>2. PartsTyped
  BY NothingTyped DEF PartsTyped, PartState
<1>3. ListTyped /\ CallsTyped /\ FormsTyped /\ selected \in View
  BY NoViewTyped DEF ListTyped, CallsTyped, FormsTyped
<1> QED BY <1>1, <1>2, <1>3 DEF Typed

\* What a project can do, in the terms of the page: it never goes back, it
\* changes its version only with its revision, and a job that is over stays so
\* until another one is asked for.
ServerAdvances ==
    /\ ServerTyped'
    /\ stored \subseteq stored'
    /\ \A p \in Projects :
          /\ revision[p] =< revision'[p]
          /\ revision'[p] = revision[p] => delivered'[p] = delivered[p]
          /\ asked[p] =< asked'[p]
          /\ asked'[p] = asked[p] /\ job[p] # "active" => job'[p] # "active"

\* A step of the service alone.
ProjectStep == FailJobs \/ \E p \in Projects : Generate(p) \/ FinishJob(p) \/ Judge(p)

LEMMA ProjectsAdvance ==
    ASSUME ServerTyped, ProjectStep
    PROVE  ServerAdvances /\ UNCHANGED stored
<1>4. CASE FailJobs
  <2>1. PICK projects \in SUBSET stored : Lifecycle!Strand(projects)
    BY <1>4 DEF FailJobs
  <2> QED BY <1>4, <2>1 DEF FailJobs, Lifecycle!Strand, ServerTyped, ServerAdvances
<1> SUFFICES ASSUME NEW p \in Projects, Generate(p) \/ FinishJob(p) \/ Judge(p)
             PROVE  ServerAdvances /\ UNCHANGED stored
  BY <1>4 DEF ProjectStep
<1> USE DEF ServerTyped, Stages, Lifecycle!Move
<1>1. CASE Generate(p)
  BY <1>1 DEF Generate, Lifecycle!Ask, ServerAdvances
<1>2. CASE FinishJob(p)
  <2>1. CASE Lifecycle!Deliver(p)
    BY <1>2, <2>1 DEF FinishJob, Lifecycle!Deliver, Lifecycle!Ends, ServerAdvances
  <2>2. CASE Lifecycle!GiveUp(p)
    BY <1>2, <2>2 DEF FinishJob, Lifecycle!GiveUp, Lifecycle!Ends, ServerAdvances
  <2> QED BY <1>2, <2>1, <2>2 DEF FinishJob
<1>3. CASE Judge(p)
  <2>1. PICK verdict \in {"approved", "failed"} :
            /\ stage' = [stage EXCEPT ![p] = verdict]
            /\ revision' = [revision EXCEPT ![p] = @ + 1]
            /\ rejected' = [rejected EXCEPT ![p] =
                  IF verdict = "failed" THEN @ \cup {revision[p] + 1} ELSE @]
    BY <1>3 DEF Judge, Lifecycle!Decide
  <2>2. rejected' \in [Projects -> SUBSET Nat] /\ UNCHANGED <<asked, delivered, job, stored>>
    BY <1>3, <2>1 DEF Judge, Lifecycle!Decide
  <2>3. stage' \in [Projects -> Stages] /\ revision' \in [Projects -> Nat]
    BY <2>1
  <2>4. \A q \in Projects : revision[q] =< revision'[q]
    BY <2>1
  <2> QED BY <2>2, <2>3, <2>4 DEF ServerAdvances
<1> QED BY <1>1, <1>2, <1>3

-----------------------------------------------------------------------------
(* Each action keeps the types.                                            *)

LEMMA ServerKeepsTypes ==
    ASSUME Typed, ProjectStep, UNCHANGED <<screen, calls, forms>>
    PROVE  Typed'
<1>1. ServerTyped'
  BY ProjectsAdvance DEF Typed, ServerAdvances
<1> QED BY <1>1 DEF Typed, screen, forms, PartsTyped, ListTyped, CallsTyped, FormsTyped

\* What a read makes of a call: the same load, kind and project.
Continues(c, d) ==
    /\ d \in Call
    /\ d.load = c.load /\ d.kind = c.kind /\ d.view.project = c.view.project

LEMMA RowIsRead ==
    ASSUME ServerTyped, NEW c \in Call, c.view.project \in Projects, ReadRow(c)
    PROVE  \E d : /\ Continues(c, d) /\ d.step = "row" /\ d.offer = c.offer
                  /\ d.view.revision = revision[c.view.project]
                  /\ calls' = (calls \ {c}) \cup {d}
                  /\ c.kind # "evidence" /\ c.step = "sent"
<1> DEFINE p == c.view.project
           v == [c.view EXCEPT !.stage = stage[p], !.revision = revision[p]]
           d == [c EXCEPT !.step = "row", !.view.stage = stage[p],
                          !.view.revision = revision[p]]
<1>1. calls' = (calls \ {c}) \cup {d} /\ c.kind # "evidence" /\ c.step = "sent"
  BY DEF ReadRow, Advance
<1>2. stage[p] \in Stages /\ revision[p] \in Nat /\ c.view \in View
  BY DEF ServerTyped, Call
<1>3. v \in View /\ v.project = p /\ v.revision = revision[p]
  BY <1>2 DEF View
<1>4. d = [c EXCEPT !.step = "row", !.view = v]
  BY DEF Call, View
<1> HIDE DEF d, v
<1>5. d \in Call /\ d.step = "row" /\ d.view = v /\ d.offer = c.offer
      /\ d.load = c.load /\ d.kind = c.kind
  BY <1>3, <1>4 DEF Call
<1> QED BY <1>1, <1>3, <1>5 DEF Continues

LEMMA PointerIsRead ==
    ASSUME ServerTyped, NEW c \in Call, c.view.project \in Projects, ReadPointer(c)
    PROVE  \E d : /\ Continues(c, d) /\ d.step = "answered" /\ d.offer = c.offer
                  /\ d.view.revision = c.view.revision
                  /\ d.view.version = delivered[c.view.project]
                  /\ calls' = (calls \ {c}) \cup {d}
                  /\ c.kind = "project" /\ c.step = "row"
<1> DEFINE p == c.view.project
           v == [c.view EXCEPT !.version = delivered[p]]
           d == [c EXCEPT !.step = "answered", !.view.version = delivered[p]]
<1>1. calls' = (calls \ {c}) \cup {d} /\ c.kind = "project" /\ c.step = "row"
  BY DEF ReadPointer, Advance
<1>2. delivered[p] \in Nat /\ c.view \in View
  BY DEF ServerTyped, Call
<1>3. v \in View /\ v.project = p /\ v.revision = c.view.revision
      /\ v.version = delivered[p]
  BY <1>2 DEF View
<1>4. d = [c EXCEPT !.step = "answered", !.view = v]
  BY DEF Call, View
<1> HIDE DEF d, v
<1>5. d \in Call /\ d.step = "answered" /\ d.view = v /\ d.offer = c.offer
      /\ d.load = c.load /\ d.kind = c.kind
  BY <1>3, <1>4 DEF Call
<1> QED BY <1>1, <1>3, <1>5 DEF Continues

LEMMA RecoverableIsRead ==
    ASSUME ServerTyped, NEW c \in Call, c.view.project \in Projects, c.load # 0,
           ReadRecoverable(c)
    PROVE  \E d : /\ Continues(c, d) /\ d.step = "checked"
                  /\ d.offer = 0 \/ /\ d.offer = asked[c.view.project]
                                    /\ job[c.view.project] # "active"
                  /\ calls' = (calls \ {c}) \cup {d}
                  /\ c.kind = "jobs"
<1> DEFINE p == c.view.project
           offer == IF Offers(c.view) THEN asked[p] ELSE 0
           s == Sent(c.load, "jobs", p)
           d == [s EXCEPT !.step = "checked", !.offer = offer]
<1>1. calls' = (calls \ {c}) \cup {d} /\ c.kind = "jobs"
  BY DEF ReadRecoverable, Advance
<1>2. s \in Call /\ s.load = c.load /\ s.kind = c.kind /\ s.view.project = p
  BY <1>1, SentTyped DEF Call, CallOf
<1>3. offer \in Nat /\ (offer = 0 \/ (offer = asked[p] /\ job[p] # "active"))
  BY DEF ServerTyped, Offers, Lifecycle!Recoverable
<1> HIDE DEF s, offer
<1>4. d \in Call /\ d.step = "checked" /\ d.view = s.view /\ d.offer = offer
      /\ d.load = c.load /\ d.kind = c.kind
  BY <1>2, <1>3 DEF Call
<1> QED BY <1>1, <1>2, <1>3, <1>4 DEF Continues

LEMMA JobsAreRead ==
    ASSUME NEW c \in Call, c.view.project \in Projects, ReadJobs(c)
    PROVE  \E d : /\ Continues(c, d) /\ d.step = "answered" /\ d.offer = c.offer
                  /\ calls' = (calls \ {c}) \cup {d}
                  /\ c.kind = "jobs"
<1> DEFINE n == IF asked[c.view.project] = 0 THEN 0 ELSE 1
           v == [c.view EXCEPT !.version = n]
           d == [c EXCEPT !.step = "answered", !.view.version = n]
<1>1. calls' = (calls \ {c}) \cup {d} /\ c.kind = "jobs"
  BY DEF ReadJobs, Advance
<1>2. v \in View /\ v.project = c.view.project
  BY DEF View, Call
<1>3. d = [c EXCEPT !.step = "answered", !.view = v]
  BY DEF Call, View
<1> HIDE DEF d, v
<1>4. d \in Call /\ d.step = "answered" /\ d.view = v /\ d.offer = c.offer
      /\ d.load = c.load /\ d.kind = c.kind
  BY <1>2, <1>3 DEF Call
<1> QED BY <1>1, <1>2, <1>4 DEF Continues

\* Every read replaces one call by one that continues it.
LEMMA ReadsKeepTypes ==
    ASSUME Typed, NEW c \in calls,
           ReadRow(c) \/ ReadPointer(c) \/ ReadRecoverable(c) \/ ReadJobs(c)
    PROVE  Typed'
<1>1. c \in Call /\ c.view.project \in Projects /\ c.load \in 1..request
      /\ c.load # 0 /\ ServerTyped
  BY DEF Typed, CallsTyped, CallOf
<1>2. PICK d : Continues(c, d) /\ calls' = (calls \ {c}) \cup {d}
  BY <1>1, RowIsRead, PointerIsRead, RecoverableIsRead, JobsAreRead
<1>3. UNCHANGED <<server, screen, forms>>
  BY DEF ReadRow, ReadPointer, ReadRecoverable, ReadJobs
<1>4. CallOf(request, d)
  BY <1>1, <1>2 DEF Continues, CallOf
<1>5. CallsTyped'
  BY <1>2, <1>3, <1>4 DEF Typed, CallsTyped, screen
<1> QED BY <1>3, <1>5 DEF Typed, server, screen, forms, ServerTyped, PartsTyped, ListTyped,
          FormsTyped

LEMMA LoadDetailTyped ==
    ASSUME Typed, NEW p \in Projects, LoadDetail(p)
    PROVE  /\ request' = request + 1 /\ request' \in Nat
           /\ loading' \in BOOLEAN /\ CallsTyped'
           /\ evidence' \in [state : PartState, project : Projects \cup {NoProject},
                             version : Nat]
<1>1. request' = request + 1 /\ request' \in Nat \ {0} /\ loading' = TRUE
      /\ evidence' = NoEvidence("idle")
      /\ calls' = calls \cup {Sent(request', "project", p)}
  BY DEF LoadDetail, Typed
<1>2. CallOf(request', Sent(request', "project", p))
  BY <1>1, SentTyped
<1>3. \A c \in calls : CallOf(request', c)
  BY <1>1 DEF Typed, CallsTyped, CallOf
<1>4. evidence' \in [state : PartState, project : Projects \cup {NoProject},
                     version : Nat]
  BY <1>1, NothingTyped DEF PartState
<1> QED BY <1>1, <1>2, <1>3, <1>4 DEF CallsTyped

LEMMA SettleTyped ==
    ASSUME Typed, NEW n, NEW left, \A c \in left : CallOf(request, c),
           Settle(n, left), UNCHANGED request
    PROVE  /\ CallsTyped' /\ loading' \in BOOLEAN /\ review' \in Form /\ recover' \in Form
           /\ calls' = left
BY NoViewTyped DEF Settle, Typed, CallsTyped, FormsTyped

LEMMA LoadsKeepTypes ==
    ASSUME Typed, NEW c \in calls,
           ProjectArrives(c) \/ JobsArrive(c) \/ EvidenceArrives(c) \/ CallFails(c)
    PROVE  Typed'
<1>1. /\ c \in Call /\ c.view.project \in Projects /\ c.load \in 1..request
      /\ c.view \in View /\ c.load \in Nat \ {0}
      /\ CallOf(request, c)
      /\ request \in Nat
  BY DEF Typed, CallsTyped, CallOf, Call
<1>2. \A d \in calls \ {c} : CallOf(request, d)
  BY DEF Typed, CallsTyped
<1>3. UNCHANGED <<server, request, create>>
  BY DEF ProjectArrives, JobsArrive, EvidenceArrives, CallFails
<1>4. ServerTyped' /\ request' \in Nat /\ create' \in Form
  BY <1>3 DEF Typed, ServerTyped, server, FormsTyped
<1>5. CASE ProjectArrives(c)
  <2> DEFINE p == c.view.project
             jobsCall == Sent(c.load, "jobs", p)
             evidenceCall == [Sent(c.load, "evidence", p) EXCEPT
                                 !.view.version = c.view.version]
             parts == {jobsCall} \cup (IF c.view.version = 0 THEN {} ELSE {evidenceCall})
  <2>1. CallOf(request, jobsCall)
    BY <1>1, SentTyped DEF CallOf
  <2>2. CallOf(request, evidenceCall)
    <3>1. PICK s \in Call : s = Sent(c.load, "evidence", p) /\ s.load = c.load
                            /\ s.view.project = p /\ s.view \in View
      BY <1>1, SentTyped DEF CallOf
    <3> DEFINE v == [s.view EXCEPT !.version = c.view.version]
    <3>2. v \in View /\ v.project = p
      <4>1. c.view.version \in Nat
        BY <1>1 DEF View
      <4> HIDE DEF p
      <4> QED BY <3>1, <4>1 DEF View
    <3>3. evidenceCall = [s EXCEPT !.view = v]
      BY <3>1, <3>2 DEF Call
    <3> QED BY <1>1, <3>1, <3>2, <3>3 DEF CallOf, Call
  <2>3. CASE IsNewest(c)
    <3>1. /\ Show(c.view) /\ jobs' = NoJobs("loading")
          /\ evidence' = NoEvidence(IF c.view.version = 0 THEN "empty" ELSE "loading")
          /\ Settle(c.load, (calls \ {c}) \cup parts)
      BY <1>5, <2>3 DEF ProjectArrives
    <3>2. \A d \in (calls \ {c}) \cup parts : CallOf(request, d)
      BY <1>2, <2>1, <2>2
    <3>3. PartsTyped'
      BY <3>1, NothingTyped DEF PartsTyped, PartState
    <3>4. ListTyped' /\ selected' \in View
      BY <1>1, <3>1 DEF Show, Typed, ListTyped
    <3> QED BY <1>3, <1>4, <3>1, <3>2, <3>3, <3>4, SettleTyped DEF Typed, FormsTyped
  <2>4. CASE ~IsNewest(c)
    <3>1. Settle(c.load, calls \ {c}) /\ UNCHANGED <<selected, list, jobs, evidence>>
      BY <1>5, <2>4 DEF ProjectArrives
    <3> QED BY <1>2, <1>3, <1>4, <3>1, SettleTyped
            DEF Typed, FormsTyped, PartsTyped, ListTyped
  <2> QED BY <2>3, <2>4
<1>6. CASE JobsArrive(c) \/ EvidenceArrives(c) \/ CallFails(c)
  <2>1. Settle(c.load, calls \ {c}) /\ UNCHANGED <<selected, list>>
    BY <1>6 DEF JobsArrive, EvidenceArrives, CallFails
  <2>2. jobs' \in [state : PartState, project : Projects \cup {NoProject}, offer : Nat]
    BY <1>1, <1>6, NothingTyped
       DEF JobsArrive, EvidenceArrives, CallFails, PartState, Call, Typed, PartsTyped
  <2>3. evidence' \in [state : PartState, project : Projects \cup {NoProject},
                       version : Nat]
    BY <1>1, <1>6, NothingTyped
       DEF JobsArrive, EvidenceArrives, CallFails, PartState, View, Typed, PartsTyped
  <2> QED BY <1>2, <1>3, <1>4, <2>1, <2>2, <2>3, SettleTyped
          DEF Typed, FormsTyped, PartsTyped, ListTyped
<1> QED BY <1>5, <1>6

LEMMA ServingKeepsTypes ==
    ASSUME Typed, ReadList \/ (\E p \in Projects : CreateServed(p))
                  \/ ReviewServed \/ RecoveryServed
    PROVE  Typed'
<1>1. CASE ReadList
  <2>1. ListTyped'
    BY <1>1 DEF ReadList, Typed, ListTyped, ServerTyped
  <2>2. UNCHANGED <<server, request, selected, loading, jobs, evidence, calls, forms>>
    BY <1>1 DEF ReadList
  <2> QED BY <2>1, <2>2 DEF Typed, server, forms, ServerTyped, PartsTyped, CallsTyped, FormsTyped
<1>2. ASSUME NEW p \in Projects, CreateServed(p) PROVE Typed'
  <2> DEFINE v == [project |-> p, stage |-> stage[p], revision |-> revision[p],
                   version |-> delivered[p]]
  <2>1. create' = Replied(v, "ok") /\ stored' = stored \cup {p}
        /\ UNCHANGED <<stage, revision, asked, delivered, job, rejected, screen, calls,
                       review, recover>>
    BY <1>2 DEF CreateServed
  <2>2. v \in View
    BY DEF Typed, ServerTyped, View
  <2>3. create' \in Form
    BY <2>1, <2>2, FormTyped
  <2> QED BY <2>1, <2>3 DEF Typed, screen, ServerTyped, PartsTyped, ListTyped, CallsTyped,
            FormsTyped
<1>3. CASE ReviewServed
  <2>1. review.view \in View /\ review \in Form
    BY DEF Typed, FormsTyped, Form
  <2>2. About(review.view) \in View
    BY <2>1, AboutTyped
  <2>3. review' \in Form
    BY <1>3, <2>2, FormTyped DEF ReviewServed
  <2>4. ServerTyped'
    <3>1. CASE Judgeable(review.view)
      <4>1. Judge(review.view.project)
        BY <1>3, <3>1 DEF ReviewServed
      <4>2. review.view.project \in Projects
        BY <4>1 DEF Judge, Typed, ServerTyped
      <4> QED BY <4>1, <4>2, ProjectsAdvance DEF ProjectStep, Typed, ServerAdvances
    <3>2. CASE ~Judgeable(review.view)
      BY <1>3, <3>2 DEF ReviewServed, server, Typed, ServerTyped
    <3> QED BY <3>1, <3>2
  <2>5. UNCHANGED <<screen, calls, create, recover>>
    BY <1>3 DEF ReviewServed
  <2> QED BY <2>3, <2>4, <2>5 DEF Typed, screen, PartsTyped, ListTyped, CallsTyped, FormsTyped
<1>4. CASE RecoveryServed
  <2>1. recover.view \in View /\ recover \in Form
    BY DEF Typed, FormsTyped, Form
  <2>2. About(recover.view) \in View
    BY <2>1, AboutTyped
  <2>3. recover' = Replied(About(recover.view), "ok")
        \/ recover' = Replied(About(recover.view), "refused")
    BY <1>4 DEF RecoveryServed
  <2>4. recover' \in Form
    BY <2>2, <2>3, FormTyped
  <2>5. Generate(recover.view.project) \/ UNCHANGED server
    BY <1>4 DEF RecoveryServed
  <2>6. ServerTyped'
    <3>1. CASE Generate(recover.view.project)
      <4>1. recover.view.project \in Projects
        BY <3>1 DEF Generate, Typed, ServerTyped
      <4> QED BY <3>1, <4>1, ProjectsAdvance DEF ProjectStep, Typed, ServerAdvances
    <3>2. CASE UNCHANGED server
      BY <3>2 DEF server, Typed, ServerTyped
    <3> QED BY <2>5, <3>1, <3>2
  <2>7. UNCHANGED <<screen, calls, create, review>>
    BY <1>4 DEF RecoveryServed
  <2> QED BY <2>4, <2>6, <2>7 DEF Typed, screen, PartsTyped, ListTyped, CallsTyped, FormsTyped
<1> QED BY <1>1, <1>2, <1>3, <1>4

LEMMA UsersKeepTypes ==
    ASSUME Typed, UserStep
    PROVE  Typed'
<1>1. ASSUME NEW p \in Projects, OpenDetail(p) PROVE Typed'
  <2>1. LoadDetail(p) /\ UNCHANGED <<server, selected, jobs, list, forms>>
    BY <1>1 DEF OpenDetail
  <2> QED BY <2>1, LoadDetailTyped
          DEF Typed, server, forms, ServerTyped, PartsTyped, ListTyped, FormsTyped
<1>2. CASE SubmitProject
  <2>1. create' \in Form /\ UNCHANGED <<server, screen, calls, review, recover>>
    BY <1>2, FormTyped, NoViewTyped DEF SubmitProject
  <2> QED BY <2>1 DEF Typed, server, screen, ServerTyped, PartsTyped, ListTyped, CallsTyped,
            FormsTyped
<1>3. CASE SubmitReview
  <2>1. [selected EXCEPT !.version = evidence.version] \in View
    BY DEF Typed, PartsTyped, View
  <2>2. review' \in Form /\ UNCHANGED <<server, screen, calls, create, recover>>
    BY <1>3, <2>1, FormTyped DEF SubmitReview
  <2> QED BY <2>2 DEF Typed, server, screen, ServerTyped, PartsTyped, ListTyped, CallsTyped,
            FormsTyped
<1>4. CASE SubmitRecovery
  <2>1. About(selected) \in View
    BY AboutTyped DEF Typed
  <2>2. recover' \in Form /\ UNCHANGED <<server, screen, calls, create, review>>
    BY <1>4, <2>1, FormTyped DEF SubmitRecovery
  <2> QED BY <2>2 DEF Typed, server, screen, ServerTyped, PartsTyped, ListTyped, CallsTyped,
            FormsTyped
<1> QED BY <1>1, <1>2, <1>3, <1>4 DEF UserStep

\* The forms load the project they were sent for.
FormsKnown ==
    /\ Waiting(review) => review.view.project \in Projects
    /\ Waiting(recover) => recover.view.project \in Projects
    /\ create.step = "answered" => create.view.project \in Projects

LEMMA FormsKeepTypes ==
    ASSUME Typed, FormsKnown, CreateStep \/ ReviewStep \/ RecoveryStep \/ ListArrives
    PROVE  Typed'
<1>1. CASE CreateLost \/ ReviewLost \/ RecoveryLost
  <2>1. UNCHANGED <<server, screen, calls>> /\ FormsTyped'
    BY <1>1, NoViewTyped DEF CreateLost, ReviewLost, RecoveryLost, Typed, FormsTyped
  <2> QED BY <2>1 DEF Typed, server, screen, ServerTyped, PartsTyped, ListTyped, CallsTyped
<1>2. CASE CreateReturns
  <2>1. create.view \in View /\ create.view.project \in Projects
    BY <1>2 DEF CreateReturns, FormsKnown, Typed, FormsTyped, Form
  <2>2. /\ request' = request + 1 /\ request' \in Nat /\ selected' \in View
        /\ create' \in Form
        /\ UNCHANGED <<server, loading, calls, review, recover>>
    BY <1>2, <2>1, NoViewTyped DEF CreateReturns, Typed
  <2>5. ListTyped'
    <3>1. list' = [list EXCEPT !.items = @ \cup {create.view.project},
                               !.state = "content"]
      BY <1>2 DEF CreateReturns
    <3>2. list.items \cup {create.view.project} \in SUBSET Projects
      BY <2>1 DEF Typed, ListTyped
    <3> QED BY <3>1, <3>2 DEF Typed, ListTyped
  <2>3. PartsTyped'
    BY <1>2, NothingTyped DEF CreateReturns, EmptyDetail, PartsTyped, PartState
  <2>4. CallsTyped'
    BY <2>2 DEF Typed, CallsTyped, CallOf
  <2> QED BY <2>2, <2>3, <2>4, <2>5 DEF Typed, server, ServerTyped, FormsTyped
<1>3. CASE ReviewReturns
  <2>1. LoadDetail(review.view.project) /\ review.view.project \in Projects
        /\ UNCHANGED <<server, selected, jobs, list, create, recover>>
    BY <1>3 DEF ReviewReturns, FormsKnown, Waiting
  <2>2. review' \in Form
    BY <1>3, FormTyped DEF ReviewReturns, Typed
  <2> QED BY <2>1, <2>2, LoadDetailTyped
          DEF Typed, server, ServerTyped, PartsTyped, ListTyped, FormsTyped
<1>4. CASE RecoveryReturns
  <2>1. UNCHANGED <<server, selected, jobs, list, create, review>>
    BY <1>4 DEF RecoveryReturns
  <2>2. CASE recover.reply = "ok"
    <3>1. LoadDetail(recover.view.project) /\ recover.view.project \in Projects
          /\ recover' \in Form
      BY <1>4, <2>2, FormTyped DEF RecoveryReturns, FormsKnown, Waiting, Typed
    <3> QED BY <2>1, <3>1, LoadDetailTyped
            DEF Typed, server, ServerTyped, PartsTyped, ListTyped, FormsTyped
  <2>3. CASE recover.reply # "ok"
    <3>1. recover' \in Form /\ UNCHANGED <<request, loading, evidence, calls>>
      BY <1>4, <2>3, NoViewTyped DEF RecoveryReturns
    <3> QED BY <2>1, <3>1
            DEF Typed, server, ServerTyped, PartsTyped, ListTyped, CallsTyped, FormsTyped
  <2> QED BY <2>2, <2>3
<1>5. CASE ListArrives
  <2>1. ListTyped'
    BY <1>5 DEF ListArrives, Typed, ListTyped
  <2>2. UNCHANGED <<server, request, selected, loading, jobs, evidence, calls, forms>>
    BY <1>5 DEF ListArrives
  <2> QED BY <2>1, <2>2 DEF Typed, server, forms, ServerTyped, PartsTyped, CallsTyped, FormsTyped
<1> QED BY <1>1, <1>2, <1>3, <1>4, <1>5 DEF CreateStep, ReviewStep, RecoveryStep

-----------------------------------------------------------------------------
(* The inductive invariant.  Its parts are stated of values, so that they    *)
(* can be carried from one state to the next.                                *)

Ahead(view, now) == view.revision =< now[view.project]

\* A view of the project as it is, or as it was at an earlier revision.
Fresh(view, now, versions) ==
    /\ Ahead(view, now)
    /\ view.revision = now[view.project] => view.version = versions[view.project]

\* No later job than the newest, and over if it is the newest.
Ended(p, number, newest, status) ==
    /\ number =< newest[p]
    /\ number # 0 /\ number = newest[p] => status[p] # "active"

\* What a call has read of its project.
HasRead(c, now, versions, newest, status) ==
    /\ c.kind = "project" /\ c.step # "sent" => Ahead(c.view, now)
    /\ c.kind = "project" /\ c.step = "answered" => Fresh(c.view, now, versions)
    /\ Ended(c.view.project, c.offer, newest, status)

\* What a call may do to the screen: only those of the newest request matter.
MayShow(c, newest, shown, listed) ==
    /\ c.view.project \in listed
    /\ c.load = newest /\ c.kind = "project" =>
          (c.step # "sent" /\ c.view.project = shown.project =>
              c.view.revision >= shown.revision)
    /\ c.load = newest /\ c.kind # "project" => c.view.project = shown.project
    /\ c.load = newest /\ c.kind = "evidence" => c.view.version = shown.version

\* The call for the project is the only one of its load.
OneFront == \A c, d \in calls : c.kind = "project" /\ d.load = c.load => d = c

CallsHold ==
    /\ \A c \in calls : /\ HasRead(c, revision, delivered, asked, job)
                        /\ MayShow(c, request, selected, list.items)
    /\ OneFront

ScreenHolds ==
    /\ list.items \subseteq stored /\ list.read \subseteq stored
    /\ selected # NoView =>
          selected.project \in list.items /\ Fresh(selected, revision, delivered)
    /\ jobs.state = "content" =>
          /\ jobs.project = selected.project /\ jobs.project \in Projects
          /\ Ended(jobs.project, jobs.offer, asked, job)
    /\ evidence.state = "content" =>
          evidence.project = selected.project /\ evidence.version = selected.version

FormsHold ==
    /\ Waiting(review) => review.view.project \in list.items
    /\ review.step = "sent" =>
          review.reply = "none" /\ Fresh(review.view, revision, delivered)
    /\ Waiting(recover) => recover.view.project \in list.items
    /\ create.step = "answered" =>
          /\ create.view.project \in stored \ list.items
          /\ Fresh(create.view, revision, delivered)

\* Nothing happens on the page before its list has arrived.
Early ==
    list.step # "over" =>
        /\ list.state = "loading" /\ list.items = {} /\ calls = {}
        /\ selected = NoView
        /\ create = Unsent /\ review = Unsent /\ recover = Unsent

ConsoleInv == Typed /\ CallsHold /\ ScreenHolds /\ FormsHold /\ Early

LEMMA StartsSafe == Init => ConsoleInv
<1> SUFFICES ASSUME Init PROVE ConsoleInv
  OBVIOUS
<1>1. Typed
  BY StartsTyped
<1>2. CallsHold /\ Early
  BY DEF Init, CallsHold, OneFront, Early
<1>3. ScreenHolds
  BY DEF Init, ScreenHolds, NoJobs, NoEvidence
<1>4. FormsHold
  BY DEF Init, FormsHold, Unsent, Waiting
<1> QED BY <1>1, <1>2, <1>3, <1>4 DEF ConsoleInv

\* Whatever was read of a project stays true of it.
LEMMA ReadStaysTrue ==
    ASSUME ServerTyped, ServerAdvances
    PROVE  /\ \A v \in View : v.project \in Projects /\ Fresh(v, revision, delivered)
                              => Fresh(v, revision', delivered')
           /\ \A p \in Projects, n \in Nat : Ended(p, n, asked, job)
                                             => Ended(p, n, asked', job')
           /\ \A c \in Call : /\ c.view.project \in Projects
                              /\ HasRead(c, revision, delivered, asked, job)
                              => HasRead(c, revision', delivered', asked', job')
<1>1. \A p \in Projects : revision[p] \in Nat /\ revision'[p] \in Nat
                          /\ asked[p] \in Nat /\ asked'[p] \in Nat
  BY DEF ServerTyped, ServerAdvances
<1>2. ASSUME NEW v \in View, v.project \in Projects, Ahead(v, revision)
      PROVE  Ahead(v, revision')
  BY <1>1, <1>2 DEF Ahead, ServerAdvances, View
<1>3. ASSUME NEW v \in View, v.project \in Projects, Fresh(v, revision, delivered)
      PROVE  Fresh(v, revision', delivered')
  BY <1>1, <1>2, <1>3 DEF Fresh, Ahead, ServerAdvances, View
<1>4. ASSUME NEW p \in Projects, NEW n \in Nat, Ended(p, n, asked, job)
      PROVE  Ended(p, n, asked', job')
  BY <1>1, <1>4 DEF Ended, ServerAdvances
<1>5. ASSUME NEW c \in Call, c.view.project \in Projects,
             HasRead(c, revision, delivered, asked, job)
      PROVE  HasRead(c, revision', delivered', asked', job')
  <2>1. c.view \in View /\ c.offer \in Nat
    BY DEF Call
  <2> QED BY <1>2, <1>3, <1>4, <1>5, <2>1 DEF HasRead
<1> QED BY <1>3, <1>4, <1>5

\* The page holds while a project changes, whatever else happens to the forms.
LEMMA PageHoldsWhenServerAdvances ==
    ASSUME ConsoleInv, ServerAdvances, UNCHANGED <<screen, calls>>
    PROVE  CallsHold' /\ ScreenHolds'
<1>1. ServerTyped /\ CallsTyped /\ PartsTyped /\ selected \in View /\ stored \subseteq Projects
  BY DEF ConsoleInv, Typed, ServerTyped
<1>2. CallsHold'
  <2>1. \A c \in calls : c \in Call /\ c.view.project \in Projects
    BY <1>1 DEF CallsTyped, CallOf
  <2>2. \A c \in calls : HasRead(c, revision', delivered', asked', job')
    BY <1>1, <2>1, ReadStaysTrue DEF ConsoleInv, CallsHold
  <2>3. UNCHANGED <<calls, request, selected, list>>
    BY DEF screen
  <2> QED BY <2>2, <2>3 DEF ConsoleInv, CallsHold, OneFront
<1>3. ScreenHolds'
  <2>1. UNCHANGED <<selected, list, jobs, evidence>> /\ stored \subseteq stored'
    BY DEF screen, ServerAdvances
  <2>2. selected # NoView => Fresh(selected, revision', delivered')
    BY <1>1, ReadStaysTrue DEF ConsoleInv, ScreenHolds
  <2>3. jobs.state = "content" => Ended(jobs.project, jobs.offer, asked', job')
    BY <1>1, ReadStaysTrue DEF ConsoleInv, ScreenHolds, PartsTyped
  <2> QED BY <2>1, <2>2, <2>3 DEF ConsoleInv, ScreenHolds
<1> QED BY <1>2, <1>3

\* A form that is as it was, or that was reset, holds while a project changes.
LEMMA FormsHoldWhenServerAdvances ==
    ASSUME ConsoleInv, ServerAdvances, UNCHANGED list,
           create' = create \/ create' = Unsent,
           review' = review \/ review' = Unsent,
           recover' = recover \/ recover' = Unsent
    PROVE  FormsHold'
<1>1. ServerTyped /\ stored \subseteq Projects /\ stored \subseteq stored'
      /\ review.view \in View /\ create.view \in View /\ list.items \subseteq Projects
  BY DEF ConsoleInv, Typed, ServerTyped, FormsTyped, Form, ServerAdvances, ListTyped
<1>2. review.step = "sent" => Fresh(review.view, revision', delivered')
  BY <1>1, ReadStaysTrue DEF ConsoleInv, FormsHold, Waiting
<1>3. create.step = "answered" => Fresh(create.view, revision', delivered')
  BY <1>1, ReadStaysTrue DEF ConsoleInv, FormsHold
<1>4. Unsent.step = "idle"
  BY DEF Unsent
<1>5. CASE create' = create
  BY <1>1, <1>2, <1>3, <1>4, <1>5 DEF ConsoleInv, FormsHold, Waiting
<1>6. CASE create' = Unsent
  BY <1>1, <1>2, <1>3, <1>4, <1>6 DEF ConsoleInv, FormsHold, Waiting
<1> QED BY <1>5, <1>6

-----------------------------------------------------------------------------
(* Each action keeps the invariant.                                          *)

LEMMA NoServerStep ==
    ASSUME ServerTyped, UNCHANGED server
    PROVE  ServerAdvances
BY DEF ServerTyped, server, ServerAdvances

LEMMA ServerKeepsSafe ==
    ASSUME ConsoleInv, ProjectStep, UNCHANGED <<screen, calls, forms>>
    PROVE  ConsoleInv'
<1>1. Typed /\ ServerTyped
  BY DEF ConsoleInv, Typed
<1>2. ServerAdvances
  BY <1>1, ProjectsAdvance
<1>3. UNCHANGED <<screen, calls, create, review, recover, list, selected>>
  BY DEF forms, screen
<1>4. CallsHold' /\ ScreenHolds'
  BY <1>2, <1>3, PageHoldsWhenServerAdvances
<1>5. FormsHold'
  BY <1>2, <1>3, FormsHoldWhenServerAdvances
<1> QED BY <1>1, <1>3, <1>4, <1>5, ServerKeepsTypes DEF ConsoleInv, Early

\* A call is replaced by what a read made of it.
LEMMA ReadsKeepSafe ==
    ASSUME ConsoleInv, NEW c \in calls,
           ReadRow(c) \/ ReadPointer(c) \/ ReadRecoverable(c) \/ ReadJobs(c)
    PROVE  ConsoleInv'
<1>1. /\ Typed /\ ServerTyped /\ c \in Call /\ c.view.project \in Projects
      /\ c.load \in Nat /\ c.load # 0
      /\ \A p \in Projects : asked[p] \in Nat /\ revision[p] \in Nat
      /\ HasRead(c, revision, delivered, asked, job)
      /\ MayShow(c, request, selected, list.items)
  BY DEF ConsoleInv, Typed, ServerTyped, CallsTyped, CallOf, CallsHold
<1>2. UNCHANGED <<server, screen, forms>>
  BY DEF ReadRow, ReadPointer, ReadRecoverable, ReadJobs
<1>3. selected # NoView => Fresh(selected, revision, delivered)
  BY DEF ConsoleInv, ScreenHolds
<1>4. selected = NoView => selected.project \notin Projects
  BY ConsoleAssumption DEF NoView
<1>5. selected.revision \in Nat
  BY <1>1 DEF Typed, View
<1>6. \E d : /\ Continues(c, d) /\ calls' = (calls \ {c}) \cup {d}
             /\ HasRead(d, revision, delivered, asked, job)
             /\ MayShow(d, request, selected, list.items)
  <2>1. CASE ReadRow(c)
    <3>1. PICK d : /\ Continues(c, d) /\ d.step = "row" /\ d.offer = c.offer
                   /\ d.view.revision = revision[c.view.project]
                   /\ calls' = (calls \ {c}) \cup {d}
                   /\ c.kind # "evidence" /\ c.step = "sent"
      BY <1>1, <2>1, RowIsRead
    <3>2. HasRead(d, revision, delivered, asked, job)
      BY <1>1, <3>1 DEF HasRead, Continues, Ahead
    <3>3. c.view.project = selected.project => revision[c.view.project] >= selected.revision
      BY <1>1, <1>3, <1>4, <1>5 DEF Fresh, Ahead
    <3>4. MayShow(d, request, selected, list.items)
      BY <1>1, <3>1, <3>3 DEF MayShow, Continues
    <3> QED BY <3>1, <3>2, <3>4
  <2>2. CASE ReadPointer(c)
    <3>1. PICK d : /\ Continues(c, d) /\ d.step = "answered" /\ d.offer = c.offer
                   /\ d.view.revision = c.view.revision
                   /\ d.view.version = delivered[c.view.project]
                   /\ calls' = (calls \ {c}) \cup {d}
                   /\ c.kind = "project" /\ c.step = "row"
      BY <1>1, <2>2, PointerIsRead
    <3>2. HasRead(d, revision, delivered, asked, job)
      BY <1>1, <3>1 DEF HasRead, Continues, Ahead, Fresh
    <3>3. MayShow(d, request, selected, list.items)
      BY <1>1, <3>1 DEF MayShow, Continues
    <3> QED BY <3>1, <3>2, <3>3
  <2>3. CASE ReadRecoverable(c)
    <3>1. PICK d : /\ Continues(c, d) /\ d.step = "checked"
                   /\ d.offer = 0 \/ /\ d.offer = asked[c.view.project]
                                     /\ job[c.view.project] # "active"
                   /\ calls' = (calls \ {c}) \cup {d}
                   /\ c.kind = "jobs"
      BY <1>1, <2>3, RecoverableIsRead
    <3>2. HasRead(d, revision, delivered, asked, job)
      BY <1>1, <3>1 DEF HasRead, Continues, Ended
    <3>3. MayShow(d, request, selected, list.items)
      BY <1>1, <3>1 DEF MayShow, Continues
    <3> QED BY <3>1, <3>2, <3>3
  <2>4. CASE ReadJobs(c)
    <3>1. PICK d : /\ Continues(c, d) /\ d.step = "answered" /\ d.offer = c.offer
                   /\ calls' = (calls \ {c}) \cup {d}
                   /\ c.kind = "jobs"
      BY <1>1, <2>4, JobsAreRead
    <3>2. HasRead(d, revision, delivered, asked, job)
      BY <1>1, <3>1 DEF HasRead, Continues
    <3>3. MayShow(d, request, selected, list.items)
      BY <1>1, <3>1 DEF MayShow, Continues
    <3> QED BY <3>1, <3>2, <3>3
  <2> QED BY <2>1, <2>2, <2>3, <2>4
<1>7. CallsHold'
  <2>1. PICK d : /\ Continues(c, d) /\ calls' = (calls \ {c}) \cup {d}
                 /\ HasRead(d, revision, delivered, asked, job)
                 /\ MayShow(d, request, selected, list.items)
    BY <1>6
  <2>2. OneFront'
    BY <2>1 DEF ConsoleInv, CallsHold, OneFront, Continues
  <2>3. UNCHANGED <<revision, delivered, asked, job, request, selected, list>>
    BY <1>2 DEF server, screen
  <2> QED BY <2>1, <2>2, <2>3 DEF ConsoleInv, CallsHold
<1>8. ScreenHolds' /\ FormsHold'
  BY <1>2 DEF ConsoleInv, ScreenHolds, FormsHold, Waiting, server, screen, forms
<1>9. Early'
  BY <1>2 DEF ConsoleInv, Early, screen, forms
<1> QED BY <1>1, <1>7, <1>8, <1>9, ReadsKeepTypes DEF ConsoleInv

\* A load that is started makes those before it overtaken.
LEMMA LoadDetailHolds ==
    ASSUME ConsoleInv, NEW p \in list.items, LoadDetail(p),
           UNCHANGED <<server, selected, jobs, list>>
    PROVE  CallsHold' /\ ScreenHolds'
<1>1. /\ Typed /\ p \in Projects /\ request \in Nat
      /\ request' = request + 1 /\ request' \in Nat \ {0}
      /\ calls' = calls \cup {Sent(request', "project", p)}
      /\ evidence' = NoEvidence("idle")
  BY DEF ConsoleInv, Typed, ListTyped, LoadDetail
<1>2. \A c \in calls : c.load \in Nat /\ c.load < request'
  BY <1>1 DEF Typed, CallsTyped, CallOf
<1>3. UNCHANGED <<revision, delivered, asked, job, stored>>
  BY DEF server
<1>4. PICK d : /\ d = Sent(request', "project", p) /\ d.load = request'
               /\ d.kind = "project" /\ d.step = "sent" /\ d.offer = 0
               /\ d.view.project = p
  BY <1>1, SentTyped
<1>5. HasRead(d, revision, delivered, asked, job) /\ MayShow(d, request', selected, list.items)
  BY <1>1, <1>4 DEF HasRead, MayShow, Ended, Typed, ServerTyped
<1>6. \A c \in calls : MayShow(c, request', selected, list.items)
  BY <1>2 DEF ConsoleInv, CallsHold, MayShow
<1>7. OneFront'
  BY <1>1, <1>2, <1>4 DEF ConsoleInv, CallsHold, OneFront
<1>8. CallsHold'
  BY <1>1, <1>3, <1>4, <1>5, <1>6, <1>7 DEF ConsoleInv, CallsHold
<1>9. ScreenHolds'
  BY <1>1, <1>3 DEF ConsoleInv, ScreenHolds, NoEvidence
<1> QED BY <1>8, <1>9

\* What a load that ends does to the forms that wait for it.
LEMMA SettleHolds ==
    ASSUME ConsoleInv, NEW n, NEW left, Settle(n, left), UNCHANGED <<server, create>>,
           list'.items = list.items
    PROVE  FormsHold' /\ calls' = left
<1>1. UNCHANGED <<revision, delivered, stored>>
  BY DEF server
<1>2. Unsent.step = "idle"
  BY DEF Unsent
<1>3. /\ review' = review \/ review' = Unsent
      /\ recover' = recover \/ recover' = Unsent
      /\ calls' = left
  BY DEF Settle
<1> QED BY <1>1, <1>2, <1>3 DEF ConsoleInv, FormsHold, Waiting

LEMMA LoadsKeepSafe ==
    ASSUME ConsoleInv, NEW c \in calls,
           ProjectArrives(c) \/ JobsArrive(c) \/ EvidenceArrives(c) \/ CallFails(c)
    PROVE  ConsoleInv'
<1>1. /\ Typed /\ c \in Call /\ c.view \in View /\ c.view.project \in Projects
      /\ c.load \in Nat \ {0} /\ c.view.project \in list.items
      /\ HasRead(c, revision, delivered, asked, job)
      /\ MayShow(c, request, selected, list.items)
      /\ \A p \in Projects : asked[p] \in Nat
  BY DEF ConsoleInv, Typed, ServerTyped, CallsTyped, CallOf, Call, CallsHold, MayShow
<1>2. UNCHANGED <<server, request, create>>
  BY DEF ProjectArrives, JobsArrive, EvidenceArrives, CallFails
<1>3. UNCHANGED <<revision, delivered, asked, job, stored>>
  BY <1>2 DEF server
<1>4. list.step = "over"
  BY DEF ConsoleInv, Early
<1>5. CASE ProjectArrives(c) /\ IsNewest(c)
  <2> DEFINE p == c.view.project
             jobsCall == Sent(c.load, "jobs", p)
             evidenceCall == [Sent(c.load, "evidence", p) EXCEPT
                                 !.view.version = c.view.version]
             parts == {jobsCall} \cup (IF c.view.version = 0 THEN {} ELSE {evidenceCall})
  <2>1. /\ Show(c.view) /\ jobs' = NoJobs("loading")
        /\ evidence' = NoEvidence(IF c.view.version = 0 THEN "empty" ELSE "loading")
        /\ Settle(c.load, (calls \ {c}) \cup parts)
        /\ c.kind = "project" /\ c.step = "answered" /\ c.load = request
    BY <1>5 DEF ProjectArrives, IsNewest
  <2>2. /\ selected' = c.view /\ list'.items = list.items /\ list'.read = list.read
        /\ list'.step = list.step
    BY <1>1, <2>1 DEF Show, Typed, ListTyped
  <2>3. FormsHold' /\ calls' = (calls \ {c}) \cup parts
    BY <1>2, <2>1, <2>2, SettleHolds
  <2>4. ScreenHolds'
    <3>1. Fresh(c.view, revision, delivered)
      BY <1>1, <2>1 DEF HasRead
    <3>2. jobs'.state # "content" /\ evidence'.state # "content"
      BY <2>1 DEF NoJobs, NoEvidence
    <3> QED BY <1>1, <1>3, <2>2, <3>1, <3>2 DEF ConsoleInv, ScreenHolds
  <2>5. \A d \in calls \ {c} : d.load # request
    BY <2>1 DEF ConsoleInv, CallsHold, OneFront
  <2>6. /\ jobsCall.load = request /\ jobsCall.kind = "jobs" /\ jobsCall.step = "sent"
        /\ jobsCall.offer = 0 /\ jobsCall.view.project = p
    BY <1>1, <2>1, SentTyped
  <2>7. /\ evidenceCall.load = request /\ evidenceCall.kind = "evidence"
        /\ evidenceCall.step = "sent" /\ evidenceCall.offer = 0
        /\ evidenceCall.view.project = p /\ evidenceCall.view.version = c.view.version
    <3>1. PICK s \in Call : /\ s = Sent(c.load, "evidence", p) /\ s.load = request
                            /\ s.kind = "evidence" /\ s.step = "sent" /\ s.offer = 0
                            /\ s.view.project = p /\ s.view \in View
      BY <1>1, <2>1, SentTyped DEF CallOf
    <3> DEFINE v == [s.view EXCEPT !.version = c.view.version]
    <3>2. v.project = p /\ v.version = c.view.version
      <4> HIDE DEF p
      <4> QED BY <3>1 DEF View
    <3>3. evidenceCall = [s EXCEPT !.view = v]
      BY <3>1 DEF Call
    <3> QED BY <3>1, <3>2, <3>3 DEF Call
  <2> HIDE DEF jobsCall, evidenceCall
  <2>8. \A d \in parts : /\ HasRead(d, revision, delivered, asked, job)
                         /\ MayShow(d, request, c.view, list.items)
    BY <1>1, <2>6, <2>7 DEF HasRead, MayShow, Ended
  <2>9. \A d \in calls \ {c} : MayShow(d, request, c.view, list.items)
    BY <2>5 DEF ConsoleInv, CallsHold, MayShow
  <2>10. \A d \in parts : d.kind # "project" /\ d.load = request
    BY <2>6, <2>7
  <2>11. OneFront'
    BY <2>3, <2>5, <2>10 DEF ConsoleInv, CallsHold, OneFront
  <2>12. CallsHold'
    BY <1>2, <1>3, <2>2, <2>3, <2>8, <2>9, <2>11 DEF ConsoleInv, CallsHold
  <2>13. Early'
    BY <1>4, <2>2 DEF Early
  <2> QED BY <2>3, <2>4, <2>12, <2>13, LoadsKeepTypes DEF ConsoleInv
<1>6. CASE ~(ProjectArrives(c) /\ IsNewest(c))
  <2>1. Settle(c.load, calls \ {c}) /\ UNCHANGED <<selected, list>>
    BY <1>6 DEF ProjectArrives, JobsArrive, EvidenceArrives, CallFails
  <2>2. FormsHold' /\ calls' = calls \ {c}
    BY <1>2, <2>1, SettleHolds
  <2>3. CallsHold'
    BY <1>2, <1>3, <2>1, <2>2 DEF ConsoleInv, CallsHold, OneFront
  <2>4. jobs'.state = "content" =>
          \/ jobs' = jobs
          \/ /\ jobs'.project = c.view.project /\ jobs'.offer = c.offer
             /\ c.view.project = selected.project
    BY <1>1, <1>6 DEF ProjectArrives, JobsArrive, EvidenceArrives, CallFails, NoJobs, MayShow,
       IsNewest
  <2>5. evidence'.state = "content" =>
          \/ evidence' = evidence
          \/ /\ evidence'.project = selected.project
             /\ evidence'.version = selected.version
    BY <1>1, <1>6 DEF ProjectArrives, JobsArrive, EvidenceArrives, CallFails, NoEvidence,
       MayShow, IsNewest
  <2>6. ScreenHolds'
    BY <1>1, <1>3, <2>1, <2>4, <2>5 DEF ConsoleInv, ScreenHolds, HasRead
  <2>7. Early'
    BY <1>4, <2>1 DEF Early
  <2> QED BY <2>2, <2>3, <2>6, <2>7, LoadsKeepTypes DEF ConsoleInv
<1> QED BY <1>5, <1>6

\* A reply is about the view it was given.
LEMMA ReplyIsAbout ==
    ASSUME NEW view \in View, NEW reply \in {"none", "ok", "refused"}
    PROVE  /\ Replied(view, reply).view = view /\ Replied(view, reply).step = "answered"
           /\ Replied(view, reply).reply = reply
           /\ Submitted(view).view = view /\ Submitted(view).step = "sent"
           /\ Submitted(view).reply = "none"
BY NoViewTyped DEF Replied, Submitted, Unsent, Form

LEMMA ServingKeepsSafe ==
    ASSUME ConsoleInv, ReadList \/ (\E p \in Projects : CreateServed(p))
                       \/ ReviewServed \/ RecoveryServed
    PROVE  ConsoleInv'
<1>1. Typed /\ ServerTyped /\ Typed'
  BY ServingKeepsTypes DEF ConsoleInv, Typed
<1>2. CASE ReadList
  <2>1. UNCHANGED <<server, request, selected, loading, jobs, evidence, calls, forms>>
        /\ list'.items = list.items /\ list'.read = stored
        /\ list'.state = list.state /\ list'.step = "answered" /\ list.step = "sent"
    BY <1>1, <1>2 DEF ReadList, Typed, ListTyped
  <2>2. UNCHANGED <<revision, delivered, asked, job, stored, create, review, recover>>
    BY <2>1 DEF server, forms
  <2> QED BY <1>1, <2>1, <2>2
          DEF ConsoleInv, CallsHold, OneFront, ScreenHolds, FormsHold, Waiting, Early
<1>3. ASSUME NEW p \in Projects, CreateServed(p) PROVE ConsoleInv'
  <2> DEFINE v == [project |-> p, stage |-> stage[p], revision |-> revision[p],
                   version |-> delivered[p]]
  <2>1. /\ create.step = "sent" /\ p \notin stored /\ stored' = stored \cup {p}
        /\ create' = Replied(v, "ok")
        /\ UNCHANGED <<stage, revision, asked, delivered, job, rejected, screen, calls,
                       review, recover>>
    BY <1>3 DEF CreateServed
  <2>2. v \in View
    BY <1>1 DEF ServerTyped, View
  <2>3. create'.step = "answered" /\ create'.view = v
    BY <2>1, <2>2, ReplyIsAbout
  <2>4. Fresh(v, revision, delivered)
    BY <1>1 DEF Fresh, Ahead, ServerTyped
  <2>5. UNCHANGED <<request, selected, loading, jobs, evidence, list>>
    BY <2>1 DEF screen
  <2>6. list.items \subseteq stored
    BY DEF ConsoleInv, ScreenHolds
  <2>7. FormsHold'
    BY <2>1, <2>3, <2>4, <2>5, <2>6 DEF ConsoleInv, FormsHold, Waiting
  <2>8. CallsHold' /\ ScreenHolds'
    BY <2>1, <2>5 DEF ConsoleInv, CallsHold, OneFront, ScreenHolds
  <2>9. Early'
    BY <2>1, <2>5 DEF ConsoleInv, Early, Unsent
  <2> QED BY <1>1, <2>7, <2>8, <2>9 DEF ConsoleInv
<1>4. CASE ReviewServed
  <2>1. /\ review.step = "sent" /\ UNCHANGED <<screen, calls, create, recover>>
        /\ review.view \in View
    BY <1>1, <1>4 DEF ReviewServed, Typed, FormsTyped, Form
  <2>2. UNCHANGED list
    BY <2>1 DEF screen
  <2>3. About(review.view) \in View /\ About(review.view).project = review.view.project
    BY <2>1, AboutTyped
  <2>4. review'.step = "answered" /\ review'.view.project = review.view.project
    BY <1>4, <2>3, ReplyIsAbout DEF ReviewServed
  <2>5. ServerAdvances
    <3>1. CASE Judgeable(review.view)
      <4>1. Judge(review.view.project)
        BY <1>4, <3>1 DEF ReviewServed
      <4>2. review.view.project \in Projects
        BY <1>1, <4>1 DEF Judge, ServerTyped
      <4> QED BY <1>1, <4>1, <4>2, ProjectsAdvance DEF ProjectStep
    <3>2. CASE ~Judgeable(review.view)
      BY <1>1, <1>4, <3>2, NoServerStep DEF ReviewServed
    <3> QED BY <3>1, <3>2
  <2>6. CallsHold' /\ ScreenHolds'
    BY <2>1, <2>5, PageHoldsWhenServerAdvances
  <2>7. FormsHold'
    <3>1. create.step = "answered" => Fresh(create.view, revision', delivered')
      <4>1. create.view \in View /\ stored \subseteq Projects
        BY <1>1 DEF Typed, FormsTyped, Form, ServerTyped
      <4> QED BY <1>1, <2>5, <4>1, ReadStaysTrue DEF ConsoleInv, FormsHold
    <3>2. stored \subseteq stored'
      BY <2>5 DEF ServerAdvances
    <3> QED BY <2>1, <2>2, <2>4, <3>1, <3>2 DEF ConsoleInv, FormsHold, Waiting
  <2>8. Early'
    BY <2>1, <2>2 DEF ConsoleInv, Early, Unsent
  <2> QED BY <1>1, <2>6, <2>7, <2>8 DEF ConsoleInv
<1>5. CASE RecoveryServed
  <2>1. /\ recover.step = "sent" /\ UNCHANGED <<screen, calls, create, review>>
        /\ recover.view \in View
    BY <1>1, <1>5 DEF RecoveryServed, Typed, FormsTyped, Form
  <2>2. UNCHANGED list
    BY <2>1 DEF screen
  <2>3. About(recover.view) \in View /\ About(recover.view).project = recover.view.project
    BY <2>1, AboutTyped
  <2>4. recover'.step = "answered" /\ recover'.view.project = recover.view.project
    <3>1. recover' = Replied(About(recover.view), "ok")
          \/ recover' = Replied(About(recover.view), "refused")
      BY <1>5 DEF RecoveryServed
    <3> QED BY <2>3, <3>1, ReplyIsAbout
  <2>5. ServerAdvances
    <3>1. CASE Generate(recover.view.project)
      <4>1. recover.view.project \in Projects
        BY <1>1, <3>1 DEF Generate, ServerTyped
      <4> QED BY <1>1, <3>1, <4>1, ProjectsAdvance DEF ProjectStep
    <3>2. CASE UNCHANGED server
      BY <1>1, <3>2, NoServerStep
    <3> QED BY <1>5, <3>1, <3>2 DEF RecoveryServed
  <2>6. CallsHold' /\ ScreenHolds'
    BY <2>1, <2>5, PageHoldsWhenServerAdvances
  <2>7. FormsHold'
    <3>1. /\ create.step = "answered" => Fresh(create.view, revision', delivered')
          /\ review.step = "sent" => Fresh(review.view, revision', delivered')
      <4>1. /\ create.view \in View /\ stored \subseteq Projects
            /\ review.view \in View /\ list.items \subseteq Projects
        BY <1>1 DEF Typed, FormsTyped, Form, ServerTyped, ListTyped
      <4> QED BY <1>1, <2>5, <4>1, ReadStaysTrue DEF ConsoleInv, FormsHold, Waiting
    <3>2. stored \subseteq stored'
      BY <2>5 DEF ServerAdvances
    <3> QED BY <2>1, <2>2, <2>4, <3>1, <3>2 DEF ConsoleInv, FormsHold, Waiting
  <2>8. Early'
    BY <2>1, <2>2 DEF ConsoleInv, Early, Unsent
  <2> QED BY <1>1, <2>6, <2>7, <2>8 DEF ConsoleInv
<1> QED BY <1>2, <1>3, <1>4, <1>5

LEMMA UsersKeepSafe ==
    ASSUME ConsoleInv, UserStep
    PROVE  ConsoleInv'
<1>1. Typed /\ Typed'
  BY UsersKeepTypes DEF ConsoleInv
<1>2. ASSUME NEW p \in Projects, OpenDetail(p) PROVE ConsoleInv'
  <2>1. LoadDetail(p) /\ p \in list.items /\ list.state = "content"
        /\ UNCHANGED <<server, selected, jobs, list, forms>>
    BY <1>2 DEF OpenDetail
  <2>2. CallsHold' /\ ScreenHolds'
    BY <2>1, LoadDetailHolds
  <2>3. FormsHold'
    BY <2>1 DEF ConsoleInv, FormsHold, Waiting, server, forms
  <2>4. Early'
    BY <2>1 DEF ConsoleInv, Early
  <2> QED BY <1>1, <2>2, <2>3, <2>4 DEF ConsoleInv
<1>3. ASSUME UNCHANGED <<server, screen, calls>>
      PROVE  CallsHold' /\ ScreenHolds'
  BY <1>3 DEF ConsoleInv, CallsHold, OneFront, ScreenHolds, server, screen
<1>4. CASE SubmitProject
  <2>1. /\ UNCHANGED <<server, screen, calls, review, recover>>
        /\ create'.step = "sent" /\ list.state # "loading"
    BY <1>4, NoViewTyped, ReplyIsAbout DEF SubmitProject, MayCreate
  <2>2. FormsHold' /\ Early'
    BY <2>1 DEF ConsoleInv, FormsHold, Waiting, Early, server, screen
  <2> QED BY <1>1, <1>3, <2>1, <2>2 DEF ConsoleInv
<1>5. CASE SubmitReview
  <2>1. /\ UNCHANGED <<server, screen, calls, create, recover>>
        /\ selected # NoView /\ evidence.state = "content"
        /\ review' = Submitted([selected EXCEPT !.version = evidence.version])
    BY <1>5 DEF SubmitReview, MayReview, Displayed
  <2>2. /\ selected.project \in list.items /\ Fresh(selected, revision, delivered)
        /\ evidence.version = selected.version /\ selected \in View
    BY <1>1, <2>1 DEF ConsoleInv, ScreenHolds, Typed
  <2>3. [selected EXCEPT !.version = evidence.version] = selected
    BY <2>2 DEF View
  <2>4. review'.step = "sent" /\ review'.reply = "none" /\ review'.view = selected
    BY <2>1, <2>2, <2>3, ReplyIsAbout
  <2>5. FormsHold' /\ Early'
    BY <2>1, <2>2, <2>4 DEF ConsoleInv, FormsHold, Waiting, Early, server, screen
  <2> QED BY <1>1, <1>3, <2>1, <2>5 DEF ConsoleInv
<1>6. CASE SubmitRecovery
  <2>1. /\ UNCHANGED <<server, screen, calls, create, review>>
        /\ selected # NoView /\ recover' = Submitted(About(selected))
    BY <1>6 DEF SubmitRecovery, MayRecover, Displayed
  <2>2. selected.project \in list.items /\ selected \in View
    BY <1>1, <2>1 DEF ConsoleInv, ScreenHolds, Typed
  <2>3. recover'.step = "sent" /\ recover'.view.project = selected.project
    BY <2>1, <2>2, AboutTyped, ReplyIsAbout
  <2>4. FormsHold' /\ Early'
    BY <2>1, <2>2, <2>3 DEF ConsoleInv, FormsHold, Waiting, Early, server, screen
  <2> QED BY <1>1, <1>3, <2>1, <2>4 DEF ConsoleInv
<1> QED BY <1>2, <1>4, <1>5, <1>6 DEF UserStep

LEMMA FormsAreKnown == ConsoleInv => FormsKnown
BY DEF ConsoleInv, Typed, ServerTyped, ListTyped, FormsHold, FormsKnown

LEMMA FormsKeepSafe ==
    ASSUME ConsoleInv, CreateStep \/ ReviewStep \/ RecoveryStep \/ ListArrives
    PROVE  ConsoleInv'
<1>1. Typed /\ Typed'
  BY FormsAreKnown, FormsKeepTypes DEF ConsoleInv
<1>2. Unsent.step = "idle"
  BY DEF Unsent
<1>3. ASSUME UNCHANGED <<server, selected, jobs, list>>, NEW p \in list.items, LoadDetail(p),
             \/ review' = Reloading /\ UNCHANGED <<create, recover>>
             \/ recover' = Reloading /\ UNCHANGED <<create, review>>,
             list.step = "over"
      PROVE  ConsoleInv'
  <2>1. CallsHold' /\ ScreenHolds'
    BY <1>3, LoadDetailHolds
  <2>2. Reloading.step = "reloading"
    BY DEF Reloading, Unsent
  <2>3. FormsHold' /\ Early'
    BY <1>3, <2>2 DEF ConsoleInv, FormsHold, Waiting, Early, server
  <2> QED BY <1>1, <2>1, <2>3 DEF ConsoleInv
<1>4. CASE CreateLost \/ ReviewLost \/ RecoveryLost
  <2>1. /\ UNCHANGED <<server, screen, calls>>
        /\ create' = create \/ create' = Unsent
        /\ review' = review \/ review' = Unsent
        /\ recover' = recover \/ recover' = Unsent
    BY <1>4 DEF CreateLost, ReviewLost, RecoveryLost
  <2>2. CallsHold' /\ ScreenHolds' /\ Early'
    BY <2>1 DEF ConsoleInv, CallsHold, OneFront, ScreenHolds, Early, server, screen
  <2>3. FormsHold'
    BY <1>2, <2>1 DEF ConsoleInv, FormsHold, Waiting, server, screen
  <2> QED BY <1>1, <2>2, <2>3 DEF ConsoleInv
<1>5. CASE CreateReturns
  <2> DEFINE p == create.view.project
  <2>1. /\ create.step = "answered" /\ request' = request + 1 /\ selected' = create.view
        /\ create' = Unsent /\ UNCHANGED <<server, loading, calls, review, recover>>
        /\ jobs' = NoJobs("empty") /\ evidence' = NoEvidence("empty")
        /\ list' = [list EXCEPT !.items = @ \cup {p}, !.state = "content"]
    BY <1>5 DEF CreateReturns, EmptyDetail
  <2>2. list'.items = list.items \cup {p} /\ list'.read = list.read /\ list'.step = list.step
    BY <1>1, <2>1 DEF Typed, ListTyped
  <2>3. p \in stored \ list.items /\ Fresh(create.view, revision, delivered)
        /\ list.step = "over"
    BY <1>2, <2>1 DEF ConsoleInv, FormsHold, Early
  <2>4. UNCHANGED <<revision, delivered, asked, job, stored>>
    BY <2>1 DEF server
  <2>5. \A c \in calls : c.load # request'
    BY <1>1, <2>1 DEF Typed, CallsTyped, CallOf
  <2>6. CallsHold'
    BY <2>1, <2>2, <2>4, <2>5 DEF ConsoleInv, CallsHold, OneFront, MayShow
  <2>7. ScreenHolds'
    BY <2>1, <2>2, <2>3, <2>4 DEF ConsoleInv, ScreenHolds, NoJobs, NoEvidence
  <2>8. FormsHold' /\ Early'
    BY <1>2, <2>1, <2>2, <2>3, <2>4 DEF ConsoleInv, FormsHold, Waiting, Early
  <2> QED BY <1>1, <2>6, <2>7, <2>8 DEF ConsoleInv
<1>6. CASE ReviewReturns
  BY <1>2, <1>3, <1>6 DEF ReviewReturns, ConsoleInv, FormsHold, Waiting, Early
<1>7. CASE RecoveryReturns
  <2>1. recover.step = "answered" /\ recover.view.project \in list.items
        /\ list.step = "over"
    BY <1>2, <1>7 DEF RecoveryReturns, ConsoleInv, FormsHold, Waiting, Early
  <2>2. CASE recover.reply = "ok"
    BY <1>3, <1>7, <2>1, <2>2 DEF RecoveryReturns
  <2>3. CASE recover.reply # "ok"
    <3>1. /\ UNCHANGED <<server, selected, jobs, list, create, review>>
          /\ UNCHANGED <<request, loading, evidence, calls>>
          /\ recover' = Unsent
      BY <1>7, <2>3 DEF RecoveryReturns
    <3>2. CallsHold' /\ ScreenHolds'
      BY <3>1 DEF ConsoleInv, CallsHold, OneFront, ScreenHolds, server
    <3>3. FormsHold' /\ Early'
      BY <1>2, <2>1, <3>1 DEF ConsoleInv, FormsHold, Waiting, Early, server
    <3> QED BY <1>1, <3>2, <3>3 DEF ConsoleInv
  <2> QED BY <2>2, <2>3
<1>8. CASE ListArrives
  <2>1. /\ list.step # "over" /\ list'.step = "over"
        /\ list'.items \subseteq list.items \cup list.read /\ list'.read = {}
        /\ UNCHANGED <<server, request, selected, loading, jobs, evidence, calls, forms>>
    BY <1>1, <1>8 DEF ListArrives, Typed, ListTyped
  <2>2. /\ list.items = {} /\ calls = {} /\ selected = NoView /\ create = Unsent
        /\ review = Unsent /\ recover = Unsent
    BY <2>1 DEF ConsoleInv, Early
  <2>3. CallsHold' /\ FormsHold' /\ Early'
    BY <1>2, <2>1, <2>2 DEF ConsoleInv, CallsHold, OneFront, FormsHold, Waiting, Early, forms
  <2>4. ScreenHolds'
    BY <2>1, <2>2 DEF ConsoleInv, ScreenHolds, server
  <2> QED BY <1>1, <2>3, <2>4 DEF ConsoleInv
<1> QED BY <1>4, <1>5, <1>6, <1>7, <1>8 DEF CreateStep, ReviewStep, RecoveryStep

LEMMA StepsKeepSafe == ConsoleInv /\ [Next]_vars => ConsoleInv'
<1> SUFFICES ASSUME ConsoleInv, [Next]_vars PROVE ConsoleInv'
  OBVIOUS
<1>1. CASE ServerStep
  <2>1. \/ ProjectStep /\ UNCHANGED <<screen, calls, forms>>
        \/ \E c \in calls : ReadRow(c) \/ ReadPointer(c)
                            \/ ReadRecoverable(c) \/ ReadJobs(c)
        \/ ReadList \/ (\E p \in Projects : CreateServed(p)) \/ ReviewServed
        \/ RecoveryServed
    BY <1>1 DEF ServerStep, ProjectStep
  <2> QED BY <2>1, ServerKeepsSafe, ReadsKeepSafe, ServingKeepsSafe
<1>2. CASE \E n \in 1..MaxRequests : LoadStep(n)
  BY <1>2, LoadsKeepSafe DEF LoadStep
<1>3. CASE UNCHANGED vars
  <2>1. ServerAdvances
    BY <1>3, NoServerStep DEF ConsoleInv, Typed, vars
  <2>2. UNCHANGED <<screen, calls, create, review, recover, list, selected, request, loading,
                    jobs, evidence>>
    BY <1>3 DEF vars, screen, forms
  <2>3. CallsHold' /\ ScreenHolds' /\ FormsHold'
    BY <2>1, <2>2, PageHoldsWhenServerAdvances, FormsHoldWhenServerAdvances
  <2>4. Typed' /\ Early'
    BY <2>1, <2>2 DEF ConsoleInv, Typed, Early, ServerAdvances, PartsTyped, ListTyped,
       CallsTyped, FormsTyped
  <2> QED BY <2>3, <2>4 DEF ConsoleInv
<1> QED BY <1>1, <1>2, <1>3, UsersKeepSafe, FormsKeepSafe DEF Next

-----------------------------------------------------------------------------
(* What follows from the invariant.                                          *)

LEMMA SpecIsSafe == Spec => []ConsoleInv
<1> QED BY StartsSafe, StepsKeepSafe, PTL DEF Spec

\* Every variable keeps its type, and every call is about a project and of a
\* load that was started.
THEOREM TypeCorrect == Spec => []ConsoleTypeOK
<1>1. ConsoleInv => ConsoleTypeOK
  BY TypedIsTypeOK DEF ConsoleInv
<1> QED BY <1>1, SpecIsSafe, PTL

\* The jobs and the evidence on screen are those of the project on screen, for
\* any number of loads that overtake one another: the fence of
\* detailRequestRef drops whatever belongs to another load.
THEOREM PartsAlwaysMatch == Spec => []PartsMatch
<1>1. ConsoleInv => PartsMatch
  BY DEF ConsoleInv, ScreenHolds, PartsMatch
<1> QED BY <1>1, SpecIsSafe, PTL

\* A job that is offered for recovery has ended, although the row, the newest
\* job and the list of jobs are read by three statements of one handler.
THEOREM OffersAreOver == Spec => []OfferedJobHasEnded
<1>1. ConsoleInv => OfferedJobHasEnded
  BY DEF ConsoleInv, CallsHold, HasRead, ScreenHolds, Ended, OfferedJobHasEnded, Over
<1> QED BY <1>1, SpecIsSafe, PTL

\* A project that was created stays in the list: the form waits for the list.
THEOREM ListOnlyGrows == Spec => CreatedStaysListed
<1>1. ConsoleInv /\ [Next]_vars => [list.items \subseteq list'.items]_vars
  <2> SUFFICES ASSUME ConsoleInv, Next PROVE list.items \subseteq list'.items
    BY DEF vars, screen
  <2>1. CASE ServerStep
    <3>1. list'.items = list.items
      <4>1. CASE ReadList
        BY <4>1 DEF ReadList, ConsoleInv, Typed, ListTyped
      <4>2. CASE ~ReadList
        BY <2>1, <4>2 DEF ServerStep, ReadRow, ReadPointer, ReadRecoverable, ReadJobs,
           CreateServed, ReviewServed, RecoveryServed, screen
      <4> QED BY <4>1, <4>2
    <3> QED BY <3>1
  <2>2. CASE UserStep
    BY <2>2 DEF UserStep, OpenDetail, SubmitProject, SubmitReview, SubmitRecovery, screen
  <2>3. ASSUME NEW c \in calls,
               ProjectArrives(c) \/ JobsArrive(c) \/ EvidenceArrives(c) \/ CallFails(c)
        PROVE  list.items \subseteq list'.items
    BY <2>3 DEF ProjectArrives, JobsArrive, EvidenceArrives, CallFails, Show, ConsoleInv,
       Typed, ListTyped
  <2>4. CASE CreateStep
    BY <2>4 DEF CreateStep, CreateLost, CreateReturns, screen, ConsoleInv, Typed, ListTyped
  <2>5. CASE ReviewStep \/ RecoveryStep
    BY <2>5 DEF ReviewStep, RecoveryStep, ReviewLost, ReviewReturns, RecoveryLost,
       RecoveryReturns, screen
  <2>6. CASE ListArrives
    BY <2>6 DEF ListArrives, ConsoleInv, Early
  <2> QED BY <2>1, <2>2, <2>3, <2>4, <2>5, <2>6 DEF Next, LoadStep
<1> QED BY <1>1, SpecIsSafe, PTL DEF CreatedStaysListed, Spec

\* What is shown of a project is never replaced by what it was before.
THEOREM ScreenNeverOlder == Spec => ShownNeverOlder
<1> DEFINE NotOlder == selected'.project = selected.project =>
                          selected'.revision >= selected.revision
<1>1. ConsoleInv /\ [Next]_vars => [NotOlder]_vars
  <2> SUFFICES ASSUME ConsoleInv, Next PROVE NotOlder
    BY DEF vars, screen
  <2>1. selected.revision \in Nat
    BY DEF ConsoleInv, Typed, View
  <2>2. ASSUME UNCHANGED selected PROVE NotOlder
    BY <2>1, <2>2
  <2>3. CASE ServerStep \/ UserStep \/ ListArrives \/ ReviewStep \/ RecoveryStep
    <3>1. UNCHANGED selected
      <4>1. CASE ServerStep
        BY <4>1 DEF ServerStep, ReadRow, ReadPointer, ReadRecoverable, ReadJobs, ReadList,
           CreateServed, ReviewServed, RecoveryServed, screen
      <4>2. CASE UserStep \/ ListArrives
        BY <4>2 DEF UserStep, OpenDetail, SubmitProject, SubmitReview, SubmitRecovery,
           ListArrives, screen
      <4>3. CASE ReviewStep \/ RecoveryStep
        BY <4>3 DEF ReviewStep, RecoveryStep, ReviewLost, ReviewReturns, RecoveryLost,
           RecoveryReturns, screen
      <4> QED BY <2>3, <4>1, <4>2, <4>3
    <3> QED BY <2>2, <3>1
  <2>4. ASSUME NEW c \in calls,
               ProjectArrives(c) \/ JobsArrive(c) \/ EvidenceArrives(c) \/ CallFails(c)
        PROVE  NotOlder
    <3>1. CASE ProjectArrives(c) /\ IsNewest(c)
      <4>1. selected' = c.view /\ c.kind = "project" /\ c.step = "answered"
            /\ c.load = request
        BY <3>1 DEF ProjectArrives, IsNewest, Show
      <4> QED BY <4>1 DEF ConsoleInv, CallsHold, MayShow
    <3>2. CASE ~(ProjectArrives(c) /\ IsNewest(c))
      BY <2>2, <2>4, <3>2 DEF ProjectArrives, JobsArrive, EvidenceArrives, CallFails
    <3> QED BY <3>1, <3>2
  <2>5. CASE CreateLost
    BY <2>2, <2>5 DEF CreateLost, screen
  <2>6. CASE CreateReturns
    <3>1. selected' = create.view /\ create.view.project \in stored \ list.items
      BY <2>6 DEF CreateReturns, ConsoleInv, FormsHold
    <3>2. selected.project # create.view.project
      <4>1. selected # NoView => selected.project \in list.items
        BY DEF ConsoleInv, ScreenHolds
      <4>2. selected = NoView => selected.project \notin stored
        BY ConsoleAssumption DEF NoView, ConsoleInv, Typed, ServerTyped
      <4> QED BY <3>1, <4>1, <4>2
    <3> QED BY <3>1, <3>2
  <2> QED BY <2>3, <2>4, <2>5, <2>6 DEF Next, LoadStep, CreateStep
<1> QED BY <1>1, SpecIsSafe, PTL DEF ShownNeverOlder, Spec

\* A recorded review judged the version whose evidence was on screen: the
\* revision that the handler compares stands for it.
THEOREM ReviewersSawIt == Spec => ReviewedWhatWasShown
<1> DEFINE Judged == review.step = "sent" /\ review'.reply = "ok"
                     => review.view.version = delivered[review.view.project]
<1>1. ConsoleInv /\ [Next]_vars => [Judged]_vars
  <2> SUFFICES ASSUME ConsoleInv, Next, review.step = "sent", review'.reply = "ok"
               PROVE  review.view.version = delivered[review.view.project]
    BY DEF vars, forms
  <2>1. review.reply = "none" /\ Fresh(review.view, revision, delivered)
        /\ review.view \in View
    BY DEF ConsoleInv, FormsHold, Typed, FormsTyped, Form
  <2>2. review' # review
    BY <2>1
  <2>3. ~UserStep /\ ~CreateStep /\ ~RecoveryStep /\ ~ListArrives
    BY <2>2 DEF UserStep, OpenDetail, SubmitProject, SubmitReview, SubmitRecovery,
       CreateStep, CreateLost, CreateReturns, RecoveryStep, RecoveryLost, RecoveryReturns,
       ListArrives, forms
  <2>4. ~ReviewStep
    BY DEF ReviewStep, ReviewLost, ReviewReturns, Unsent
  <2>5. ~(\E n \in 1..MaxRequests : LoadStep(n))
    BY <2>2 DEF LoadStep, ProjectArrives, JobsArrive, EvidenceArrives, CallFails, Settle
  <2>6. ReviewServed
    BY <2>2, <2>3, <2>4, <2>5 DEF Next, ServerStep, ReadRow, ReadPointer, ReadRecoverable,
       ReadJobs, ReadList, CreateServed, RecoveryServed, forms
  <2>7. Judgeable(review.view)
    <3>1. About(review.view) \in View
      BY <2>1, AboutTyped
    <3> QED BY <2>6, <3>1, ReplyIsAbout DEF ReviewServed
  <2> QED BY <2>1, <2>7 DEF Judgeable, Fresh
<1> QED BY <1>1, SpecIsSafe, PTL DEF ReviewedWhatWasShown, Spec

=============================================================================
