------------------------- MODULE TextPublishProofs -------------------------
(***************************************************************************)
(* The publish protocol of text steps is right for any number of attempts, *)
(* however they interleave, stop, break or lose power.                     *)
(***************************************************************************)
EXTENDS TextPublish, TLAPS

\* A file is synced before it is linked, and not yet there before it is made.
SyncedBeforeLinked ==
    \A a \in Attempts :
        /\ pc[a] \in {"generating", "creating"} => data[a] = "none"
        /\ pc[a] = "linking" => data[a] = "synced"

\* The inodes that a name or an attempt refers to.
NamedAreWhole ==
    /\ final # NoFile => data[final] = "synced"
    /\ durable.final # NoFile => data[durable.final] = "synced"
    /\ \A a \in Attempts : seen[a].inode # NoFile => data[seen[a].inode] = "synced"

\* The reserved name belongs to the attempt that linked it until the attempt
\* ends, on disk too once it has synced the directory.
LinkedByOwner ==
    \A a \in Attempts :
        /\ pc[a] \in {"generating", "creating", "writing", "linking"} => ~seen[a].published
        /\ pc[a] \in {"unlinking", "syncing"} => final = a
        /\ /\ pc[a] \in {"verifying", "rechecking", "walking", "leaving"}
           /\ seen[a].published
           => Stays(a)

\* Who passes the verification has looked at an inode with its own bytes.
VerdictIsRight ==
    \A a \in Attempts :
        /\ pc[a] = "rechecking" => seen[a].inode # NoFile
        /\ pc[a] \in {"walking", "leaving", "done"} =>
              /\ seen[a].inode # NoFile
              /\ content[seen[a].inode] = content[a]

IInv ==
    /\ TypeOK
    /\ SyncedBeforeLinked
    /\ NamedAreWhole
    /\ LinkedByOwner
    /\ VerdictIsRight

-----------------------------------------------------------------------------
(* Type correctness                                                        *)

LEMMA TypeInit == Init => TypeOK
BY DEF Init, TypeOK, Steps, Ends, Unseen

\* Every step keeps the types; the counted links of an inode are at most two.
LEMMA TypeStep == TypeOK /\ [Next]_vars => TypeOK'
<1> SUFFICES ASSUME TypeOK, [Next]_vars
             PROVE  TypeOK'
    OBVIOUS
<1> USE DEF TypeOK, Steps, Ends
<1>1. ASSUME NEW a \in Attempts, Attempt(a)
      PROVE  TypeOK'
  <2>1. CASE MakeDirectory(a)
        BY <2>1 DEF MakeDirectory, Goto
  <2>2. CASE CreateTemp(a)
        BY <2>2 DEF CreateTemp, Goto
  <2>3. CASE WriteTemp(a)
        BY <2>3 DEF WriteTemp, Goto
  <2>4. CASE Link(a)
        BY <2>4 DEF Link, Goto
  <2>5. CASE FindPublished(a)
        BY <2>5 DEF FindPublished, Goto
  <2>6. CASE UnlinkTemp(a)
        BY <2>6 DEF UnlinkTemp, Goto
  <2>7. CASE SyncDirectory(a)
        BY <2>7 DEF SyncDirectory, Goto
  <2>8. CASE Inspect(a)
    <3>1. Links(final) \in 0..2
          BY DEF Links
    <3>2. PICK refused \in BOOLEAN :
              seen' = [seen EXCEPT ![a] = [@ EXCEPT !.inode = final, !.links = Links(final),
                                                    !.refused = refused]]
          BY <2>8, Zenon DEF Inspect
    <3>3. seen' \in [Attempts -> [inode : Attempts \cup {NoFile}, links : 0..2,
                                  published : BOOLEAN, refused : BOOLEAN]]
      <4>1. seen'[a] \in [inode : Attempts \cup {NoFile}, links : 0..2,
                          published : BOOLEAN, refused : BOOLEAN]
            BY <3>1, <3>2
      <4>2. PICK row : seen' = [seen EXCEPT ![a] = row]
            BY <3>2, Zenon
      <4>3. QED
            BY <4>1, <4>2
    <3>4. pc' \in [Attempts -> Steps \cup Ends]
          BY <2>8 DEF Inspect, Goto
    <3>5. QED
          BY <2>8, <3>3, <3>4 DEF Inspect
  <2>9. CASE Recheck(a)
    <3>1. PICK refused \in BOOLEAN : seen' = [seen EXCEPT ![a].refused = refused]
          BY <2>9, Zenon DEF Recheck
    <3>2. seen' \in [Attempts -> [inode : Attempts \cup {NoFile}, links : 0..2,
                                  published : BOOLEAN, refused : BOOLEAN]]
          BY <3>1
    <3>3. pc' \in [Attempts -> Steps \cup Ends]
          BY <2>9 DEF Recheck, Goto
    <3>4. QED
          BY <2>9, <3>2, <3>3 DEF Recheck
  <2>10. CASE WalkAgain(a)
        BY <2>10 DEF WalkAgain, Goto
  <2>11. CASE TakeBack(a)
        BY <2>11 DEF TakeBack, Goto
  <2>12. CASE Break(a)
        BY <2>12 DEF Break, Goto
  <2>13. CASE Clear(a)
        BY <2>13 DEF Clear, Goto
  <2>14. CASE ClearFails(a)
        BY <2>14 DEF ClearFails, Goto
  <2>15. QED
         BY <1>1, <2>1, <2>2, <2>3, <2>4, <2>5, <2>6, <2>7,
            <2>8, <2>9, <2>10, <2>11, <2>12, <2>13, <2>14 DEF Attempt
<1>2. ASSUME NEW a \in Attempts, Crash(a)
      PROVE  TypeOK'
      BY <1>2 DEF Crash
<1>3. CASE PowerLoss
      BY <1>3 DEF PowerLoss, EntriesMixed, DirectoryLost
<1>4. CASE UNCHANGED vars
      BY <1>4 DEF vars
<1>5. QED
      BY <1>1, <1>2, <1>3, <1>4 DEF Next

\* TypeOK holds for any attempts and contents.
THEOREM TypeCorrect == Spec => []TypeOK
BY TypeInit, TypeStep, PTL DEF Spec

-----------------------------------------------------------------------------
(* Safety                                                                  *)

LEMMA InvariantInit == Init => IInv
<1> SUFFICES ASSUME Init PROVE IInv
    OBVIOUS
<1>1. TypeOK
      BY TypeInit
<1>2. SyncedBeforeLinked
      BY DEF Init, SyncedBeforeLinked
<1>3. NamedAreWhole
      BY DEF Init, NamedAreWhole, Unseen
<1>4. LinkedByOwner /\ VerdictIsRight
      BY DEF Init, LinkedByOwner, VerdictIsRight, Unseen
<1>5. QED
      BY <1>1, <1>2, <1>3, <1>4 DEF IInv

\* One step of one attempt, by the place the attempt is at.
LEMMA AttemptStep ==
    ASSUME IInv, NEW a \in Attempts, Attempt(a), TypeOK'
    PROVE  IInv'
<1> USE NoFileAssumption DEF IInv, TypeOK, Steps, Ends
<1>1. CASE MakeDirectory(a)
  <2>1. SyncedBeforeLinked'
        BY <1>1 DEF Goto, SyncedBeforeLinked, MakeDirectory
  <2>2. NamedAreWhole'
        BY <1>1 DEF Goto, NamedAreWhole, MakeDirectory
  <2>3. LinkedByOwner'
        BY <1>1 DEF Goto, LinkedByOwner, MakeDirectory, Stays
  <2>4. VerdictIsRight'
        BY <1>1 DEF Goto, VerdictIsRight, MakeDirectory
  <2>5. QED
        BY <2>1, <2>2, <2>3, <2>4
<1>2. CASE CreateTemp(a)
  <2>1. SyncedBeforeLinked'
        BY <1>2 DEF Goto, SyncedBeforeLinked, CreateTemp
  <2>2. NamedAreWhole'
        BY <1>2 DEF Goto, NamedAreWhole, CreateTemp, SyncedBeforeLinked
  <2>3. LinkedByOwner'
        BY <1>2 DEF Goto, LinkedByOwner, CreateTemp, Stays
  <2>4. VerdictIsRight'
        BY <1>2 DEF Goto, VerdictIsRight, CreateTemp
  <2>5. QED
        BY <2>1, <2>2, <2>3, <2>4
<1>3. CASE WriteTemp(a)
  <2>1. SyncedBeforeLinked'
        BY <1>3 DEF Goto, SyncedBeforeLinked, WriteTemp
  <2>2. NamedAreWhole'
        BY <1>3 DEF Goto, NamedAreWhole, WriteTemp
  <2>3. LinkedByOwner'
        BY <1>3 DEF Goto, LinkedByOwner, WriteTemp, Stays
  <2>4. VerdictIsRight'
        BY <1>3 DEF Goto, VerdictIsRight, WriteTemp
  <2>5. QED
        BY <2>1, <2>2, <2>3, <2>4
<1>4. CASE Link(a)
  <2>1. SyncedBeforeLinked'
        BY <1>4 DEF Goto, SyncedBeforeLinked, Link
  <2>2. NamedAreWhole'
        BY <1>4 DEF Goto, NamedAreWhole, Link, SyncedBeforeLinked
  <2>3. LinkedByOwner'
        BY <1>4 DEF Goto, LinkedByOwner, Link, Stays
  <2>4. VerdictIsRight'
        BY <1>4 DEF Goto, VerdictIsRight, Link
  <2>5. QED
        BY <2>1, <2>2, <2>3, <2>4
<1>5. CASE FindPublished(a)
  <2>1. SyncedBeforeLinked'
        BY <1>5 DEF Goto, SyncedBeforeLinked, FindPublished
  <2>2. NamedAreWhole'
        BY <1>5 DEF Goto, NamedAreWhole, FindPublished
  <2>3. LinkedByOwner'
        BY <1>5 DEF Goto, LinkedByOwner, FindPublished, Stays
  <2>4. VerdictIsRight'
        BY <1>5 DEF Goto, VerdictIsRight, FindPublished
  <2>5. QED
        BY <2>1, <2>2, <2>3, <2>4
<1>6. CASE UnlinkTemp(a)
  <2>1. SyncedBeforeLinked'
        BY <1>6 DEF Goto, SyncedBeforeLinked, UnlinkTemp
  <2>2. NamedAreWhole'
        BY <1>6 DEF Goto, NamedAreWhole, UnlinkTemp
  <2>3. LinkedByOwner'
        BY <1>6 DEF Goto, LinkedByOwner, UnlinkTemp, Stays
  <2>4. VerdictIsRight'
        BY <1>6 DEF Goto, VerdictIsRight, UnlinkTemp
  <2>5. QED
        BY <2>1, <2>2, <2>3, <2>4
<1>7. CASE SyncDirectory(a)
  <2>1. SyncedBeforeLinked'
        BY <1>7 DEF Goto, SyncedBeforeLinked, SyncDirectory
  <2>2. NamedAreWhole'
        BY <1>7 DEF Goto, NamedAreWhole, SyncDirectory
  <2>3. LinkedByOwner'
        BY <1>7 DEF Goto, LinkedByOwner, SyncDirectory, Stays
  <2>4. VerdictIsRight'
        BY <1>7 DEF Goto, VerdictIsRight, SyncDirectory
  <2>5. QED
        BY <2>1, <2>2, <2>3, <2>4
<1>8. CASE Inspect(a)
  <2>1. SyncedBeforeLinked'
        BY <1>8 DEF Goto, SyncedBeforeLinked, Inspect
  <2>2. NamedAreWhole'
        BY <1>8 DEF Goto, NamedAreWhole, Inspect
  <2>3. LinkedByOwner'
        BY <1>8 DEF Goto, LinkedByOwner, Inspect, Stays
  <2>4. VerdictIsRight'
        BY <1>8 DEF Goto, VerdictIsRight, Inspect
  <2>5. QED
        BY <2>1, <2>2, <2>3, <2>4
<1>9. CASE Recheck(a)
  <2>1. SyncedBeforeLinked'
        BY <1>9 DEF Goto, SyncedBeforeLinked, Recheck
  <2>2. NamedAreWhole'
        BY <1>9 DEF Goto, NamedAreWhole, Recheck
  <2>3. LinkedByOwner'
        BY <1>9 DEF Goto, LinkedByOwner, Recheck, Stays
  <2>4. VerdictIsRight'
        BY <1>9 DEF Goto, VerdictIsRight, Recheck, Verified
  <2>5. QED
        BY <2>1, <2>2, <2>3, <2>4
<1>10. CASE WalkAgain(a)
  <2>1. SyncedBeforeLinked'
        BY <1>10 DEF Goto, SyncedBeforeLinked, WalkAgain
  <2>2. NamedAreWhole'
        BY <1>10 DEF Goto, NamedAreWhole, WalkAgain
  <2>3. LinkedByOwner'
        BY <1>10 DEF Goto, LinkedByOwner, WalkAgain, Stays
  <2>4. VerdictIsRight'
        BY <1>10 DEF Goto, VerdictIsRight, WalkAgain
  <2>5. QED
        BY <2>1, <2>2, <2>3, <2>4
<1>11. CASE TakeBack(a)
  <2>1. SyncedBeforeLinked'
        BY <1>11 DEF Goto, SyncedBeforeLinked, TakeBack
  <2>2. NamedAreWhole'
        BY <1>11 DEF Goto, NamedAreWhole, TakeBack
  <2>3. LinkedByOwner'
        BY <1>11 DEF Goto, LinkedByOwner, TakeBack, Stays
  <2>4. VerdictIsRight'
        BY <1>11 DEF Goto, VerdictIsRight, TakeBack
  <2>5. QED
        BY <2>1, <2>2, <2>3, <2>4
<1>12. CASE Break(a)
  <2>1. SyncedBeforeLinked'
        BY <1>12 DEF Goto, SyncedBeforeLinked, Break
  <2>2. NamedAreWhole'
        BY <1>12 DEF Goto, NamedAreWhole, Break
  <2>3. LinkedByOwner'
        BY <1>12 DEF Goto, LinkedByOwner, Break, Stays
  <2>4. VerdictIsRight'
        BY <1>12 DEF Goto, VerdictIsRight, Break
  <2>5. QED
        BY <2>1, <2>2, <2>3, <2>4
<1>13. CASE Clear(a)
  <2>1. SyncedBeforeLinked'
        BY <1>13 DEF Goto, SyncedBeforeLinked, Clear
  <2>2. NamedAreWhole'
        BY <1>13 DEF Goto, NamedAreWhole, Clear
  <2>3. LinkedByOwner'
        BY <1>13 DEF Goto, LinkedByOwner, Clear, Stays
  <2>4. VerdictIsRight'
        BY <1>13 DEF Goto, VerdictIsRight, Clear
  <2>5. QED
        BY <2>1, <2>2, <2>3, <2>4
<1>14. CASE ClearFails(a)
  <2>1. SyncedBeforeLinked'
        BY <1>14 DEF Goto, SyncedBeforeLinked, ClearFails
  <2>2. NamedAreWhole'
        BY <1>14 DEF Goto, NamedAreWhole, ClearFails
  <2>3. LinkedByOwner'
        BY <1>14 DEF Goto, LinkedByOwner, ClearFails, Stays
  <2>4. VerdictIsRight'
        BY <1>14 DEF Goto, VerdictIsRight, ClearFails
  <2>5. QED
        BY <2>1, <2>2, <2>3, <2>4
<1>15. QED
       BY <1>1, <1>2, <1>3, <1>4, <1>5, <1>6, <1>7, <1>8,
          <1>9, <1>10, <1>11, <1>12, <1>13, <1>14 DEF Attempt

LEMMA InvariantStep == IInv /\ [Next]_vars => IInv'
<1> SUFFICES ASSUME IInv, [Next]_vars
             PROVE  IInv'
    OBVIOUS
<1>0. TypeOK'
      BY TypeStep DEF IInv
<1>1. ASSUME NEW a \in Attempts, Attempt(a)
      PROVE  IInv'
      BY <1>0, <1>1, AttemptStep
<1> USE DEF IInv, TypeOK, Steps, Ends, SyncedBeforeLinked, NamedAreWhole,
            LinkedByOwner, Stays, VerdictIsRight
<1>2. ASSUME NEW a \in Attempts, Crash(a)
      PROVE  IInv'
      BY <1>0, <1>2 DEF Crash
<1>3. CASE PowerLoss
      BY <1>0, <1>3, NoFileAssumption DEF PowerLoss, EntriesMixed, DirectoryLost
<1>4. CASE UNCHANGED vars
      BY <1>4 DEF vars
<1>5. QED
      BY <1>1, <1>2, <1>3, <1>4 DEF Next

LEMMA InvariantAlways == Spec => []IInv
BY InvariantInit, InvariantStep, PTL DEF Spec

\* The reserved name never holds a torn file (FinalIsWhole).
THEOREM NeverTorn == Spec => []FinalIsWhole
<1>1. IInv => FinalIsWhole
      BY DEF IInv, NamedAreWhole, FinalIsWhole
<1>2. QED
      BY <1>1, InvariantAlways, PTL

\* An attempt answers only for a whole file with its own bytes
\* (AnswerIsWhole).
THEOREM AnswersAreWhole == Spec => []AnswerIsWhole
<1>1. IInv => AnswerIsWhole
      BY DEF IInv, NamedAreWhole, VerdictIsRight, AnswerIsWhole
<1>2. QED
      BY <1>1, InvariantAlways, PTL

\* Only Clear ends an attempt well, and there its file is named and on disk.
LEMMA ReturnsWithFile ==
    ASSUME IInv, Next, NEW a \in Attempts, pc[a] # "done", pc'[a] = "done",
           seen'[a].published
    PROVE  Stays(a)'
<1> USE DEF IInv, TypeOK
<1>1. PICK b \in Attempts : Attempt(b) \/ Crash(b)
      BY DEF Next, PowerLoss
<1>2. Clear(b)
      BY <1>1 DEF Attempt, Goto, Crash, MakeDirectory, CreateTemp, WriteTemp, Link,
                  FindPublished, UnlinkTemp, SyncDirectory, Inspect, Recheck,
                  WalkAgain, TakeBack, Break, ClearFails
<1>3. a = b /\ pc[a] = "leaving" /\ seen[a].published
      BY <1>2 DEF Clear, Goto
<1>4. QED
      BY <1>2, <1>3 DEF Clear, LinkedByOwner, Stays

\* The file of an attempt that returned is where it was, or went with its
\* directory.
LEMMA FileStays ==
    ASSUME IInv, Next, NEW a \in Attempts, pc[a] = "done", Stays(a)
    PROVE  Stays(a)' \/ DirectoryLost
<1> USE NoFileAssumption DEF IInv, TypeOK
<1>1. ASSUME NEW b \in Attempts, TakeBack(b)
      PROVE  FALSE
      BY <1>1 DEF TakeBack, Goto, LinkedByOwner, Stays
<1>2. ASSUME NEW b \in Attempts, Attempt(b) \/ Crash(b)
      PROVE  Stays(a)'
      BY <1>1, <1>2 DEF Attempt, Goto, Crash, MakeDirectory, CreateTemp, WriteTemp,
                  Link, FindPublished, UnlinkTemp, SyncDirectory, Inspect, Recheck,
                  WalkAgain, Break, Clear, ClearFails, Stays
<1>3. CASE PowerLoss
      BY <1>3 DEF PowerLoss, EntriesMixed, Stays
<1>4. QED
      BY <1>2, <1>3 DEF Next

\* What an attempt published and answered for is on disk under the reserved
\* name, and stays there whatever the others do and whenever the host loses
\* power, as long as its directory does (PublishedSurvives).
THEOREM PublishedStays == Spec => PublishedSurvives
<1>1. IInv /\ [Next]_vars =>
        [\A a \in Attempts : pc'[a] = "done" /\ seen'[a].published =>
            \/ Stays(a)'
            \/ pc[a] = "done" /\ (DirectoryLost \/ ~Stays(a))]_vars
      BY ReturnsWithFile, FileStays
<1>2. QED
      BY <1>1, InvariantAlways, PTL DEF Spec, PublishedSurvives

\* The reserved name is never replaced, and freed only by the attempt that
\* published and then fails, or by a loss of power before the name or its
\* directory was synced (WrittenOnce).
THEOREM NameIsFinal == Spec => WrittenOnce
<1>1. IInv /\ [Next]_vars =>
        [final # NoFile /\ final' # final =>
            \/ TakenBack
            \/ DirectoryLost
            \/ durable.final # final /\ final' \in {NoFile, durable.final}]_vars
  <2> SUFFICES ASSUME IInv, Next, final # NoFile, final' # final
               PROVE  \/ TakenBack
                      \/ DirectoryLost
                      \/ durable.final # final /\ final' \in {NoFile, durable.final}
      OBVIOUS
  <2>1. ASSUME NEW a \in Attempts, TakeBack(a)
        PROVE  TakenBack
    <3>1. final = a
          BY <2>1 DEF TakeBack, Goto, IInv, LinkedByOwner, Stays
    <3>2. QED
          BY <2>1, <3>1 DEF TakeBack, Goto, TakenBack, IInv, TypeOK
  <2>2. ASSUME NEW a \in Attempts, Attempt(a) \/ Crash(a)
        PROVE  TakeBack(a)
        BY <2>2 DEF Attempt, Crash, MakeDirectory, CreateTemp, WriteTemp, Link,
                    FindPublished, UnlinkTemp, SyncDirectory, Inspect, Recheck,
                    WalkAgain, Break, Clear, ClearFails
  <2>3. CASE PowerLoss
        BY <2>3 DEF PowerLoss, EntriesMixed
  <2>4. QED
        BY <2>1, <2>2, <2>3 DEF Next
<1>2. QED
      BY <1>1, InvariantAlways, PTL DEF Spec, WrittenOnce

=============================================================================
