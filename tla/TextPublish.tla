---------------------------- MODULE TextPublish ----------------------------
(***************************************************************************)
(* How a text step publishes its file (packages/pipeline/text.py): make    *)
(* the directories, write and sync a temporary file, link it to the        *)
(* reserved name, unlink the temporary name, sync the directory, verify    *)
(* what the reserved name holds, and walk to the directory once more; when *)
(* the name is taken, verify and walk only.  Several attempts of one       *)
(* reservation may run at once (a worker that stalled and its successor),  *)
(* each may stop at any point, and any of its calls may raise an OSError.  *)
(* The host may lose power, which keeps any mixture of the directory's old *)
(* and new entries unless it was synced, and keeps or drops a directory    *)
(* that was made: no step syncs its entry in the directory above.          *)
(* Directories are never moved or removed while a step publishes.          *)
(***************************************************************************)
EXTENDS Naturals, FiniteSets

CONSTANTS
    Attempts,  \* attempts of one reservation; each has a temporary name
    Contents,  \* bytes a provider may answer
    NoFile     \* the reserved name does not exist

ASSUME NoFileAssumption == NoFile \notin Attempts

VARIABLES
    pc,        \* where each attempt is
    content,   \* what each attempt publishes
    data,      \* the inode each attempt created: none, partial, synced
    directory, \* the reserved name's directory: absent, made, durable
    temp,      \* attempts whose temporary name exists
    final,     \* attempt whose inode the reserved name holds, or NoFile
    durable,   \* the directory's entries on disk: temp and final
    seen       \* what each attempt knows: the inode it verifies, its links, a refusal

vars == <<pc, content, data, directory, temp, final, durable, seen>>

Steps == {"generating", "creating", "writing", "linking", "unlinking", "syncing",
          "verifying", "rechecking", "walking", "leaving", "clearing"}
Ends == {"done", "failed", "dead"}

Unseen == [inode |-> NoFile, links |-> 0, published |-> FALSE, refused |-> FALSE]

Init ==
    /\ pc = [a \in Attempts |-> "generating"]
    /\ content \in [Attempts -> Contents]
    /\ data = [a \in Attempts |-> "none"]
    /\ directory \in {"absent", "made", "durable"}
    /\ temp = {}
    /\ final = NoFile
    /\ durable = [temp |-> {}, final |-> NoFile]
    /\ seen = [a \in Attempts |-> Unseen]

Goto(a, from, to) == pc[a] = from /\ pc' = [pc EXCEPT ![a] = to]

\* Names of the inode that attempt i created.
Links(i) == (IF i \in temp THEN 1 ELSE 0) + (IF final = i THEN 1 ELSE 0)

\* The first walk makes what is missing of the path.
MakeDirectory(a) ==
    /\ Goto(a, "generating", "creating")
    /\ directory' = IF directory = "absent" THEN "made" ELSE directory
    /\ UNCHANGED <<content, data, temp, final, durable, seen>>

CreateTemp(a) ==
    /\ Goto(a, "creating", "writing")
    /\ temp' = temp \cup {a}
    /\ data' = [data EXCEPT ![a] = "partial"]
    /\ UNCHANGED <<content, directory, final, durable, seen>>

\* Mutation: the temporary file is not synced.
KeepTempUnsynced(a) ==
    /\ Goto(a, "writing", "linking")
    /\ UNCHANGED <<content, data, directory, temp, final, durable, seen>>

WriteTemp(a) ==
    /\ Goto(a, "writing", "linking")
    /\ data' = [data EXCEPT ![a] = "synced"]
    /\ UNCHANGED <<content, directory, temp, final, durable, seen>>

\* Mutation: the reserved name is replaced, as a rename would.
LinkOver(a) ==
    /\ Goto(a, "linking", "unlinking")
    /\ final' = a
    /\ seen' = [seen EXCEPT ![a].published = TRUE]
    /\ UNCHANGED <<content, data, directory, temp, durable>>

Link(a) ==
    /\ final = NoFile
    /\ Goto(a, "linking", "unlinking")
    /\ final' = a
    /\ seen' = [seen EXCEPT ![a].published = TRUE]
    /\ UNCHANGED <<content, data, directory, temp, durable>>

\* FileExistsError: someone published before.
FindPublished(a) ==
    /\ final # NoFile
    /\ Goto(a, "linking", "verifying")
    /\ UNCHANGED <<content, data, directory, temp, final, durable, seen>>

UnlinkTemp(a) ==
    /\ Goto(a, "unlinking", "syncing")
    /\ temp' = temp \ {a}
    /\ UNCHANGED <<content, data, directory, final, durable, seen>>

\* Mutation: the directory is not synced.
SkipSync(a) ==
    /\ Goto(a, "syncing", "verifying")
    /\ UNCHANGED <<content, data, directory, temp, final, durable, seen>>

SyncDirectory(a) ==
    /\ Goto(a, "syncing", "verifying")
    /\ durable' = [temp |-> temp, final |-> final]
    /\ UNCHANGED <<content, data, directory, temp, final, seen>>

\* _verify_existing opens the reserved name and looks at its inode: one link.
Inspect(a) ==
    /\ final # NoFile
    /\ seen' = [seen EXCEPT ![a] = [@ EXCEPT !.inode = final, !.links = Links(final),
                                             !.refused = Links(final) # 1]]
    /\ Goto(a, "verifying", IF Links(final) = 1 THEN "rechecking" ELSE "clearing")
    /\ UNCHANGED <<content, data, directory, temp, final, durable>>

\* Mutation: the bytes are not compared.
VerifiedAnyBytes(a) == seen[a].links = Links(seen[a].inode)

\* The inode did not change, holds these bytes, and is the one published.
Verified(a) ==
    /\ seen[a].links = Links(seen[a].inode)
    /\ content[seen[a].inode] = content[a]
    /\ seen[a].published => seen[a].inode = a

Recheck(a) ==
    /\ Goto(a, "rechecking", IF Verified(a) THEN "walking" ELSE "clearing")
    /\ seen' = [seen EXCEPT ![a].refused = ~Verified(a)]
    /\ UNCHANGED <<content, data, directory, temp, final, durable>>

\* The last walk ends in the same directory.
WalkAgain(a) ==
    /\ Goto(a, "walking", "leaving")
    /\ UNCHANGED <<content, data, directory, temp, final, durable, seen>>

\* The last walk raises an OSError: who published unlinks the reserved name, and
\* does not sync the directory again.
TakeBack(a) ==
    /\ seen[a].published
    /\ Goto(a, "walking", "clearing")
    /\ final' = NoFile
    /\ UNCHANGED <<content, data, directory, temp, durable, seen>>

\* Any other call raises an OSError, the unlink of the reserved name included.
Break(a) ==
    /\ pc[a] \in Steps \ {"clearing"}
    /\ pc' = [pc EXCEPT ![a] = "clearing"]
    /\ UNCHANGED <<content, data, directory, temp, final, durable, seen>>

\* The finally clause removes the temporary name if it is still there.
Clear(a) ==
    /\ Goto(a, "leaving", "done") \/ Goto(a, "clearing", "failed")
    /\ temp' = temp \ {a}
    /\ UNCHANGED <<content, data, directory, final, durable, seen>>

\* It raises an OSError.
ClearFails(a) ==
    /\ Goto(a, "leaving", "failed") \/ Goto(a, "clearing", "failed")
    /\ UNCHANGED <<content, data, directory, temp, final, durable, seen>>

Crash(a) ==
    /\ pc[a] \in Steps
    /\ pc' = [pc EXCEPT ![a] = "dead"]
    /\ UNCHANGED <<content, data, directory, temp, final, durable, seen>>

\* Each name is as it was when the directory was last synced, or as it is now,
\* or, where the two differ, not there.
EntriesMixed ==
    /\ directory' = IF directory = "absent" THEN "absent" ELSE "durable"
    /\ \E names \in SUBSET (temp \cup durable.temp) :
          /\ temp \cap durable.temp \subseteq names
          /\ temp' = names
    /\ final' \in IF final = durable.final THEN {final} ELSE {final, durable.final, NoFile}

\* A directory whose own entry is not on disk goes with all that is in it.
DirectoryLost ==
    /\ directory = "made"
    /\ directory' = "absent"
    /\ temp' = {}
    /\ final' = NoFile

PowerLoss ==
    /\ pc' = [a \in Attempts |-> IF pc[a] \in Steps \ {"generating"} THEN "dead" ELSE pc[a]]
    /\ EntriesMixed \/ DirectoryLost
    /\ durable' = [temp |-> temp', final |-> final']
    /\ UNCHANGED <<content, data, seen>>

Attempt(a) ==
    \/ MakeDirectory(a) \/ CreateTemp(a) \/ WriteTemp(a) \/ Link(a) \/ FindPublished(a)
    \/ UnlinkTemp(a) \/ SyncDirectory(a) \/ Inspect(a) \/ Recheck(a) \/ WalkAgain(a)
    \/ TakeBack(a) \/ Break(a) \/ Clear(a) \/ ClearFails(a)

Next == PowerLoss \/ \E a \in Attempts : Attempt(a) \/ Crash(a)

Spec == Init /\ [][Next]_vars

-----------------------------------------------------------------------------
(* Properties                                                              *)

\* Every variable has its type.
TypeOK ==
    /\ pc \in [Attempts -> Steps \cup Ends]
    /\ content \in [Attempts -> Contents]
    /\ data \in [Attempts -> {"none", "partial", "synced"}]
    /\ directory \in {"absent", "made", "durable"}
    /\ temp \subseteq Attempts
    /\ final \in Attempts \cup {NoFile}
    /\ durable \in [temp : SUBSET Attempts, final : Attempts \cup {NoFile}]
    /\ seen \in [Attempts -> [inode : Attempts \cup {NoFile}, links : 0..2,
                              published : BOOLEAN, refused : BOOLEAN]]

\* Whatever attempts run at once, stop, break or lose power, the reserved name
\* holds no file or a whole one, whose bytes are on disk.
FinalIsWhole == final # NoFile => data[final] = "synced"

\* Its file is under the reserved name, and on disk.
Stays(a) == final = a /\ durable.final = a

\* When an attempt that published returns, its file is under the reserved name
\* and on disk, and no other attempt and no loss of power takes it away from
\* then on, unless the directory itself was made and is lost: the code syncs
\* the directory, never the entry of the directory in the one above.
PublishedSurvives ==
    [][\A a \in Attempts : pc'[a] = "done" /\ seen'[a].published =>
          \/ Stays(a)'
          \/ pc[a] = "done" /\ (DirectoryLost \/ ~Stays(a))]_vars

\* An attempt returns only for a whole file with its own bytes, its own or one
\* that it found.
AnswerIsWhole ==
    \A a \in Attempts : pc[a] = "done" =>
        /\ seen[a].inode # NoFile
        /\ data[seen[a].inode] = "synced"
        /\ content[seen[a].inode] = content[a]

\* The attempt that the reserved name belongs to takes it back, and fails.
TakenBack == pc[final] = "walking" /\ pc'[final] = "clearing" /\ final' = NoFile

\* The reserved name is never replaced.  It is freed by the attempt that
\* published and then cannot walk to the directory, and by the loss of an entry
\* that was not synced, the name's own or the directory's; then an older entry
\* that had been taken back may be there again.
WrittenOnce ==
    [][final # NoFile /\ final' # final =>
          \/ TakenBack
          \/ DirectoryLost
          \/ durable.final # final /\ final' \in {NoFile, durable.final}]_vars

\* Violated: an attempt that is refused found other bytes than its own; the
\* same bytes under the same path are reused.
SameDigestIsReused ==
    \A a \in Attempts : pc[a] = "failed" /\ seen[a].refused =>
        content[seen[a].inode] # content[a]

=============================================================================
