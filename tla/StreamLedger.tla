--------------------------- MODULE StreamLedger ---------------------------
(***************************************************************************)
(* What the step runs of a project promise to whoever reads its artifacts, *)
(* without sessions, locks, definitions or reruns: a batch takes from what *)
(* is stored and announces newer versions of its streams, in one step; it  *)
(* ends once, by storing all of them or none; and the batches of a run     *)
(* that read what changed, or what such a batch wrote, are marked.         *)
(***************************************************************************)
EXTENDS Naturals

CONSTANTS
    Batches,   \* step runs
    Given      \* references that are stored from the start

VARIABLES
    stored,    \* references people can read
    batches    \* [batch -> run, reads, pins, writes, state]

vars == <<stored, batches>>

Init ==
    /\ stored = Given
    /\ batches = [b \in {} |-> 0]

Known == stored \cup UNION {batches[b].writes : b \in DOMAIN batches}

\* One version of each stream, above all that is stored or announced.
Newest(writes) ==
    /\ writes # {}
    /\ \A w \in writes, ref \in Known \cup writes :
          ref.stream = w.stream => ref = w \/ ref.version < w.version
    /\ writes \cap Known = {}

\* The batch is any that reads and pins what is stored.
Reserve(b) ==
    /\ b \in DOMAIN batches' \ DOMAIN batches
    /\ batches' = [a \in DOMAIN batches \cup {b} |->
          IF a = b THEN batches'[b] ELSE batches[a]]
    /\ batches'[b].reads \cup batches'[b].pins \subseteq stored
    /\ Newest(batches'[b].writes)
    /\ batches'[b].state = "pending"
    /\ UNCHANGED stored

Settle(b, state) ==
    /\ batches[b].state = "pending"
    /\ batches' = [batches EXCEPT ![b].state = state]

Deliver(b) ==
    /\ Settle(b, "succeeded")
    /\ stored' = stored \cup batches[b].writes

GiveUp(b) ==
    /\ Settle(b, "failed")
    /\ UNCHANGED stored

InState(r, state) ==
    {b \in DOMAIN batches : batches[b].run = r /\ batches[b].state = state}

WrittenBy(some) == UNION {batches[b].writes : b \in some}

\* A reference changed: every delivered batch of the run that reads it, or what
\* a marked one wrote, is marked, and no other.
Mark(r, ref) ==
    /\ \E hit \in SUBSET InState(r, "succeeded") :
          /\ hit # {}
          /\ \A b \in InState(r, "succeeded") \ hit :
                batches[b].reads \cap ({ref} \cup WrittenBy(hit)) = {}
          /\ \A b \in hit :
                batches[b].reads \cap ({ref} \cup
                    WrittenBy((hit \cup InState(r, "invalidated")) \ {b})) # {}
          /\ batches' = [b \in DOMAIN batches |->
                IF b \in hit THEN [batches[b] EXCEPT !.state = "invalidated"]
                ELSE batches[b]]
    /\ UNCHANGED stored

Next ==
    \/ \E b \in Batches : Reserve(b)
    \/ \E b \in DOMAIN batches : Deliver(b) \/ GiveUp(b)
    \/ \E r \in {batches[b].run : b \in DOMAIN batches}, ref \in stored : Mark(r, ref)

Spec == Init /\ [][Next]_vars

=============================================================================
