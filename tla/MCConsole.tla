----------------------------- MODULE MCConsole -----------------------------
(***************************************************************************)
(* Small instances of the web console for TLC.                             *)
(***************************************************************************)
EXTENDS ConsoleProperties, TLC

\* The stored project is rejected and generated a second time while the page
\* is open; the one created there stays as it is.
OneProjectMoves ==
    [p \in Projects |-> IF p \in Existing THEN 6 ELSE 1]

\* What a call of an overtaken load has yet to read is of no consequence: its
\* answer and its failure do the same.  Only answers that were under way when
\* their load was overtaken are followed to the page.
OvertakenReadNoMore ==
    \A c \in calls' : c.load < request => c \in calls \/ c.step = "sent"

=============================================================================
