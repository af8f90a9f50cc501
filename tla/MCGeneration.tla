---------------------------- MODULE MCGeneration ----------------------------
(***************************************************************************)
(* Small instances of the generation lifecycle for TLC.                    *)
(***************************************************************************)
EXTENDS GenerationProperties, TLC

\* Workers, job ids, digests and sessions are interchangeable; keys too.
Symmetry == Permutations(Workers) \cup Permutations(JobIds)
       \cup Permutations(Clients) \cup Permutations(Keys)

\* Without sessions, whose idle state names a project, projects are as well.
SymmetryOfProjects == Symmetry \cup Permutations(Projects)

=============================================================================
