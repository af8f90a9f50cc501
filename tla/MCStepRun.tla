----------------------------- MODULE MCStepRun -----------------------------
(***************************************************************************)
(* Two nodes of short_video_v1: the asset manifest with its shots, and a   *)
(* cover that reads the manifest.  Its other input, the storyboard, is     *)
(* left out: with it no dependence would go through a second step.         *)
(***************************************************************************)
EXTENDS StepRunProperties, TLC

AssetBindings == [assets |-> {"storyboard"}, cover |-> {"manifest"}]
AssetOutputs == [assets |-> <<"manifest", "shot1", "shot2">>, cover |-> <<"cover">>]

\* One shot is enough where the order of locks is the question.
OneShot == [assets |-> <<"manifest", "shot1">>]

Symmetry == Permutations(Runs) \cup Permutations(StepIds)
       \cup Permutations(Sessions) \cup Permutations(Keys)

=============================================================================
