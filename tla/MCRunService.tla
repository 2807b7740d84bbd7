---------------------------- MODULE MCRunService ----------------------------
(***************************************************************************)
(* Two worker processes; the threads and the bounds come from the .cfg.    *)
(***************************************************************************)
EXTENDS RunService, TLC

CONSTANTS w1, w2, r1

CommitSymmetry == Permutations(Commits)

TwoLoops == {<<w1, "loop">>, <<w2, "loop">>}
LoopsAndRequest == {<<w1, "loop">>, <<w1, r1>>, <<w2, "loop">>}
LoopAndRequest == {<<w1, "loop">>, <<w1, r1>>}

=============================================================================
