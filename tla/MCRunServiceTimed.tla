------------------------- MODULE MCRunServiceTimed --------------------------
(***************************************************************************)
(* Two worker processes on time; the threads and bounds come from the .cfg. *)
(***************************************************************************)
EXTENDS RunServiceTimed

CONSTANTS w1, w2, r1

TwoLoops == {<<w1, "loop">>, <<w2, "loop">>}
LoopAndRequest == {<<w1, "loop">>, <<w1, r1>>}

=============================================================================
