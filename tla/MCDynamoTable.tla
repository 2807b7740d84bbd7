---------------------------- MODULE MCDynamoTable ----------------------------
(***************************************************************************)
(* One run, two workers and two calls in progress.                         *)
(***************************************************************************)
EXTENDS DynamoTable, TLC

MCClocks == 0 .. 1
MCExpiries == 1 .. 2
MCAttemptNos == 1 .. 2

(* Nothing tells the two workers apart, or the two calls. *)
MCSymmetry == Permutations(Workers) \cup Permutations(Calls)

=============================================================================
