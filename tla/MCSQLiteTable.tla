---------------------------- MODULE MCSQLiteTable ----------------------------
(***************************************************************************)
(* Two processes, one with two connections, and two runs.                  *)
(***************************************************************************)
EXTENDS SQLiteTable, TLC

CONSTANTS p1, p2, r1, r2

MCConns == {<<p1, 1>>, <<p1, 2>>, <<p2, 1>>}
MCSymmetry == Permutations(RunIds)

=============================================================================
