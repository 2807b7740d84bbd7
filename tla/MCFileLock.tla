----------------------------- MODULE MCFileLock -----------------------------
(***************************************************************************)
(* Processes p1 and p2 on one host, p3 on another that shares the cache    *)
(* directory.  p1 may die.                                                 *)
(***************************************************************************)
EXTENDS FileLock, TLC

CONSTANTS p1, p2, p3, here, there

OneEach == {<<p1, 1>>, <<p2, 1>>, <<p3, 1>>}
TwoSurvivors == {<<p1, 1>>, <<p2, 1>>, <<p2, 2>>}
MCHost == p1 :> here @@ p2 :> here @@ p3 :> there

=============================================================================
