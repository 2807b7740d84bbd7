--------------------------- MODULE MCRunRepository ---------------------------
(***************************************************************************)
(* One run, two workers, clocks of two ticks a second: every statement with *)
(* every argument, in every order.                                         *)
(***************************************************************************)
EXTENDS RunRepository

MCTimes == 0 .. 5
MCAttemptNos == 0 .. 3

=============================================================================
