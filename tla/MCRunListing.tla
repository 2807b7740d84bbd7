---------------------------- MODULE MCRunListing ----------------------------
(***************************************************************************)
(* Up to three runs, one on a page, and instants 0 .. 2 at two ticks a     *)
(* second: two instants of one second, and one of the next.                *)
(***************************************************************************)
EXTENDS RunListing

=============================================================================
