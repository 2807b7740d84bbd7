---------------------------- MODULE MCSourceCache ----------------------------
(***************************************************************************)
(* A run whose first attempt may crash and be followed by one on the same  *)
(* host or on another, next to a run on the first host, and a remote with  *)
(* two branches: n moves, goes away, becomes a tag, or becomes the default *)
(* in the place of m.  Commit c2 is a successor of c1.                     *)
(***************************************************************************)
EXTENDS SourceCache, TLC

CONSTANTS h1, h2, r1, r2, n, m, c1, c2

MCHistory == c1 :> {c1} @@ c2 :> {c1, c2}

MCRemote ==
  [at |-> [ref \in Refs |-> IF ref.kind = "branch" THEN c1 ELSE Nil], default |-> m]

MCMoves == Branch(n) :> {c2, Nil} @@ Tag(n) :> {c1}

MCRequests ==
  r1 :> {[form |-> "name", of |-> n], [form |-> "HEAD", of |-> Nil], [form |-> "commit", of |-> c2]}
  @@ r2 :> {[form |-> "branch", of |-> n]}

MCPlaces == r1 :> <<{h1}, {h1, h2}>> @@ r2 :> <<{h1}>>

=============================================================================
