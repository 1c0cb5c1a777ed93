---------------------------- MODULE MCTrackSeal -----------------------------
(***************************************************************************)
(* Instances of TrackSeal for TLC: two statements of ana's, the second the *)
(* continuation of the first, and one of bob's with the same operations.   *)
(***************************************************************************)
EXTENDS TrackSeal, TLC

CONSTANTS ana, bob, a1, a2, b2

MCOwner == (a1 :> ana) @@ (a2 :> ana) @@ (b2 :> bob)
MCOps == (a1 :> 1) @@ (a2 :> 2) @@ (b2 :> 2)

\* No action and no property names a request.
Interchangeable == Permutations(Procs)
=============================================================================
