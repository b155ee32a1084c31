------------------------------ MODULE MCReopen ------------------------------
(***************************************************************************)
(* Instance of Reopen for TLC: two files of one piece each.                 *)
(***************************************************************************)
EXTENDS Reopen, TLC

CONSTANTS f1, f2, p1, p2

Layout == (p1 :> f1) @@ (p2 :> f2)

\* Sessions are alike, and so are the two files, each with its piece.
SwapFiles == (f1 :> f2) @@ (f2 :> f1) @@ (p1 :> p2) @@ (p2 :> p1)
Symmetry  == Permutations(Sessions) \cup {SwapFiles}
=============================================================================
