----------------------------- MODULE MCAutoApprove -----------------------------
(***************************************************************************)
(* Small instances of AutoApprove.                                         *)
(***************************************************************************)
EXTENDS AutoApprove, TLC

CONSTANTS r1, r2, g1, p1, p2, p3, p4, c1, c2, c3

\* A group of two requests, with two photos each.
MCRequestOf == p1 :> r1 @@ p2 :> r1 @@ p3 :> r2 @@ p4 :> r2
MCGroupOf == r1 :> g1 @@ r2 :> g1

ConfirmSymmetry == Permutations(Confirmers)
=============================================================================
