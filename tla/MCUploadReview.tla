---------------------------- MODULE MCUploadReview ----------------------------
(***************************************************************************)
(* Small instances of UploadReview.                                        *)
(***************************************************************************)
EXTENDS UploadReview, TLC

CONSTANTS r1, r2, g1, p1, p2

\* A group of two requests with a photo each.
PairRequestOf == p1 :> r1 @@ p2 :> r2
PairGroupOf == r1 :> g1 @@ r2 :> g1

\* A request with two photos, outside any group.
SoloRequestOf == p1 :> r1 @@ p2 :> r1
SoloGroupOf == r1 :> NoGroup

\* The same request in a group.
SoloInGroup == r1 :> g1

\* Calls of the same kind are interchangeable.
CallSymmetry == Permutations(Approvers) \cup Permutations(Rejecters)
=============================================================================
