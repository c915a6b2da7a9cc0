-------------------------- MODULE MCPhotoRetention --------------------------
(***************************************************************************)
(* Small instances of PhotoRetention: a directly uploaded photo and one    *)
(* from Drive.                                                             *)
(***************************************************************************)
EXTENDS PhotoRetention, TLC

CONSTANTS p1, p2, w1, w2
=============================================================================
