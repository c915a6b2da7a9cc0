---------------------------- MODULE MCDirectUpload ----------------------------
(***************************************************************************)
(* Small instances of DirectUpload.                                        *)
(***************************************************************************)
EXTENDS DirectUpload, TLC

CONSTANTS c1, c2, p1, p2

Interchangeable == Permutations({c1, c2}) \cup Permutations({p1, p2})
=============================================================================
