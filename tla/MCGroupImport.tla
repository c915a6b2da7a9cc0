---------------------------- MODULE MCGroupImport ----------------------------
(***************************************************************************)
(* Small instances of GroupImport: two batches, of two photos and of one.  *)
(***************************************************************************)
EXTENDS GroupImport, TLC
CONSTANTS w1, w2, p1, p2, p3
MCBatchOf == p1 :> 1 @@ p2 :> 1 @@ p3 :> 2
=============================================================================
