--------------------------- MODULE MCPhotoConsent ---------------------------
(***************************************************************************)
(* Small instances of PhotoConsent.                                        *)
(***************************************************************************)
EXTENDS PhotoConsent, TLC

CONSTANTS u1, u2, d1, d2, c1, c2
=============================================================================
