--------------------------- MODULE MCMobileSessions ---------------------------
(***************************************************************************)
(* Model values for MobileSessions: two calls of one user with two devices.*)
(* A limit of one session makes the login on the second device evict.      *)
(***************************************************************************)
EXTENDS MobileSessions

CONSTANTS c1, c2, d1, d2

=============================================================================
