--------------------------- MODULE MCGoogleLogin ---------------------------
(***************************************************************************)
(* GoogleLogin with two clients on one computer.                           *)
(***************************************************************************)
EXTENDS GoogleLogin

CONSTANTS c1, c2

MCClient == {c1, c2}
=============================================================================
