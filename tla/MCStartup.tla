----------------------------- MODULE MCStartup ------------------------------
(***************************************************************************)
(* Startup with two server processes and every fault of PostgreSQL.        *)
(***************************************************************************)
EXTENDS Startup

CONSTANTS s1, s2

MCServer == {s1, s2}
MCFault == {"error", "lost", "in doubt"}
=============================================================================
