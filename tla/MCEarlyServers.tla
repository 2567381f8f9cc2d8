--------------------------- MODULE MCEarlyServers ---------------------------
(***************************************************************************)
(* An instance of EarlyServers for TLC.  The second client is not allowed  *)
(* to run commands.                                                        *)
(***************************************************************************)
EXTENDS EarlyServers

CONSTANTS c1, c2
=============================================================================
