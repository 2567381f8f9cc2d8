----------------------------- MODULE MCServers ------------------------------
(***************************************************************************)
(* An instance of Servers for TLC.  The fourth choice of modes differs     *)
(* from the second only in who is who.                                     *)
(***************************************************************************)
EXTENDS Servers

CONSTANTS p1, p2, r1, r2, r3

MCModes == {[p \in {p1, p2} |-> "stream"], [p \in {p1, p2} |-> "dgram"],
            [p \in {p1, p2} |-> IF p = p1 THEN "stream" ELSE "dgram"]}

MCMsgs == {Starting, NoSocket, NoOption, NoBind, Listens, NoAccept, Stopped}
=============================================================================
