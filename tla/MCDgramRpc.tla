----------------------------- MODULE MCDgramRpc -----------------------------
(***************************************************************************)
(* Instances of DgramRpc for TLC.  The first client's command is captured, *)
(* the second one's redirection gets lost.                                 *)
(***************************************************************************)
EXTENDS DgramRpc

CONSTANTS c1, c2

MCUserOf == [c \in Clients |-> "user"]
MCCutNames == [n \in Names |-> IF n = "user1" THEN {"user"} ELSE {}]
MCShellFate == [c \in Clients |-> IF c = c1 THEN "captured" ELSE "uncaptured"]
=============================================================================
