---------------------------- MODULE MCStreamRpc ----------------------------
(***************************************************************************)
(* Instances of StreamRpc for TLC.  The users are "user1" and "user": the  *)
(* first can be cut off to read as the second, which user.conf allows.     *)
(***************************************************************************)
EXTENDS StreamRpc

CONSTANTS c1, c2, c3

MCUserOf == [c \in Clients |-> IF c = c1 THEN "user1" ELSE "user"]
MCCutNames == [n \in Names |-> IF n = "user1" THEN {"user"} ELSE {}]

(* For liveness: one user, whose name is never cut.                        *)
MCOneUser == [c \in Clients |-> "user"]
MCNoCuts == [n \in Names |-> {}]

(* c1's command is the ordinary one, c2's redirection gets lost and it     *)
(* stays in the background, c3's is a syntax error.                        *)
MCShellFate ==
  [c \in Clients |-> IF c = c1 THEN "captured"
                     ELSE IF c = c2 THEN "uncaptured" ELSE "refused"]
=============================================================================
