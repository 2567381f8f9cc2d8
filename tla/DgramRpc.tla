------------------------------ MODULE DgramRpc ------------------------------
(***************************************************************************)
(* The server of 025final in its datagram branch (server.c:190-247) with   *)
(* the clients of client.c in datagram mode.  A datagram is whole, but the *)
(* network may lose it, deliver it twice, or late and out of order; the    *)
(* client sends once and waits without a limit, on a socket that is not    *)
(* connected and takes what is sent to its port by anybody.  The kernel    *)
(* gives a port to another client once its owner has ended.                *)
(***************************************************************************)
EXTENDS Handler

CONSTANTS
  Ports,      \* ports the kernel gives to clients' sockets
  MaxCopies   \* bound: how often the network can deliver one request

ASSUME DgramAssumption == MaxCopies \in Nat \ {0} /\ None \notin Ports

VARIABLES
  cl,       \* where the main() of each client is
  port,     \* the port of each client's socket
  reqs,     \* copies of requests on the way to the server
  replies,  \* answers on their way: to which port, answering whom, what
  got       \* the datagram each client has received

netVars == <<cl, port, reqs, replies, got>>
vars == <<srvVars, netVars>>

Ended == {"replied", "failed", "killed"}
ClientStates == {"send", "recv"} \union Ended
Nothing == [port |-> None, to |-> None, body |-> NoReply]

Init ==
  /\ HandlerInit
  /\ cl = [c \in Clients |-> "send"]
  /\ port = [c \in Clients |-> None]
  /\ reqs = {} /\ replies = {}
  /\ got = [c \in Clients |-> Nothing]

-----------------------------------------------------------------------------
(* A slip SendTo could contain: the loop ends before the answer is sent.   *)
SendTo_Stops ==
  /\ pc = "send"
  /\ replies' = IF stop THEN replies
                ELSE replies \union {[port |-> port[peer], to |-> peer, body |-> resp]}
  /\ EndIteration
  /\ UNCHANGED <<stop, user_conf, jobVars, boots, crashed, execs, late>>
  /\ UNCHANGED <<cl, port, reqs, got>>

-----------------------------------------------------------------------------
(* The client.                                                             *)

ClientGoes(c, label) == cl' = [cl EXCEPT ![c] = label]

(* sendto gives the socket a port no living client has.  All the copies    *)
(* the network may make are under way at once; it may lose any of them.    *)
SendReq(c) ==
  /\ cl[c] = "send"
  /\ \/ /\ \E p \in Ports \ {port[d] : d \in {e \in Clients : cl[e] = "recv"}} :
             port' = [port EXCEPT ![c] = p]
        /\ reqs' = reqs \union ({c} \X (1 .. MaxCopies))
        /\ ClientGoes(c, "recv")
     \/ /\ ClientGoes(c, "failed")
        /\ UNCHANGED <<port, reqs>>
  /\ UNCHANGED <<srvVars, replies, got>>

(* recvfrom takes any datagram sent to the port, an empty one included; a  *)
(* copy of it may be still to come.                                        *)
ReceiveReply(c) ==
  /\ cl[c] = "recv"
  /\ \E r \in replies :
       /\ r.port = port[c]
       /\ got' = [got EXCEPT ![c] = r]
       /\ replies' \in {replies, replies \ {r}}
  /\ ClientGoes(c, "replied")
  /\ UNCHANGED <<srvVars, port, reqs>>

Kill(c) ==
  /\ cl[c] \notin Ended
  /\ ClientGoes(c, "killed")
  /\ UNCHANGED <<srvVars, port, reqs, replies, got>>

(* The network drops a datagram, or the kernel does: no socket is bound,   *)
(* its buffer is full, or it is closed.                                    *)
Lose ==
  /\ \/ \E q \in reqs : reqs' = reqs \ {q} /\ UNCHANGED replies
     \/ \E r \in replies : replies' = replies \ {r} /\ UNCHANGED reqs
  /\ UNCHANGED <<srvVars, cl, port, got>>

-----------------------------------------------------------------------------
(* The server.                                                             *)

RecvFrom ==
  /\ pc = "recvfrom"
  /\ \E q \in reqs :
       /\ peer' = q[1]
       /\ reqs' = reqs \ {q}
       /\ Parsed(UserOf[q[1]], Whole)
  /\ TakesUp
  /\ UNCHANGED <<stop, resp, user_conf, jobVars, boots, crashed, execs>>
  /\ UNCHANGED <<cl, port, replies, got>>

(* n <= 0.                                                                 *)
RecvFromFail ==
  /\ pc = "recvfrom"
  /\ pc' = "check"
  /\ UNCHANGED <<stop, reqVars, user_conf, jobVars, histVars, netVars>>

SendTo ==
  /\ pc = "send"
  /\ replies' = replies \union {[port |-> port[peer], to |-> peer, body |-> resp]}
  /\ EndIteration
  /\ UNCHANGED <<stop, user_conf, jobVars, boots, crashed, execs, late>>
  /\ UNCHANGED <<cl, port, reqs, got>>

Shutdown ==
  /\ pc = "shutdown"
  /\ ProcessGone /\ UNCHANGED crashed
  /\ UNCHANGED netVars

Crash ==
  /\ pc # "off"
  /\ ProcessGone /\ crashed' = TRUE
  /\ UNCHANGED netVars

ServerStep ==
  \/ Check("recvfrom") /\ UNCHANGED netVars
  \/ RecvFrom
  \/ HandlerStep /\ UNCHANGED netVars
  \/ SendTo
  \/ Shutdown

Next ==
  \/ Boot /\ UNCHANGED netVars
  \/ ServerStep
  \/ RecvFromFail
  \/ Crash
  \/ HandlerEnv /\ UNCHANGED netVars
  \/ \E c \in Clients : JobEnds(c) /\ UNCHANGED netVars
  \/ \E c \in Clients : SendReq(c) \/ ReceiveReply(c) \/ Kill(c)
  \/ Lose

(* A running server gets on and commands end.  Nothing is assumed of the   *)
(* network.                                                                *)
Fairness == WF_vars(ServerStep)

Spec == Init /\ [][Next]_vars /\ Fairness

-----------------------------------------------------------------------------
TypeOK ==
  /\ HandlerTypeOK
  /\ cl \in [Clients -> ClientStates]
  /\ port \in [Clients -> Ports \union {None}]
  /\ reqs \in SUBSET (Clients \X (1 .. MaxCopies))
  /\ replies \in SUBSET [port : Ports, to : Clients, body : Replies]
  /\ got \in [Clients -> {Nothing} \union [port : Ports, to : Clients, body : Replies]]

(* Each copy of a request that the network delivers starts its command at  *)
(* most once, whatever restarts come between (server.c:193-223).           *)
OncePerCopy == \A c \in Clients : execs[c] <= MaxCopies

(* Output sent in answer to a request was written by its own command,      *)
(* which was started, until the server has crashed once; although all      *)
(* requests share one file (server.c:217-238).                             *)
OwnOutputUntilCrash ==
  ~crashed => \A r \in replies :
    r.body.kind = "output" => r.body.of = {r.to} /\ execs[r.to] > 0

(* A stop request that does not find the server in recvfrom ends it.       *)
StopDrains == (stop /\ pc # "recvfrom") ~> pc = "off"

(* A request that was taken up is answered, a stop request in the meantime *)
(* or not, unless the server crashes (server.c:193-246).                   *)
TakenUpIsAnswered ==
  \A c \in Clients :
    (pc = "auth" /\ peer = c) ~> (crashed \/ \E r \in replies : r.to = c)

(* The comment at server.c:245 says that the answer is sent to the client: *)
(* what a client receives answers its own request.                         *)
OwnAnswer == \A c \in Clients : cl[c] = "replied" => got[c].to = c

Service == INSTANCE DgramService WITH
  copies <- reqs,
  hand <- peer,
  stage <- CASE pc \in {"auth", "exec"} -> "taken"
             [] pc \in {"running", "read"} -> "ran"
             [] pc = "send" -> IF resp.kind = "denied" THEN "taken" ELSE "ran"
             [] OTHER -> "none",
  runs <- execs,
  answers <- {[to |-> r.to, body |-> r.body] : r \in replies},
  outcome <- [c \in Clients |-> CASE cl[c] = "send" -> "new"
                                  [] cl[c] = "recv" -> "waiting"
                                  [] cl[c] = "replied" -> got[c].body.kind
                                  [] OTHER -> "unanswered"]

(* Seen from outside, server and clients do only what DgramService allows: *)
(* whatever the network and the restarts do, a copy is answered once, and  *)
(* refused only if its command was not started (server.c:193-246).         *)
ImplementsService == Service!Spec
=============================================================================
