----------------------------- MODULE StreamRpc -----------------------------
(***************************************************************************)
(* The server of 025final in its stream branch (server.c:117-188, 250-254) *)
(* with the clients of 025final/myRPC-client/src/client.c in stream mode,  *)
(* over TCP sockets as these two programs use them.                        *)
(*                                                                         *)
(* The kernel's part: a bounded queue of connections that were not yet     *)
(* accepted; request bytes that arrive in pieces; a close that becomes an  *)
(* end of file or a reset; a socket that stays open as long as any process *)
(* holds it, the commands the server has started included.                 *)
(***************************************************************************)
EXTENDS Handler, Sequences

CONSTANT Backlog    \* the second argument of listen

ASSUME BacklogAssumption == Backlog \in Nat

VARIABLES
  queue,     \* established connections waiting for accept, oldest first
  conn,      \* the server's end of each client's connection
  cl,        \* where the main() of each client is
  sent,      \* clients whose send has returned
  arrived,   \* how much of each request has reached the server's open socket
             \* (not counted further once recv has returned)
  down,      \* the answer sent to each client
  fin        \* how each client's connection was ended from the server's end

netVars == <<queue, conn, cl, sent, arrived, down, fin>>
vars == <<srvVars, netVars>>

ConnStates == {"none", "queued", "accepted", "held", "closed"}
ClientStates == {"connect", "send", "recv", "replied", "eof", "failed", "killed"}
Ended == {"replied", "eof", "failed", "killed"}
Ends == {"none", "fin", "rst"}

Init ==
  /\ HandlerInit
  /\ queue = <<>>
  /\ conn = [c \in Clients |-> "none"]
  /\ cl = [c \in Clients |-> "connect"]
  /\ sent = {}
  /\ arrived = [c \in Clients |-> NoBytes]
  /\ down = [c \in Clients |-> NoReply]
  /\ fin = [c \in Clients |-> "none"]

-----------------------------------------------------------------------------
(* Slips the definitions below could contain.                              *)

RecvNothing_NoClose ==      \* continue without close(connfd)
  /\ pc = "recv"
  /\ cl[peer] = "killed" /\ peer \notin sent
  /\ EndIteration
  /\ UNCHANGED <<stop, user_conf, jobVars, boots, crashed, execs, late, netVars>>

CloseConn_NoClose ==        \* the answer is sent and connfd forgotten
  /\ pc = "close"
  /\ EndIteration
  /\ UNCHANGED <<stop, user_conf, jobVars, boots, crashed, execs, late, netVars>>

-----------------------------------------------------------------------------
(* Sockets.                                                                *)

(* A process that inherited the listening socket keeps it listening.       *)
Listening == pc # "off" \/ jobs # {}

(* Request bytes that no recv will read turn a close into a reset; bytes   *)
(* that arrive after the close are answered by one.                        *)
EndsOf(c) ==
  IF c = peer /\ pc = "recv" /\ arrived[c] # NoBytes THEN {"rst"}
  ELSE IF c \in sent /\ arrived[c] # Whole THEN {"fin", "rst"}
  ELSE {"fin"}

(* The server or a command lets go of the connections in S, after jobs'    *)
(* and pc' are known.  A connection ends when nobody holds it any more;    *)
(* when nobody holds the listening socket the queue is reset.              *)
LetGo(S) ==
  LET reset == IF pc' = "off" /\ jobs' = {}
               THEN {c \in Clients : conn[c] = "queued"} ELSE {}
      ended == S \ jobs'
  IN /\ queue' = IF reset = {} THEN queue ELSE <<>>
     /\ conn' = [c \in Clients |-> IF c \in reset \union ended THEN "closed"
                                   ELSE IF c \in S THEN "held" ELSE conn[c]]
     /\ fin' \in {f \in [Clients -> Ends] : \A c \in Clients :
                    IF c \in reset THEN f[c] = "rst"
                    ELSE IF c \in ended THEN f[c] \in EndsOf(c)
                    ELSE f[c] = fin[c]}
     /\ arrived' = [c \in Clients |-> IF c \in reset \union ended THEN NoBytes
                                      ELSE arrived[c]]
     /\ UNCHANGED <<cl, sent, down>>

-----------------------------------------------------------------------------
(* The client: one action per system call of its main().                   *)

ClientGoes(c, label) == cl' = [cl EXCEPT ![c] = label]

(* connect returns 0: the connection is in the queue, accepted or not.     *)
Connect(c) ==
  /\ cl[c] = "connect"
  /\ Listening /\ Len(queue) <= Backlog
  /\ queue' = Append(queue, c)
  /\ conn' = [conn EXCEPT ![c] = "queued"]
  /\ ClientGoes(c, "send")
  /\ UNCHANGED <<srvVars, sent, arrived, down, fin>>

(* Refused, or given up after the kernel's retries against a full queue.   *)
ConnectFail(c) ==
  /\ cl[c] = "connect"
  /\ ~Listening \/ Len(queue) > Backlog
  /\ ClientGoes(c, "failed")
  /\ UNCHANGED <<srvVars, queue, conn, sent, arrived, down, fin>>

SendReq(c) ==
  /\ cl[c] = "send"
  /\ \/ /\ fin[c] = "rst"
        /\ ClientGoes(c, "failed")
        /\ UNCHANGED <<sent, fin>>
     \/ /\ fin[c] # "rst"
        /\ ClientGoes(c, "recv")
        /\ sent' = sent \union {c}
        /\ IF conn[c] = "closed"
           THEN \E e \in {"fin", "rst"} : fin' = [fin EXCEPT ![c] = e]
           ELSE UNCHANGED fin
  /\ UNCHANGED <<srvVars, queue, conn, arrived, down>>

(* One recv takes whatever part of the reply has come.                     *)
RecvReply(c) ==
  /\ cl[c] = "recv"
  /\ HasBytes(down[c])
  /\ ClientGoes(c, "replied")
  /\ UNCHANGED <<srvVars, queue, conn, sent, arrived, down, fin>>

(* recv returns 0, which client.c treats as a reply.                       *)
RecvEof(c) ==
  /\ cl[c] = "recv"
  /\ fin[c] = "fin" /\ ~HasBytes(down[c])
  /\ ClientGoes(c, "eof")
  /\ UNCHANGED <<srvVars, queue, conn, sent, arrived, down, fin>>

(* recv returns -1; a reset may overtake or discard the reply.             *)
RecvReset(c) ==
  /\ cl[c] = "recv"
  /\ fin[c] = "rst"
  /\ ClientGoes(c, "failed")
  /\ UNCHANGED <<srvVars, queue, conn, sent, arrived, down, fin>>

(* The user interrupts the client.                                         *)
Kill(c) ==
  /\ cl[c] \notin Ended
  /\ ClientGoes(c, "killed")
  /\ UNCHANGED <<srvVars, queue, conn, sent, arrived, down, fin>>

(* TCP delivers more of the request while the server has yet to read it.   *)
Arrive(c) ==
  /\ c \in sent
  /\ conn[c] = "queued" \/ (conn[c] = "accepted" /\ pc = "recv")
  /\ \E level \in Levels :
       /\ level > arrived[c]
       /\ arrived' = [arrived EXCEPT ![c] = level]
  /\ UNCHANGED <<srvVars, queue, conn, cl, sent, down, fin>>

ClientStep(c) ==
  Connect(c) \/ ConnectFail(c) \/ SendReq(c) \/ RecvReply(c) \/ RecvEof(c) \/ RecvReset(c)

-----------------------------------------------------------------------------
(* The server.                                                             *)

(* bind fails, and the new process exits, while a command left by an       *)
(* earlier one still holds the listening socket.                           *)
BootStream == Boot /\ jobs = {} /\ UNCHANGED netVars

Accept ==
  /\ pc = "accept"
  /\ queue # <<>>
  /\ peer' = Head(queue)
  /\ queue' = Tail(queue)
  /\ conn' = [conn EXCEPT ![Head(queue)] = "accepted"]
  /\ pc' = "recv"
  /\ TakesUp
  /\ UNCHANGED <<stop, req, resp, user_conf, jobVars, boots, crashed, execs, okNames>>
  /\ UNCHANGED <<cl, sent, arrived, down, fin>>

(* No descriptor or memory: logged, and the loop goes round.               *)
AcceptFail ==
  /\ pc = "accept"
  /\ pc' = "check"
  /\ UNCHANGED <<stop, reqVars, user_conf, jobVars, histVars, netVars>>

(* The one recv of a request, taken for the whole of it.                   *)
Recv ==
  /\ pc = "recv"
  /\ arrived[peer] # NoBytes
  /\ \E name \in {UserOf[peer]} \union
                 (IF arrived[peer] = NameOnly THEN CutNames[UserOf[peer]] ELSE {}) :
       Parsed(name, arrived[peer])
  /\ UNCHANGED <<stop, peer, resp, user_conf, jobVars, boots, crashed, execs, late, netVars>>

(* n <= 0: the client is gone without having sent anything.                *)
RecvNothing ==
  /\ pc = "recv"
  /\ cl[peer] = "killed" /\ peer \notin sent
  /\ EndIteration
  /\ UNCHANGED <<stop, user_conf, jobVars, boots, crashed, execs, late>>
  /\ LetGo({peer})

(* send, then close(connfd), which a command left behind may still hold.   *)
SendReply ==
  /\ pc = "send"
  /\ down' = [down EXCEPT ![peer] = resp]
  /\ pc' = "close"
  /\ UNCHANGED <<stop, reqVars, user_conf, jobVars, histVars>>
  /\ UNCHANGED <<queue, conn, cl, sent, arrived, fin>>

CloseConn ==
  /\ pc = "close"
  /\ EndIteration
  /\ UNCHANGED <<stop, user_conf, jobVars, boots, crashed, execs, late>>
  /\ LetGo({peer})

(* close(sockfd) and return.                                               *)
Shutdown ==
  /\ pc = "shutdown"
  /\ ProcessGone /\ UNCHANGED crashed
  /\ LetGo({})

(* SIGKILL, or a fault.                                                    *)
Crash ==
  /\ pc # "off"
  /\ ProcessGone /\ crashed' = TRUE
  /\ LetGo({peer} \ {None})

(* The last process of a command ends and its descriptors are closed.      *)
JobGone(c) ==
  /\ JobEnds(c)
  /\ LetGo({d \in {c} : conn[d] = "held"})

ServerStep ==
  \/ Check("accept") /\ UNCHANGED netVars
  \/ Accept
  \/ Recv
  \/ RecvNothing
  \/ HandlerStep /\ UNCHANGED netVars
  \/ SendReply
  \/ CloseConn
  \/ Shutdown

Next ==
  \/ BootStream
  \/ ServerStep
  \/ AcceptFail
  \/ Crash
  \/ HandlerEnv /\ UNCHANGED netVars
  \/ \E c \in Clients : ClientStep(c) \/ Arrive(c) \/ Kill(c) \/ JobGone(c)

(* A running process gets on, TCP delivers, connect returns, commands end. *)
(* accept fails for want of resources now and then, not for ever.  Nobody  *)
(* has to start, stop, kill or crash anything.                             *)
Fairness ==
  /\ WF_vars(ServerStep) /\ SF_vars(Accept)
  /\ \A c \in Clients :
       WF_vars(ClientStep(c)) /\ WF_vars(Arrive(c)) /\ WF_vars(JobGone(c))

Spec == Init /\ [][Next]_vars /\ Fairness

-----------------------------------------------------------------------------
TypeOK ==
  /\ HandlerTypeOK
  /\ queue \in Seq(Clients)
  /\ conn \in [Clients -> ConnStates]
  /\ cl \in [Clients -> ClientStates]
  /\ sent \in SUBSET Clients
  /\ arrived \in [Clients -> Levels]
  /\ down \in [Clients -> Replies]
  /\ fin \in [Clients -> Ends]

(* The command of one request is started at most once, whatever restarts   *)
(* and cut-off reads come between (server.c:132-163: nothing is retried).  *)
AtMostOnce == \A c \in Clients : execs[c] <= 1

(* A client that was sent a refusal has not had a command started.         *)
DeniedNeverRan == \A c \in Clients : down[c].kind = "denied" => execs[c] = 0

(* The name of the output file is shared by all requests, yet a client is  *)
(* sent only its own command's output until the server has crashed once.   *)
OwnOutputUntilCrash ==
  ~crashed => \A c \in Clients : down[c].kind = "output" => down[c].of = {c}

(* Every connection the server holds is the one it is serving: each way    *)
(* out of the loop body closes connfd.  What is still in use elsewhere is  *)
(* held by a live command, and what is queued can still be accepted or     *)
(* will be reset: somebody holds the listening socket.                     *)
NoConnLeak ==
  \A c \in Clients :
    /\ conn[c] = "accepted" => c = peer /\ ~Idle
    /\ conn[c] = "held" => c \in jobs
    /\ conn[c] = "queued" => Listening

(* A client that reports an empty answer was sent an empty answer, until   *)
(* the server has crashed once.                                            *)
EofIsEmptyUntilCrash ==
  ~crashed => \A c \in Clients : cl[c] = "eof" => down[c].kind = "empty"

(* A stop request is carried out, unless accept waits with nobody in the   *)
(* queue: signal() installs a restarting handler, so accept goes on.       *)
Starved == pc = "accept" /\ queue = <<>>
StopDrains == (stop /\ ~Starved) ~> pc = "off"

(* The comments at server.c:19 and :57 say that the handlers are there for *)
(* an orderly end of the server: a stop request ends it.                   *)
StopEnds == stop ~> pc = "off"

(* The comment at server.c:156 says that the request's output files are    *)
(* temporary files created for it: what is sent back is its own output.    *)
OwnOutput == \A c \in Clients : down[c].kind = "output" => down[c].of = {c}

(* The log message at client.c:170 says that the server's response was     *)
(* received: a client that gets there was sent one.                        *)
ReceivedMeansSent == \A c \in Clients : cl[c] = "eof" => down[c].kind # "none"

Service == INSTANCE RpcService WITH
  ran <- {c \in Clients : execs[c] > 0},
  answer <- [c \in Clients |-> IF HasBytes(down[c]) THEN down[c] ELSE NoReply],
  outcome <- [c \in Clients |-> CASE cl[c] \notin Ended -> "waiting"
                                  [] cl[c] = "replied" -> down[c].kind
                                  [] OTHER -> "unanswered"]

(* Server and clients together keep what RpcService promises of every step *)
(* (server.c:118-189, client.c:99-124),                                    *)
ImplementsService == Service!Init /\ [][Service!Next]_Service!vars

(* and every client ends, as it promises too: whatever a client waits for  *)
(* comes, or its connection ends.                                          *)
ClientsEnd == \A c \in Clients : <>(cl[c] \in Ended)
=============================================================================
