-------------------------- MODULE StreamRpcProofs --------------------------
(***************************************************************************)
(* Theorems about StreamRpc, for any clients, users, backlog and number of *)
(* restarts.  The inductive invariant is split by subject:                 *)
(*                                                                         *)
(*   TypeOK     types                                                      *)
(*   LateInv    the flag and the count of requests taken up after it       *)
(*   HoldInv    who holds which connection, and what the queue holds       *)
(*   ServeInv   how far the request in hand has been executed              *)
(*   AllowInv   whose request is in hand, and who was allowed since        *)
(*   OutInv     whose output lies in the shared file, until a crash        *)
(*   RanInv     bytes and background processes belong to started commands  *)
(*   EofInv     how connections end, and what was sent before, until a     *)
(*              crash                                                      *)
(*                                                                         *)
(* The first six need at most TypeOK and HoldInv; EofInv needs ServeInv    *)
(* and RanInv too.  The properties about clients that are already served   *)
(* follow from these step by step (OverStep).                              *)
(***************************************************************************)
EXTENDS StreamRpc, TLAPS

LateInv ==
  /\ late <= 1
  /\ pc = "accept" \/ (pc # "off" /\ ~stop) => late = 0

QueueInv ==
  /\ \A i \in 1 .. Len(queue) : conn[queue[i]] = "queued"
  /\ \A i, j \in 1 .. Len(queue) : queue[i] = queue[j] => i = j

HoldInv ==
  /\ peer # None => conn[peer] = "accepted"
  /\ NoConnLeak
  /\ \A c \in Clients : cl[c] = "connect" => conn[c] = "none"
  /\ QueueInv

ServeInv ==
  /\ \A c \in Clients : conn[c] \in {"none", "queued"} => execs[c] = 0 /\ down[c] = NoReply
  /\ pc \in {"recv", "auth", "exec"} => execs[peer] = 0
  /\ peer # None /\ pc # "close" => down[peer] = NoReply
  /\ pc = "send" /\ resp.kind = "denied" => execs[peer] = 0

AllowInv ==
  /\ pc = "auth" => user_conf \in okNames
  /\ pc \in {"auth", "exec"} /\ req.level >= CommandCut => req.name = UserOf[peer]
  /\ pc \in {"exec", "running"} /\ req.level >= CommandCut => UserOf[peer] \in okNames

OutInv ==
  ~crashed =>
    /\ pc \notin {"running", "read"} => outfile = {} /\ writers = {}
    /\ outfile \subseteq {peer} /\ writers \subseteq {peer}
    /\ pc = "send" /\ resp.kind = "output" => resp.of = {peer}

RanInv ==
  /\ \A d \in outfile \union jobs : execs[d] > 0
  /\ \A d \in resp.of : execs[d] > 0
  /\ \A c \in Clients : \A d \in down[c].of : execs[d] > 0

EofInv ==
  /\ \A c \in Clients : conn[c] = "closed" <=> fin[c] # "none"
  /\ ~crashed =>
       /\ pc = "send" => resp.kind # "none"
       /\ pc = "close" => down[peer].kind # "none"
       /\ \A c \in Clients :
            conn[c] = "held" \/ (fin[c] = "fin" /\ cl[c] # "killed") => down[c].kind # "none"

RepliedInv == \A c \in Clients : cl[c] = "replied" => HasBytes(down[c])

IInv ==
  /\ TypeOK /\ LateInv /\ HoldInv /\ ServeInv /\ AllowInv /\ OutInv /\ RanInv /\ EofInv
  /\ AtMostOnce /\ DeniedNeverRan /\ OwnOutputUntilCrash /\ EofIsEmptyUntilCrash
  /\ RepliedInv

-----------------------------------------------------------------------------
(* No step of a client touches the server's own variables or what the      *)
(* server has sent.                                                        *)
LEMMA ClientsAside ==
  (\E c \in Clients : ClientStep(c) \/ Kill(c) \/ Arrive(c))
    => UNCHANGED srvVars /\ UNCHANGED down
  BY DEF ClientStep, Connect, ConnectFail, SendReq, RecvReply, RecvEof, RecvReset, Kill, Arrive

(* Type correctness.  The provers do better with the two Boolean variables *)
(* by themselves.                                                          *)

Flags == stop \in BOOLEAN /\ crashed \in BOOLEAN

Data ==
  /\ pc \in Labels /\ peer \in IF Idle THEN {None} ELSE Clients
  /\ req \in Requests /\ resp \in Replies
  /\ user_conf \in Names /\ okNames \in SUBSET Names
  /\ outfile \in SUBSET Clients
  /\ jobs \in SUBSET Clients /\ writers \in SUBSET jobs
  /\ boots \in Nat /\ late \in Nat /\ execs \in [Clients -> Nat]
  /\ queue \in Seq(Clients) /\ conn \in [Clients -> ConnStates]
  /\ cl \in [Clients -> ClientStates] /\ sent \in SUBSET Clients
  /\ arrived \in [Clients -> Levels] /\ down \in [Clients -> Replies]
  /\ fin \in [Clients -> Ends]

(* TypeOK in two parts.                                                    *)
LEMMA TypeParts == TypeOK <=> Flags /\ Data
  BY DEF TypeOK, HandlerTypeOK, Flags, Data

(* The flags keep their type.                                              *)
LEMMA FlagsStep == Flags /\ [Next]_vars => Flags'
<1> SUFFICES ASSUME Flags, [Next]_vars PROVE Flags'
  OBVIOUS
<1> USE DEF Flags, reqVars, jobVars, histVars
<1>1. CASE BootStream
  BY <1>1 DEF BootStream, Boot, netVars
<1>2. CASE Check("accept") /\ UNCHANGED netVars
  BY <1>2 DEF Check, netVars
<1>3. CASE Accept
  BY <1>3 DEF Accept, TakesUp
<1>4. CASE Recv
  BY <1>4 DEF Recv, Parsed, netVars
<1>5. CASE RecvNothing
  BY <1>5 DEF RecvNothing, EndIteration, NoRequest, LetGo
<1>6. CASE Auth /\ UNCHANGED netVars
  BY <1>6 DEF Auth, netVars
<1>7. CASE Exec /\ UNCHANGED netVars
  BY <1>7 DEF Exec, netVars
<1>8. CASE CommandEnds /\ UNCHANGED netVars
  BY <1>8 DEF CommandEnds, LeftRunning, netVars
<1>9. CASE ReadOutput /\ UNCHANGED netVars
  BY <1>9 DEF ReadOutput, netVars
<1>10. CASE SendReply
  BY <1>10 DEF SendReply
<1>11. CASE CloseConn
  BY <1>11 DEF CloseConn, EndIteration, NoRequest, LetGo
<1>12. CASE Shutdown
  BY <1>12 DEF Shutdown, ProcessGone, LeftRunning, NoRequest, LetGo
<1>13. CASE AcceptFail
  BY <1>13 DEF AcceptFail, netVars
<1>14. CASE Crash
  BY <1>14 DEF Crash, ProcessGone, LeftRunning, NoRequest, LetGo
<1>15. CASE (\E sig \in {"SIGINT", "SIGTERM"} : handle_signal(sig)) /\ UNCHANGED netVars
  BY <1>15 DEF handle_signal, netVars
<1>16. CASE EditUsers /\ UNCHANGED netVars
  BY <1>16 DEF EditUsers, netVars
<1>17. CASE JobWrites /\ UNCHANGED netVars
  BY <1>17 DEF JobWrites, netVars
<1>18. CASE \E c \in Clients : ClientStep(c) \/ Kill(c) \/ Arrive(c)
  BY <1>18, ClientsAside DEF srvVars
<1>19. CASE \E c \in Clients : JobGone(c)
  BY <1>19 DEF JobGone, JobEnds, LetGo
<1>20. CASE UNCHANGED vars
  BY <1>20 DEF vars, srvVars, netVars
<1> QED
  BY <1>1, <1>2, <1>3, <1>4, <1>5, <1>6, <1>7, <1>8, <1>9,
     <1>10, <1>11, <1>12, <1>13, <1>14, <1>15, <1>16, <1>17, <1>18,
     <1>19, <1>20
  DEF Next, ServerStep, HandlerStep, HandlerEnv

(* So do all other variables.                                              *)
LEMMA DataStep == TypeOK /\ [Next]_vars => Data'
<1> SUFFICES ASSUME TypeOK, [Next]_vars PROVE Data'
  OBVIOUS
<1> Data
  BY TypeParts
<1> USE HandlerAssumption DEF Data, reqVars, jobVars, histVars, Idle, Labels, ConnStates,
      ClientStates, Ends, Levels
<1>1. CASE BootStream
  BY <1>1 DEF BootStream, Boot, netVars
<1>2. CASE Check("accept") /\ UNCHANGED netVars
  BY <1>2 DEF Check, netVars
<1>3. CASE Accept
  BY <1>3 DEF Accept, TakesUp
<1>4. CASE Recv
  BY <1>4 DEF Recv, Parsed, netVars, Requests, NoBytes, NameOnly, Whole
<1>5. CASE RecvNothing
  BY <1>5 DEF RecvNothing, EndIteration, NoRequest, LetGo, NoReq, NoReply, Reply, Requests,
      Replies, NoBytes, Whole, Kinds
<1>6. CASE Auth /\ UNCHANGED netVars
  BY <1>6 DEF Auth, netVars, Reply, Replies, Kinds
<1>7. CASE Exec /\ UNCHANGED netVars
  BY <1>7 DEF Exec, netVars
<1>8. CASE CommandEnds /\ UNCHANGED netVars
  BY <1>8 DEF CommandEnds, LeftRunning, netVars
<1>9. CASE ReadOutput /\ UNCHANGED netVars
  BY <1>9 DEF ReadOutput, netVars, Reply, Replies, Kinds
<1>10. CASE SendReply
  BY <1>10 DEF SendReply
<1>11. CASE CloseConn
  BY <1>11 DEF CloseConn, EndIteration, NoRequest, LetGo, NoReq, NoReply, Reply, Requests,
      Replies, NoBytes, Whole, Kinds
<1>12. CASE Shutdown
  BY <1>12 DEF Shutdown, ProcessGone, LeftRunning, NoRequest, LetGo, NoReq, NoReply, Reply,
      Requests, Replies, NoBytes, Whole, Kinds
<1>13. CASE AcceptFail
  BY <1>13 DEF AcceptFail, netVars
<1>14. CASE Crash
  BY <1>14 DEF Crash, ProcessGone, LeftRunning, NoRequest, LetGo, NoReq, NoReply, Reply,
      Requests, Replies, NoBytes, Whole, Kinds
<1>15. CASE (\E sig \in {"SIGINT", "SIGTERM"} : handle_signal(sig)) /\ UNCHANGED netVars
  BY <1>15 DEF handle_signal, netVars
<1>16. CASE EditUsers /\ UNCHANGED netVars
  BY <1>16 DEF EditUsers, netVars
<1>17. CASE JobWrites /\ UNCHANGED netVars
  BY <1>17 DEF JobWrites, netVars
<1>18. CASE \E c \in Clients : Connect(c)
  BY <1>18 DEF Connect, ClientGoes, srvVars
<1>19. CASE \E c \in Clients : ConnectFail(c)
  BY <1>19 DEF ConnectFail, ClientGoes, srvVars
<1>20. CASE \E c \in Clients : SendReq(c)
  <2>1. PICK c \in Clients : SendReq(c)
    BY <1>20
  <2>2. fin' \in [Clients -> Ends]
    BY <2>1 DEF SendReq, srvVars
  <2> QED
    BY <2>1, <2>2 DEF SendReq, ClientGoes, srvVars
<1>21. CASE \E c \in Clients : RecvReply(c)
  BY <1>21 DEF RecvReply, ClientGoes, srvVars
<1>22. CASE \E c \in Clients : RecvEof(c)
  BY <1>22 DEF RecvEof, ClientGoes, srvVars
<1>23. CASE \E c \in Clients : RecvReset(c)
  BY <1>23 DEF RecvReset, ClientGoes, srvVars
<1>24. CASE \E c \in Clients : Kill(c)
  BY <1>24 DEF Kill, ClientGoes, srvVars
<1>25. CASE \E c \in Clients : Arrive(c)
  BY <1>25 DEF Arrive, srvVars
<1>26. CASE \E c \in Clients : JobGone(c)
  BY <1>26 DEF JobGone, JobEnds, LetGo, NoBytes, Whole
<1>27. CASE UNCHANGED vars
  BY <1>27 DEF vars, srvVars, netVars
<1> QED
  BY <1>1, <1>2, <1>3, <1>4, <1>5, <1>6, <1>7, <1>8, <1>9,
     <1>10, <1>11, <1>12, <1>13, <1>14, <1>15, <1>16, <1>17, <1>18,
     <1>19, <1>20, <1>21, <1>22, <1>23, <1>24, <1>25, <1>26, <1>27
  DEF Next, ServerStep, HandlerStep, HandlerEnv, ClientStep

(* TypeOK is inductive.                                                    *)
LEMMA TypeStep == TypeOK /\ [Next]_vars => TypeOK'
<1>1. TypeParts'
  BY TypeParts, PTL
<1> QED
  BY <1>1, TypeParts, FlagsStep, DataStep
-----------------------------------------------------------------------------
(* The invariants that speak of the server alone.                          *)

(* Taking up a request after the flag needs accept, which is passed once.  *)
LEMMA LateStep == TypeOK /\ LateInv /\ [Next]_vars => LateInv'
<1> SUFFICES ASSUME TypeOK, LateInv, [Next]_vars PROVE LateInv'
  OBVIOUS
<1> USE DEF LateInv, TypeOK, HandlerTypeOK, Labels, reqVars, jobVars, histVars
<1>1. CASE BootStream
  BY <1>1 DEF BootStream, Boot, netVars
<1>2. CASE Check("accept") /\ UNCHANGED netVars
  BY <1>2 DEF Check, netVars
<1>3. CASE Accept
  BY <1>3 DEF Accept, TakesUp
<1>4. CASE Recv
  BY <1>4 DEF Recv, Parsed, netVars
<1>5. CASE RecvNothing
  BY <1>5 DEF RecvNothing, EndIteration, NoRequest, LetGo
<1>6. CASE Auth /\ UNCHANGED netVars
  BY <1>6 DEF Auth, netVars
<1>7. CASE Exec /\ UNCHANGED netVars
  BY <1>7 DEF Exec, netVars
<1>8. CASE CommandEnds /\ UNCHANGED netVars
  BY <1>8 DEF CommandEnds, LeftRunning, netVars
<1>9. CASE ReadOutput /\ UNCHANGED netVars
  BY <1>9 DEF ReadOutput, netVars
<1>10. CASE SendReply
  BY <1>10 DEF SendReply
<1>11. CASE CloseConn
  BY <1>11 DEF CloseConn, EndIteration, NoRequest, LetGo
<1>12. CASE Shutdown
  BY <1>12 DEF Shutdown, ProcessGone, LeftRunning, NoRequest, LetGo
<1>13. CASE AcceptFail
  BY <1>13 DEF AcceptFail, netVars
<1>14. CASE Crash
  BY <1>14 DEF Crash, ProcessGone, LeftRunning, NoRequest, LetGo
<1>15. CASE (\E sig \in {"SIGINT", "SIGTERM"} : handle_signal(sig)) /\ UNCHANGED netVars
  BY <1>15 DEF handle_signal, netVars
<1>16. CASE EditUsers /\ UNCHANGED netVars
  BY <1>16 DEF EditUsers, netVars
<1>17. CASE JobWrites /\ UNCHANGED netVars
  BY <1>17 DEF JobWrites, netVars
<1>18. CASE \E c \in Clients : ClientStep(c) \/ Kill(c) \/ Arrive(c)
  BY <1>18, ClientsAside DEF srvVars
<1>19. CASE \E c \in Clients : JobGone(c)
  BY <1>19 DEF JobGone, JobEnds, LetGo
<1>20. CASE UNCHANGED vars
  BY <1>20 DEF vars, srvVars, netVars
<1> QED
  BY <1>1, <1>2, <1>3, <1>4, <1>5, <1>6, <1>7, <1>8, <1>9,
     <1>10, <1>11, <1>12, <1>13, <1>14, <1>15, <1>16, <1>17, <1>18,
     <1>19, <1>20
  DEF Next, ServerStep, HandlerStep, HandlerEnv

(* The name checked is the name received; edits only add to okNames.       *)
LEMMA AllowStep == TypeOK /\ AllowInv /\ [Next]_vars => AllowInv'
<1> SUFFICES ASSUME TypeOK, AllowInv, [Next]_vars PROVE AllowInv'
  OBVIOUS
<1> USE DEF AllowInv, TypeOK, HandlerTypeOK, Labels, Levels, Requests, NoBytes, NameOnly,
      CommandCut, Whole, reqVars, jobVars, histVars
<1>1. CASE BootStream
  BY <1>1 DEF BootStream, Boot, netVars
<1>2. CASE Check("accept") /\ UNCHANGED netVars
  BY <1>2 DEF Check, netVars
<1>3. CASE Accept
  BY <1>3 DEF Accept, TakesUp
<1>4. CASE Recv
  BY <1>4 DEF Recv, Parsed, netVars
<1>5. CASE RecvNothing
  BY <1>5 DEF RecvNothing, EndIteration, NoRequest, LetGo
<1>6. CASE Auth /\ UNCHANGED netVars
  BY <1>6 DEF Auth, netVars, user_allowed
<1>7. CASE Exec /\ UNCHANGED netVars
  BY <1>7 DEF Exec, netVars
<1>8. CASE CommandEnds /\ UNCHANGED netVars
  BY <1>8 DEF CommandEnds, LeftRunning, netVars
<1>9. CASE ReadOutput /\ UNCHANGED netVars
  BY <1>9 DEF ReadOutput, netVars
<1>10. CASE SendReply
  BY <1>10 DEF SendReply
<1>11. CASE CloseConn
  BY <1>11 DEF CloseConn, EndIteration, NoRequest, LetGo
<1>12. CASE Shutdown
  BY <1>12 DEF Shutdown, ProcessGone, LeftRunning, NoRequest, LetGo
<1>13. CASE AcceptFail
  BY <1>13 DEF AcceptFail, netVars
<1>14. CASE Crash
  BY <1>14 DEF Crash, ProcessGone, LeftRunning, NoRequest, LetGo
<1>15. CASE (\E sig \in {"SIGINT", "SIGTERM"} : handle_signal(sig)) /\ UNCHANGED netVars
  BY <1>15 DEF handle_signal, netVars
<1>16. CASE EditUsers /\ UNCHANGED netVars
  BY <1>16 DEF EditUsers, netVars
<1>17. CASE JobWrites /\ UNCHANGED netVars
  BY <1>17 DEF JobWrites, netVars
<1>18. CASE \E c \in Clients : ClientStep(c) \/ Kill(c) \/ Arrive(c)
  BY <1>18, ClientsAside DEF srvVars
<1>19. CASE \E c \in Clients : JobGone(c)
  BY <1>19 DEF JobGone, JobEnds, LetGo
<1>20. CASE UNCHANGED vars
  BY <1>20 DEF vars, srvVars, netVars
<1> QED
  BY <1>1, <1>2, <1>3, <1>4, <1>5, <1>6, <1>7, <1>8, <1>9,
     <1>10, <1>11, <1>12, <1>13, <1>14, <1>15, <1>16, <1>17, <1>18,
     <1>19, <1>20
  DEF Next, ServerStep, HandlerStep, HandlerEnv

(* One request at a time uses the file, and it removes it (ReadOutput).    *)
LEMMA OutStep == TypeOK /\ OutInv /\ [Next]_vars => OutInv'
<1> SUFFICES ASSUME TypeOK, OutInv, [Next]_vars PROVE OutInv'
  OBVIOUS
<1> USE DEF OutInv, TypeOK, HandlerTypeOK, Labels, Idle, reqVars, jobVars, histVars
<1>1. CASE BootStream
  BY <1>1 DEF BootStream, Boot, netVars
<1>2. CASE Check("accept") /\ UNCHANGED netVars
  BY <1>2 DEF Check, netVars
<1>3. CASE Accept
  BY <1>3 DEF Accept, TakesUp
<1>4. CASE Recv
  BY <1>4 DEF Recv, Parsed, netVars
<1>5. CASE RecvNothing
  BY <1>5 DEF RecvNothing, EndIteration, NoRequest, LetGo
<1>6. CASE Auth /\ UNCHANGED netVars
  BY <1>6 DEF Auth, netVars, Reply
<1>7. CASE Exec /\ UNCHANGED netVars
  BY <1>7 DEF Exec, netVars
<1>8. CASE CommandEnds /\ UNCHANGED netVars
  BY <1>8 DEF CommandEnds, LeftRunning, netVars
<1>9. CASE ReadOutput /\ UNCHANGED netVars
  BY <1>9 DEF ReadOutput, netVars, Reply
<1>10. CASE SendReply
  BY <1>10 DEF SendReply
<1>11. CASE CloseConn
  BY <1>11 DEF CloseConn, EndIteration, NoRequest, LetGo
<1>12. CASE Shutdown
  BY <1>12 DEF Shutdown, ProcessGone, LeftRunning, NoRequest, LetGo
<1>13. CASE AcceptFail
  BY <1>13 DEF AcceptFail, netVars
<1>14. CASE Crash
  BY <1>14 DEF Crash, ProcessGone, LeftRunning, NoRequest, LetGo
<1>15. CASE (\E sig \in {"SIGINT", "SIGTERM"} : handle_signal(sig)) /\ UNCHANGED netVars
  BY <1>15 DEF handle_signal, netVars
<1>16. CASE EditUsers /\ UNCHANGED netVars
  BY <1>16 DEF EditUsers, netVars
<1>17. CASE JobWrites /\ UNCHANGED netVars
  BY <1>17 DEF JobWrites, netVars
<1>18. CASE \E c \in Clients : ClientStep(c) \/ Kill(c) \/ Arrive(c)
  BY <1>18, ClientsAside DEF srvVars
<1>19. CASE \E c \in Clients : JobGone(c)
  BY <1>19 DEF JobGone, JobEnds, LetGo
<1>20. CASE UNCHANGED vars
  BY <1>20 DEF vars, srvVars, netVars
<1> QED
  BY <1>1, <1>2, <1>3, <1>4, <1>5, <1>6, <1>7, <1>8, <1>9,
     <1>10, <1>11, <1>12, <1>13, <1>14, <1>15, <1>16, <1>17, <1>18,
     <1>19, <1>20
  DEF Next, ServerStep, HandlerStep, HandlerEnv
-----------------------------------------------------------------------------
(* Who holds what, and what has been run for it.                           *)

(* What letting go of connections leaves of HoldInv, whoever does it.      *)
LEMMA LetGoHolds ==
  ASSUME TypeOK, HoldInv, NEW S \in SUBSET Clients, LetGo(S),
         \A c \in S : conn[c] \in {"accepted", "held"},
         \A c \in Clients : conn[c] = "held" => c \in S \/ c \in jobs'
  PROVE  /\ \A c \in Clients :
              /\ conn'[c] = "accepted" => conn[c] = "accepted" /\ c \notin S
              /\ conn'[c] = "held" => c \in jobs'
              /\ conn'[c] = "queued" => Listening'
              /\ cl'[c] = "connect" => conn'[c] = "none"
         /\ QueueInv'
<1> USE DEF LetGo, HoldInv, TypeOK, ConnStates
<1>1. \A c \in Clients :
         /\ conn'[c] = "accepted" => conn[c] = "accepted" /\ c \notin S
         /\ conn'[c] = "held" => c \in jobs'
         /\ conn'[c] = "queued" => Listening'
         /\ cl'[c] = "connect" => conn'[c] = "none"
  BY DEF Listening
<1>2. QueueInv'
  BY DEF QueueInv
<1> QED
  BY <1>1, <1>2

(* Every way out of an iteration lets go of the connection.                *)
LEMMA HoldStep == TypeOK /\ HoldInv /\ [Next]_vars => HoldInv'
<1> SUFFICES ASSUME TypeOK, HoldInv, [Next]_vars PROVE HoldInv'
  OBVIOUS
<1> USE HandlerAssumption DEF HoldInv, NoConnLeak, QueueInv, Listening, TypeOK, HandlerTypeOK,
      Labels, Idle, ConnStates, ClientStates, reqVars, jobVars, histVars
<1>1. CASE BootStream
  BY <1>1 DEF BootStream, Boot, netVars
<1>2. CASE Check("accept") /\ UNCHANGED netVars
  BY <1>2 DEF Check, netVars
<1>3. CASE Accept
  <2>1. /\ 1 \in 1 .. Len(queue) /\ Head(queue) = queue[1] /\ queue[1] \in Clients
        /\ Len(queue') = Len(queue) - 1
        /\ \A i \in 1 .. Len(queue') : i + 1 \in 1 .. Len(queue) /\ queue'[i] = queue[i + 1]
    BY <1>3 DEF Accept
  <2>2. conn[queue[1]] = "queued" /\ conn' = [conn EXCEPT ![queue[1]] = "accepted"]
    BY <1>3, <2>1 DEF Accept
  <2>3. \A i \in 1 .. Len(queue') : queue[i + 1] # queue[1] /\ queue[i + 1] \in Clients
    BY <2>1
  <2>4. ASSUME NEW i \in 1 .. Len(queue') PROVE conn'[queue'[i]] = "queued"
    <3>1. queue'[i] = queue[i + 1] /\ i + 1 \in 1 .. Len(queue)
      BY <2>1
    <3>2. conn'[queue[i + 1]] = conn[queue[i + 1]]
      BY <2>2, <2>3
    <3> QED
      BY <3>1, <3>2
  <2>5. ASSUME NEW i \in 1 .. Len(queue'), NEW j \in 1 .. Len(queue'),
               queue'[i] = queue'[j]
        PROVE  i = j
    <3>1. /\ queue[i + 1] = queue[j + 1]
          /\ i + 1 \in 1 .. Len(queue) /\ j + 1 \in 1 .. Len(queue)
      BY <2>1, <2>5
    <3>2. i + 1 = j + 1
      BY <3>1
    <3> QED
      BY <3>2
  <2>6. \A c \in Clients : cl'[c] = "connect" => conn'[c] = "none"
    BY <1>3, <2>2 DEF Accept
  <2>7. NoConnLeak' /\ (peer' # None => conn'[peer'] = "accepted")
    BY <1>3, <2>1, <2>2 DEF Accept
  <2> QED
    BY <2>4, <2>5, <2>6, <2>7
<1>4. CASE Recv
  BY <1>4 DEF Recv, Parsed, netVars
<1>5. CASE RecvNothing
  BY <1>5 DEF RecvNothing, EndIteration, NoRequest, LetGo
<1>6. CASE Auth /\ UNCHANGED netVars
  BY <1>6 DEF Auth, netVars
<1>7. CASE Exec /\ UNCHANGED netVars
  BY <1>7 DEF Exec, netVars
<1>8. CASE CommandEnds /\ UNCHANGED netVars
  BY <1>8 DEF CommandEnds, LeftRunning, netVars
<1>9. CASE ReadOutput /\ UNCHANGED netVars
  BY <1>9 DEF ReadOutput, netVars
<1>10. CASE SendReply
  BY <1>10 DEF SendReply
<1>11. CASE CloseConn
  BY <1>11 DEF CloseConn, EndIteration, NoRequest, LetGo
<1>12. CASE Shutdown
  BY <1>12 DEF Shutdown, ProcessGone, LeftRunning, NoRequest, LetGo
<1>13. CASE AcceptFail
  BY <1>13 DEF AcceptFail, netVars
<1>14. CASE Crash
  <2>1. LetGo({peer} \ {None}) /\ peer' = None /\ jobs \subseteq jobs'
    BY <1>14 DEF Crash, ProcessGone, LeftRunning, NoRequest
  <2>2. /\ {peer} \ {None} \in SUBSET Clients
        /\ \A c \in {peer} \ {None} : conn[c] \in {"accepted", "held"}
        /\ \A c \in Clients : conn[c] = "held" => c \in jobs'
    BY <2>1
  <2>3. /\ \A c \in Clients :
             /\ conn'[c] = "accepted" => conn[c] = "accepted" /\ c \notin {peer} \ {None}
             /\ conn'[c] = "held" => c \in jobs'
             /\ conn'[c] = "queued" => Listening'
             /\ cl'[c] = "connect" => conn'[c] = "none"
        /\ QueueInv'
    <3> HIDE DEF HoldInv, NoConnLeak, QueueInv, Listening, TypeOK
    <3> QED
      BY <2>1, <2>2, LetGoHolds
  <2>4. \A c \in Clients : conn'[c] # "accepted"
    BY <2>3
  <2> QED
    BY <2>1, <2>3, <2>4 DEF QueueInv, Listening
<1>15. CASE (\E sig \in {"SIGINT", "SIGTERM"} : handle_signal(sig)) /\ UNCHANGED netVars
  BY <1>15 DEF handle_signal, netVars
<1>16. CASE EditUsers /\ UNCHANGED netVars
  BY <1>16 DEF EditUsers, netVars
<1>17. CASE JobWrites /\ UNCHANGED netVars
  BY <1>17 DEF JobWrites, netVars
<1>18. CASE \E c \in Clients : Connect(c)
  BY <1>18 DEF Connect, ClientGoes, srvVars
<1>19. CASE \E c \in Clients : ConnectFail(c)
  BY <1>19 DEF ConnectFail, ClientGoes, srvVars
<1>20. CASE \E c \in Clients : SendReq(c)
  BY <1>20 DEF SendReq, ClientGoes, srvVars
<1>21. CASE \E c \in Clients : RecvReply(c)
  BY <1>21 DEF RecvReply, ClientGoes, srvVars
<1>22. CASE \E c \in Clients : RecvEof(c)
  BY <1>22 DEF RecvEof, ClientGoes, srvVars
<1>23. CASE \E c \in Clients : RecvReset(c)
  BY <1>23 DEF RecvReset, ClientGoes, srvVars
<1>24. CASE \E c \in Clients : Kill(c)
  BY <1>24 DEF Kill, ClientGoes, srvVars
<1>25. CASE \E c \in Clients : Arrive(c)
  BY <1>25 DEF Arrive, srvVars
<1>26. CASE \E c \in Clients : JobGone(c)
  <2>1. PICK c \in Clients : JobGone(c)
    BY <1>26
  <2>2. DEFINE S == {d \in {c} : conn[d] = "held"}
  <2>3. /\ LetGo(S) /\ jobs' = jobs \ {c}
        /\ UNCHANGED <<pc, peer>>
    BY <2>1 DEF JobGone, JobEnds
  <2>4. /\ S \in SUBSET Clients
        /\ \A d \in S : conn[d] \in {"accepted", "held"}
        /\ \A d \in Clients : conn[d] = "held" => d \in S \/ d \in jobs'
    BY <2>3
  <2>5. /\ \A d \in Clients :
             /\ conn'[d] = "accepted" => conn[d] = "accepted"
             /\ conn'[d] = "held" => d \in jobs'
             /\ conn'[d] = "queued" => Listening'
             /\ cl'[d] = "connect" => conn'[d] = "none"
        /\ QueueInv'
    <3> HIDE DEF HoldInv, NoConnLeak, QueueInv, Listening, TypeOK
    <3> QED
      BY <2>3, <2>4, LetGoHolds
  <2>6. peer # None => conn'[peer] = "accepted"
    BY <2>3 DEF LetGo
  <2> QED
    BY <2>3, <2>5, <2>6 DEF QueueInv, Listening
<1>27. CASE UNCHANGED vars
  BY <1>27 DEF vars, srvVars, netVars
<1> QED
  BY <1>1, <1>2, <1>3, <1>4, <1>5, <1>6, <1>7, <1>8, <1>9,
     <1>10, <1>11, <1>12, <1>13, <1>14, <1>15, <1>16, <1>17, <1>18,
     <1>19, <1>20, <1>21, <1>22, <1>23, <1>24, <1>25, <1>26, <1>27
  DEF Next, ServerStep, HandlerStep, HandlerEnv, ClientStep

(* A queued client has had nothing run; one in hand has not been answered. *)
LEMMA ServeStep == TypeOK /\ HoldInv /\ ServeInv /\ [Next]_vars => ServeInv'
<1> SUFFICES ASSUME TypeOK, HoldInv, ServeInv, [Next]_vars PROVE ServeInv'
  OBVIOUS
<1> USE HandlerAssumption DEF ServeInv, HoldInv, NoConnLeak, TypeOK, HandlerTypeOK, Labels,
      Idle, ConnStates, reqVars, jobVars, histVars
<1>1. CASE BootStream
  BY <1>1 DEF BootStream, Boot, netVars
<1>2. CASE Check("accept") /\ UNCHANGED netVars
  BY <1>2 DEF Check, netVars
<1>3. CASE Accept
  <2>1. Head(queue) \in Clients /\ conn[Head(queue)] = "queued"
    BY <1>3 DEF Accept, QueueInv
  <2> QED
    BY <1>3, <2>1 DEF Accept, TakesUp
<1>4. CASE Recv
  BY <1>4 DEF Recv, Parsed, netVars
<1>5. CASE RecvNothing
  BY <1>5 DEF RecvNothing, EndIteration, NoRequest, LetGo
<1>6. CASE Auth /\ UNCHANGED netVars
  BY <1>6 DEF Auth, netVars, Reply
<1>7. CASE Exec /\ UNCHANGED netVars
  BY <1>7 DEF Exec, netVars
<1>8. CASE CommandEnds /\ UNCHANGED netVars
  BY <1>8 DEF CommandEnds, LeftRunning, netVars
<1>9. CASE ReadOutput /\ UNCHANGED netVars
  BY <1>9 DEF ReadOutput, netVars, Reply
<1>10. CASE SendReply
  BY <1>10 DEF SendReply
<1>11. CASE CloseConn
  BY <1>11 DEF CloseConn, EndIteration, NoRequest, LetGo
<1>12. CASE Shutdown
  BY <1>12 DEF Shutdown, ProcessGone, LeftRunning, NoRequest, LetGo
<1>13. CASE AcceptFail
  BY <1>13 DEF AcceptFail, netVars
<1>14. CASE Crash
  BY <1>14 DEF Crash, ProcessGone, LeftRunning, NoRequest, LetGo
<1>15. CASE (\E sig \in {"SIGINT", "SIGTERM"} : handle_signal(sig)) /\ UNCHANGED netVars
  BY <1>15 DEF handle_signal, netVars
<1>16. CASE EditUsers /\ UNCHANGED netVars
  BY <1>16 DEF EditUsers, netVars
<1>17. CASE JobWrites /\ UNCHANGED netVars
  BY <1>17 DEF JobWrites, netVars
<1>18. CASE \E c \in Clients : Connect(c)
  BY <1>18 DEF Connect, ClientGoes, srvVars
<1>19. CASE \E c \in Clients : ConnectFail(c)
  BY <1>19 DEF ConnectFail, ClientGoes, srvVars
<1>20. CASE \E c \in Clients : SendReq(c)
  BY <1>20 DEF SendReq, ClientGoes, srvVars
<1>21. CASE \E c \in Clients : RecvReply(c)
  BY <1>21 DEF RecvReply, ClientGoes, srvVars
<1>22. CASE \E c \in Clients : RecvEof(c)
  BY <1>22 DEF RecvEof, ClientGoes, srvVars
<1>23. CASE \E c \in Clients : RecvReset(c)
  BY <1>23 DEF RecvReset, ClientGoes, srvVars
<1>24. CASE \E c \in Clients : Kill(c)
  BY <1>24 DEF Kill, ClientGoes, srvVars
<1>25. CASE \E c \in Clients : Arrive(c)
  BY <1>25 DEF Arrive, srvVars
<1>26. CASE \E c \in Clients : JobGone(c)
  BY <1>26 DEF JobGone, JobEnds, LetGo
<1>27. CASE UNCHANGED vars
  BY <1>27 DEF vars, srvVars, netVars
<1> QED
  BY <1>1, <1>2, <1>3, <1>4, <1>5, <1>6, <1>7, <1>8, <1>9,
     <1>10, <1>11, <1>12, <1>13, <1>14, <1>15, <1>16, <1>17, <1>18,
     <1>19, <1>20, <1>21, <1>22, <1>23, <1>24, <1>25, <1>26, <1>27
  DEF Next, ServerStep, HandlerStep, HandlerEnv, ClientStep

(* Bytes come only from commands that were started.                        *)
LEMMA RanStep == TypeOK /\ RanInv /\ [Next]_vars => RanInv'
<1> SUFFICES ASSUME TypeOK, RanInv, [Next]_vars PROVE RanInv'
  OBVIOUS
<1> USE DEF RanInv, TypeOK, HandlerTypeOK, Labels, Idle, reqVars, jobVars, histVars, Replies,
      Kinds, NoReply, Reply
<1>1. CASE BootStream
  BY <1>1 DEF BootStream, Boot, netVars
<1>2. CASE Check("accept") /\ UNCHANGED netVars
  BY <1>2 DEF Check, netVars
<1>3. CASE Accept
  BY <1>3 DEF Accept, TakesUp
<1>4. CASE Recv
  BY <1>4 DEF Recv, Parsed, netVars
<1>5. CASE RecvNothing
  BY <1>5 DEF RecvNothing, EndIteration, NoRequest, LetGo
<1>6. CASE Auth /\ UNCHANGED netVars
  BY <1>6 DEF Auth, netVars
<1>7. CASE Exec /\ UNCHANGED netVars
  BY <1>7 DEF Exec, netVars
<1>8. CASE CommandEnds /\ UNCHANGED netVars
  BY <1>8 DEF CommandEnds, LeftRunning, netVars
<1>9. CASE ReadOutput /\ UNCHANGED netVars
  BY <1>9 DEF ReadOutput, netVars
<1>10. CASE SendReply
  BY <1>10 DEF SendReply
<1>11. CASE CloseConn
  BY <1>11 DEF CloseConn, EndIteration, NoRequest, LetGo
<1>12. CASE Shutdown
  BY <1>12 DEF Shutdown, ProcessGone, LeftRunning, NoRequest, LetGo
<1>13. CASE AcceptFail
  BY <1>13 DEF AcceptFail, netVars
<1>14. CASE Crash
  BY <1>14 DEF Crash, ProcessGone, LeftRunning, NoRequest, LetGo
<1>15. CASE (\E sig \in {"SIGINT", "SIGTERM"} : handle_signal(sig)) /\ UNCHANGED netVars
  BY <1>15 DEF handle_signal, netVars
<1>16. CASE EditUsers /\ UNCHANGED netVars
  BY <1>16 DEF EditUsers, netVars
<1>17. CASE JobWrites /\ UNCHANGED netVars
  BY <1>17 DEF JobWrites, netVars
<1>18. CASE \E c \in Clients : ClientStep(c) \/ Kill(c) \/ Arrive(c)
  BY <1>18, ClientsAside DEF srvVars
<1>19. CASE \E c \in Clients : JobGone(c)
  BY <1>19 DEF JobGone, JobEnds, LetGo
<1>20. CASE UNCHANGED vars
  BY <1>20 DEF vars, srvVars, netVars
<1> QED
  BY <1>1, <1>2, <1>3, <1>4, <1>5, <1>6, <1>7, <1>8, <1>9,
     <1>10, <1>11, <1>12, <1>13, <1>14, <1>15, <1>16, <1>17, <1>18,
     <1>19, <1>20
  DEF Next, ServerStep, HandlerStep, HandlerEnv

(* What letting go of connections does to them.                            *)
LEMMA LetGoEnds ==
  ASSUME TypeOK, NEW S \in SUBSET Clients, LetGo(S),
         \A c \in Clients : conn[c] = "closed" <=> fin[c] # "none",
         \A c \in S : conn[c] # "closed"
  PROVE  \A c \in Clients :
           /\ conn'[c] = "closed" <=> fin'[c] # "none"
           /\ conn'[c] = "held" => c \in S \/ conn[c] = "held"
           /\ fin'[c] = "fin" => c \in S \/ fin[c] = "fin"
  BY DEF LetGo, EndsOf, TypeOK, ConnStates, Ends

(* A connection that ended without a crash has been answered.              *)
LEMMA EofStep == TypeOK /\ HoldInv /\ ServeInv /\ RanInv /\ EofInv /\ [Next]_vars => EofInv'
<1> SUFFICES ASSUME TypeOK, HoldInv, ServeInv, RanInv, EofInv, [Next]_vars PROVE EofInv'
  OBVIOUS
<1> USE HandlerAssumption DEF EofInv, HoldInv, NoConnLeak, ServeInv, TypeOK, HandlerTypeOK,
      Labels, Idle, ConnStates, ClientStates, Ends, Ended, HasBytes, Replies, Kinds, NoReply,
      Reply, reqVars, jobVars, histVars
<1>1. CASE BootStream
  BY <1>1 DEF BootStream, Boot, netVars
<1>2. CASE Check("accept") /\ UNCHANGED netVars
  BY <1>2 DEF Check, netVars
<1>3. CASE Accept
  <2>1. Head(queue) \in Clients /\ conn[Head(queue)] = "queued"
    BY <1>3 DEF Accept, QueueInv
  <2> QED
    BY <1>3, <2>1 DEF Accept
<1>4. CASE Recv
  BY <1>4 DEF Recv, Parsed, netVars
<1>5. CASE RecvNothing
  <2>1. LetGo({peer}) /\ {peer} \in SUBSET Clients /\ \A c \in {peer} : conn[c] # "closed"
    BY <1>5 DEF RecvNothing, EndIteration, NoRequest
  <2>2. \A c \in Clients :
           /\ conn'[c] = "closed" <=> fin'[c] # "none"
           /\ conn'[c] = "held" => c \in {peer} \/ conn[c] = "held"
           /\ fin'[c] = "fin" => c \in {peer} \/ fin[c] = "fin"
    BY <2>1, LetGoEnds
  <2>3. peer \notin jobs'
    BY <1>5 DEF RecvNothing, RanInv
  <2> QED
    BY <1>5, <2>2, <2>3 DEF RecvNothing, EndIteration, NoRequest, LetGo
<1>6. CASE Auth /\ UNCHANGED netVars
  BY <1>6 DEF Auth, netVars
<1>7. CASE Exec /\ UNCHANGED netVars
  BY <1>7 DEF Exec, netVars
<1>8. CASE CommandEnds /\ UNCHANGED netVars
  BY <1>8 DEF CommandEnds, LeftRunning, netVars
<1>9. CASE ReadOutput /\ UNCHANGED netVars
  BY <1>9 DEF ReadOutput, netVars
<1>10. CASE SendReply
  BY <1>10 DEF SendReply
<1>11. CASE CloseConn
  <2>1. LetGo({peer}) /\ {peer} \in SUBSET Clients /\ \A c \in {peer} : conn[c] # "closed"
    BY <1>11 DEF CloseConn, EndIteration, NoRequest
  <2>2. \A c \in Clients :
           /\ conn'[c] = "closed" <=> fin'[c] # "none"
           /\ conn'[c] = "held" => c \in {peer} \/ conn[c] = "held"
           /\ fin'[c] = "fin" => c \in {peer} \/ fin[c] = "fin"
    BY <2>1, LetGoEnds
  <2> QED
    BY <1>11, <2>2 DEF CloseConn, EndIteration, NoRequest, LetGo
<1>12. CASE Shutdown
  BY <1>12 DEF Shutdown, ProcessGone, LeftRunning, NoRequest, LetGo, EndsOf
<1>13. CASE AcceptFail
  BY <1>13 DEF AcceptFail, netVars
<1>14. CASE Crash
  BY <1>14 DEF Crash, ProcessGone, LeftRunning, NoRequest, LetGo, EndsOf
<1>15. CASE (\E sig \in {"SIGINT", "SIGTERM"} : handle_signal(sig)) /\ UNCHANGED netVars
  BY <1>15 DEF handle_signal, netVars
<1>16. CASE EditUsers /\ UNCHANGED netVars
  BY <1>16 DEF EditUsers, netVars
<1>17. CASE JobWrites /\ UNCHANGED netVars
  BY <1>17 DEF JobWrites, netVars
<1>18. CASE \E c \in Clients : Connect(c)
  BY <1>18 DEF Connect, ClientGoes, srvVars
<1>19. CASE \E c \in Clients : ConnectFail(c)
  BY <1>19 DEF ConnectFail, ClientGoes, srvVars
<1>20. CASE \E c \in Clients : SendReq(c)
  BY <1>20 DEF SendReq, ClientGoes, srvVars
<1>21. CASE \E c \in Clients : RecvReply(c)
  BY <1>21 DEF RecvReply, ClientGoes, srvVars
<1>22. CASE \E c \in Clients : RecvEof(c)
  BY <1>22 DEF RecvEof, ClientGoes, srvVars
<1>23. CASE \E c \in Clients : RecvReset(c)
  BY <1>23 DEF RecvReset, ClientGoes, srvVars
<1>24. CASE \E c \in Clients : Kill(c)
  BY <1>24 DEF Kill, ClientGoes, srvVars
<1>25. CASE \E c \in Clients : Arrive(c)
  BY <1>25 DEF Arrive, srvVars
<1>26. CASE \E c \in Clients : JobGone(c)
  <2>1. PICK c \in Clients : JobGone(c)
    BY <1>26
  <2>2. DEFINE S == {d \in {c} : conn[d] = "held"}
  <2>3. LetGo(S) /\ S \in SUBSET Clients /\ \A d \in S : conn[d] # "closed"
    BY <2>1 DEF JobGone
  <2>4. \A d \in Clients :
           /\ conn'[d] = "closed" <=> fin'[d] # "none"
           /\ conn'[d] = "held" => d \in S \/ conn[d] = "held"
           /\ fin'[d] = "fin" => d \in S \/ fin[d] = "fin"
    BY <2>3, LetGoEnds
  <2> QED
    BY <2>1, <2>4 DEF JobGone, JobEnds, LetGo
<1>27. CASE UNCHANGED vars
  BY <1>27 DEF vars, srvVars, netVars
<1> QED
  BY <1>1, <1>2, <1>3, <1>4, <1>5, <1>6, <1>7, <1>8, <1>9,
     <1>10, <1>11, <1>12, <1>13, <1>14, <1>15, <1>16, <1>17, <1>18,
     <1>19, <1>20, <1>21, <1>22, <1>23, <1>24, <1>25, <1>26, <1>27
  DEF Next, ServerStep, HandlerStep, HandlerEnv, ClientStep
-----------------------------------------------------------------------------
(* What RpcService sees: Exec counts a command, SendReply sends an answer, *)
(* a client goes on; nothing else matters to it.                           *)
Visible ==
  \/ Exec /\ UNCHANGED <<down, cl>>
  \/ SendReply
  \/ \E c \in Clients : ClientStep(c) \/ Kill(c)
  \/ UNCHANGED <<execs, down, cl>>

(* Every step is one of these, and a crash is not forgotten.               *)
LEMMA VisibleStep == [Next]_vars => Visible /\ (crashed => crashed')
<1> SUFFICES ASSUME [Next]_vars PROVE Visible /\ (crashed => crashed')
  OBVIOUS
<1> USE DEF Visible, reqVars, jobVars, histVars
<1>1. CASE BootStream
  BY <1>1 DEF BootStream, Boot, netVars
<1>2. CASE Check("accept") /\ UNCHANGED netVars
  BY <1>2 DEF Check, netVars
<1>3. CASE Accept
  BY <1>3 DEF Accept, TakesUp
<1>4. CASE Recv
  BY <1>4 DEF Recv, Parsed, netVars
<1>5. CASE RecvNothing
  BY <1>5 DEF RecvNothing, EndIteration, NoRequest, LetGo
<1>6. CASE Auth /\ UNCHANGED netVars
  BY <1>6 DEF Auth, netVars
<1>7. CASE Exec /\ UNCHANGED netVars
  BY <1>7 DEF Exec, netVars
<1>8. CASE CommandEnds /\ UNCHANGED netVars
  BY <1>8 DEF CommandEnds, LeftRunning, netVars
<1>9. CASE ReadOutput /\ UNCHANGED netVars
  BY <1>9 DEF ReadOutput, netVars
<1>10. CASE SendReply
  BY <1>10 DEF SendReply
<1>11. CASE CloseConn
  BY <1>11 DEF CloseConn, EndIteration, NoRequest, LetGo
<1>12. CASE Shutdown
  BY <1>12 DEF Shutdown, ProcessGone, LeftRunning, NoRequest, LetGo
<1>13. CASE AcceptFail
  BY <1>13 DEF AcceptFail, netVars
<1>14. CASE Crash
  BY <1>14 DEF Crash, ProcessGone, LeftRunning, NoRequest, LetGo
<1>15. CASE (\E sig \in {"SIGINT", "SIGTERM"} : handle_signal(sig)) /\ UNCHANGED netVars
  BY <1>15 DEF handle_signal, netVars
<1>16. CASE EditUsers /\ UNCHANGED netVars
  BY <1>16 DEF EditUsers, netVars
<1>17. CASE JobWrites /\ UNCHANGED netVars
  BY <1>17 DEF JobWrites, netVars
<1>18. CASE \E c \in Clients : ClientStep(c) \/ Kill(c) \/ Arrive(c)
  BY <1>18, ClientsAside DEF srvVars, histVars, Arrive
<1>19. CASE \E c \in Clients : JobGone(c)
  BY <1>19 DEF JobGone, JobEnds, LetGo
<1>20. CASE UNCHANGED vars
  BY <1>20 DEF vars, srvVars, netVars
<1> QED
  BY <1>1, <1>2, <1>3, <1>4, <1>5, <1>6, <1>7, <1>8, <1>9,
     <1>10, <1>11, <1>12, <1>13, <1>14, <1>15, <1>16, <1>17, <1>18,
     <1>19, <1>20
  DEF Next, ServerStep, HandlerStep, HandlerEnv
-----------------------------------------------------------------------------
(* The properties that speak of what is over: each is kept by the step     *)
(* that could break it because of where the server then is.                *)
LEMMA OverStep ==
  TypeOK /\ ServeInv /\ OutInv /\ EofInv /\ [Next]_vars
  /\ AtMostOnce /\ DeniedNeverRan /\ OwnOutputUntilCrash /\ EofIsEmptyUntilCrash /\ RepliedInv
  => (AtMostOnce /\ DeniedNeverRan /\ OwnOutputUntilCrash /\ EofIsEmptyUntilCrash /\ RepliedInv)'
<1> SUFFICES ASSUME TypeOK, ServeInv, OutInv, EofInv, [Next]_vars, AtMostOnce, DeniedNeverRan,
                    OwnOutputUntilCrash, EofIsEmptyUntilCrash, RepliedInv
             PROVE  (AtMostOnce /\ DeniedNeverRan /\ OwnOutputUntilCrash
                       /\ EofIsEmptyUntilCrash /\ RepliedInv)'
  OBVIOUS
<1> USE DEF AtMostOnce, DeniedNeverRan, OwnOutputUntilCrash, EofIsEmptyUntilCrash, RepliedInv
<1>0. /\ execs \in [Clients -> Nat] /\ down \in [Clients -> Replies]
      /\ cl \in [Clients -> ClientStates]
      /\ ~Idle => peer \in Clients
  BY DEF TypeOK, HandlerTypeOK
<1>1. Visible /\ (crashed => crashed')
  BY VisibleStep
<1>2. CASE Exec /\ UNCHANGED <<down, cl>>
  <2>1. UNCHANGED <<down, cl, crashed>>
    BY <1>2 DEF Exec
  <2>2. execs' = execs \/ execs' = [execs EXCEPT ![peer] = execs[peer] + 1]
    BY <1>2 DEF Exec
  <2>3. peer \in Clients /\ execs[peer] = 0 /\ peer # None
    BY <1>2, <1>0, HandlerAssumption DEF Exec, ServeInv, Idle
  <2>4. down[peer].kind = "none"
    BY <1>2, <2>3 DEF Exec, ServeInv, NoReply, Reply
  <2>5. AtMostOnce'
    BY <1>0, <2>2, <2>3
  <2>6. DeniedNeverRan'
    BY <1>0, <2>1, <2>2, <2>3, <2>4
  <2> QED
    BY <2>1, <2>5, <2>6 DEF HasBytes
<1>3. CASE SendReply
  <2>0. /\ UNCHANGED <<execs, cl, crashed>>
        /\ down' = [down EXCEPT ![peer] = resp]
    BY <1>3 DEF SendReply, histVars
  <2>1. peer \in Clients /\ down[peer].kind = "none"
    BY <1>0, <1>3, HandlerAssumption DEF SendReply, ServeInv, Idle, NoReply, Reply
  <2>2. resp.kind = "denied" => execs[peer] = 0
    BY <1>3 DEF SendReply, ServeInv
  <2>3. ~crashed /\ resp.kind = "output" => resp.of = {peer}
    BY <1>3 DEF SendReply, OutInv
  <2>4. AtMostOnce' /\ DeniedNeverRan'
    BY <1>0, <2>0, <2>1, <2>2
  <2>5. OwnOutputUntilCrash'
    BY <1>0, <2>0, <2>1, <2>3
  <2>6. EofIsEmptyUntilCrash' /\ RepliedInv'
    <3>1. ~crashed => cl[peer] # "eof"
      BY <2>1
    <3>2. cl[peer] # "replied"
      BY <2>1 DEF HasBytes
    <3> QED
      BY <1>0, <2>0, <2>1, <3>1, <3>2 DEF HasBytes
  <2> QED
    BY <2>4, <2>5, <2>6
<1>4. CASE \E c \in Clients : ClientStep(c) \/ Kill(c)
  <2>1. UNCHANGED <<execs, down, crashed>>
    BY <1>4, ClientsAside DEF srvVars, histVars
  <2>2. PICK c \in Clients : ClientStep(c) \/ Kill(c)
    BY <1>4
  <2>3. cl'[c] = "eof" => RecvEof(c)
    BY <1>0, <2>2 DEF ClientStep, Connect, ConnectFail, SendReq, RecvReply, RecvReset, Kill,
        ClientGoes, Ended
  <2>4. cl'[c] = "replied" => RecvReply(c)
    BY <1>0, <2>2 DEF ClientStep, Connect, ConnectFail, SendReq, RecvEof, RecvReset, Kill,
        ClientGoes, Ended
  <2>5. \A d \in Clients \ {c} : cl'[d] = cl[d]
    BY <1>0, <2>2 DEF ClientStep, Connect, ConnectFail, SendReq, RecvEof, RecvReply,
        RecvReset, Kill, ClientGoes
  <2>6. ~crashed /\ cl'[c] = "eof" => down[c].kind = "empty"
    BY <1>0, <2>3 DEF RecvEof, EofInv, HasBytes, Replies, Kinds
  <2>7. cl'[c] = "replied" => HasBytes(down[c])
    BY <2>4 DEF RecvReply
  <2> QED
    BY <2>1, <2>5, <2>6, <2>7 DEF HasBytes
<1>5. CASE UNCHANGED <<execs, down, cl>>
  BY <1>1, <1>5 DEF HasBytes
<1> QED
  BY <1>1, <1>2, <1>3, <1>4, <1>5 DEF Visible

(* The invariant holds at the start,                                       *)
LEMMA InvInit == Init => IInv
<1> SUFFICES ASSUME Init PROVE IInv
  OBVIOUS
<1> USE HandlerAssumption DEF Init, HandlerInit, Idle, NoReply, Reply, NoReq
<1>1. Flags /\ Data
  <2>1. Flags
    BY DEF Flags
  <2>2. Data
    BY DEF Data, Labels, Requests, Replies, Kinds, Levels, NoBytes, Whole, ConnStates,
           ClientStates, Ends
  <2> QED
    BY <2>1, <2>2
<1>2. LateInv /\ HoldInv /\ ServeInv
  BY DEF LateInv, HoldInv, NoConnLeak, QueueInv, ServeInv
<1>3. AllowInv /\ OutInv /\ RanInv /\ EofInv
  BY DEF AllowInv, OutInv, RanInv, EofInv
<1>4. /\ AtMostOnce /\ DeniedNeverRan /\ OwnOutputUntilCrash /\ EofIsEmptyUntilCrash
      /\ RepliedInv
  BY DEF AtMostOnce, DeniedNeverRan, OwnOutputUntilCrash, EofIsEmptyUntilCrash, RepliedInv
<1> QED
  BY <1>1, <1>2, <1>3, <1>4, TypeParts DEF IInv

(* every step keeps it,                                                    *)
LEMMA InvStep == IInv /\ [Next]_vars => IInv'
<1> SUFFICES ASSUME IInv, [Next]_vars PROVE IInv'
  OBVIOUS
<1>1. TypeOK' /\ LateInv' /\ HoldInv' /\ ServeInv'
  BY TypeStep, LateStep, HoldStep, ServeStep DEF IInv
<1>2. AllowInv' /\ OutInv' /\ RanInv' /\ EofInv'
  BY AllowStep, OutStep, RanStep, EofStep DEF IInv
<1>3. (AtMostOnce /\ DeniedNeverRan /\ OwnOutputUntilCrash /\ EofIsEmptyUntilCrash /\ RepliedInv)'
  BY OverStep DEF IInv
<1> QED
  BY <1>1, <1>2, <1>3 DEF IInv

(* and so it always holds.                                                 *)
THEOREM Invariance == Spec => []IInv
  BY InvInit, InvStep, PTL DEF Spec

-----------------------------------------------------------------------------
(* The theorems, each for the run StreamSafety's property of that name.    *)

(* The variables keep their types, and a client is in hand exactly while   *)
(* an iteration of the server's loop is under way.                         *)
THEOREM TypeCorrect == Spec => []TypeOK
<1>1. IInv => TypeOK
  BY DEF IInv
<1> QED
  BY <1>1, Invariance, PTL

(* A command is started at most once (server.c:153-163).                   *)
THEOREM RunsOnce == Spec => []AtMostOnce
<1>1. IInv => AtMostOnce
  BY DEF IInv
<1> QED
  BY <1>1, Invariance, PTL

(* A command runs only for a user that user.conf named since it was read   *)
(* (server.c:31-41, 153).                                                  *)
THEOREM RunsForAllowed == Spec => []AllowedOnly
<1>1. IInv => AllowedOnly
  BY DEF IInv, AllowInv, AllowedOnly
<1> QED
  BY <1>1, Invariance, PTL

(* Refused is refused (server.c:181-187).                                  *)
THEOREM RefusedNotRun == Spec => []DeniedNeverRan
<1>1. IInv => DeniedNeverRan
  BY DEF IInv
<1> QED
  BY <1>1, Invariance, PTL

(* Without a crash each client gets its own command's output, although all *)
(* requests share one file name (server.c:157-179).                        *)
THEOREM OutputIsOwn == Spec => []OwnOutputUntilCrash
<1>1. IInv => OwnOutputUntilCrash
  BY DEF IInv, OutInv
<1> QED
  BY <1>1, Invariance, PTL

(* Without a crash no output file lies in /tmp between requests            *)
(* (server.c:177-179).                                                     *)
THEOREM NoFileLeft == Spec => []TmpCleanUntilCrash
<1>1. IInv => TmpCleanUntilCrash
  BY DEF IInv, OutInv, TmpCleanUntilCrash, Idle
<1> QED
  BY <1>1, Invariance, PTL

(* No connection is forgotten by the server (server.c:133-136, 188).       *)
THEOREM ConnectionsAccounted == Spec => []NoConnLeak
<1>1. IInv => NoConnLeak
  BY DEF IInv, HoldInv
<1> QED
  BY <1>1, Invariance, PTL

(* At most one request is taken up after the flag is set (server.c:118).   *)
THEOREM OneLateRequest == Spec => []LateAtMostOne
<1>1. IInv => LateAtMostOne
  BY DEF IInv, LateInv, LateAtMostOne
<1> QED
  BY <1>1, Invariance, PTL

(* Without a crash an end of file is an empty answer (server.c:187).       *)
THEOREM EofIsAnAnswer == Spec => []EofIsEmptyUntilCrash
<1>1. IInv => EofIsEmptyUntilCrash
  BY DEF IInv
<1> QED
  BY <1>1, Invariance, PTL
=============================================================================
