--------------------------- MODULE DgramRpcProofs ---------------------------
(***************************************************************************)
(* Theorems about DgramRpc, for any clients, users, ports, number of       *)
(* copies and restarts.  The inductive invariant is split by subject:      *)
(*                                                                         *)
(*   TypeOK     types                                                      *)
(*   PortInv    who has sent a request has a port                          *)
(*   LateInv    the flag and the count of requests taken up after it       *)
(*   AllowInv   whose request is in hand, and who was allowed since        *)
(*   OutInv     whose output lies in the shared file, until a crash        *)
(*   RanInv     bytes and background processes belong to started commands  *)
(*   CopyInv    starts, the request in hand, and the copies still to come, *)
(*              are at most as many as there were copies                   *)
(***************************************************************************)
EXTENDS DgramRpc, FiniteSetTheorems, TLAPS

PortInv ==
  /\ \A q \in reqs : port[q[1]] # None
  /\ peer # None => port[peer] # None

LateInv ==
  /\ late <= 1
  /\ pc = "recvfrom" \/ (pc # "off" /\ ~stop) => late = 0

AllowInv ==
  /\ pc = "auth" => user_conf \in okNames
  /\ pc \in {"auth", "exec"} => req.name = UserOf[peer]
  /\ pc \in {"exec", "running"} => UserOf[peer] \in okNames

OutInv ==
  ~crashed =>
    /\ pc \notin {"running", "read"} => outfile = {} /\ writers = {}
    /\ outfile \subseteq {peer} /\ writers \subseteq {peer}
    /\ pc = "send" /\ resp.kind = "output" => resp.of = {peer}

RanInv ==
  /\ \A d \in outfile \union jobs : execs[d] > 0
  /\ \A d \in resp.of : execs[d] > 0

Copies(c) == {k \in 1 .. MaxCopies : <<c, k>> \in reqs}
Pending(c) == IF peer = c /\ pc \in {"auth", "exec"} THEN 1 ELSE 0

CopyInv ==
  \A c \in Clients :
    /\ execs[c] + Cardinality(Copies(c)) + Pending(c) <= MaxCopies
    /\ cl[c] = "send" => execs[c] = 0 /\ Copies(c) = {} /\ peer # c

IInv ==
  /\ TypeOK /\ PortInv /\ LateInv /\ AllowInv /\ OutInv /\ RanInv /\ CopyInv
  /\ OwnOutputUntilCrash

-----------------------------------------------------------------------------
(* No step of a client or of the network touches the server.               *)
LEMMA NetAside ==
  Lose \/ (\E c \in Clients : SendReq(c) \/ ReceiveReply(c) \/ Kill(c)) => UNCHANGED srvVars
  BY DEF Lose, SendReq, ReceiveReply, Kill

(* Type correctness; the two Boolean variables by themselves.              *)
Flags == stop \in BOOLEAN /\ crashed \in BOOLEAN

Data ==
  /\ pc \in Labels /\ peer \in IF Idle THEN {None} ELSE Clients
  /\ req \in Requests /\ resp \in Replies
  /\ user_conf \in Names /\ okNames \in SUBSET Names
  /\ outfile \in SUBSET Clients
  /\ jobs \in SUBSET Clients /\ writers \in SUBSET jobs
  /\ boots \in Nat /\ late \in Nat /\ execs \in [Clients -> Nat]

Net ==
  /\ cl \in [Clients -> ClientStates]
  /\ port \in [Clients -> Ports \union {None}]
  /\ reqs \in SUBSET (Clients \X (1 .. MaxCopies))
  /\ replies \in SUBSET [port : Ports, to : Clients, body : Replies]
  /\ got \in [Clients -> {Nothing} \union [port : Ports, to : Clients, body : Replies]]

LEMMA TypeParts == TypeOK <=> Flags /\ Data /\ Net
  BY DEF TypeOK, HandlerTypeOK, Flags, Data, Net

(* The flags keep their type.                                              *)
LEMMA FlagsStep == Flags /\ [Next]_vars => Flags'
<1> SUFFICES ASSUME Flags, [Next]_vars PROVE Flags'
  OBVIOUS
<1> USE DEF Flags, reqVars, jobVars, histVars
<1>1. CASE Boot /\ UNCHANGED netVars
  BY <1>1 DEF Boot, netVars
<1>2. CASE Check("recvfrom") /\ UNCHANGED netVars
  BY <1>2 DEF Check, netVars
<1>3. CASE RecvFrom
  BY <1>3 DEF RecvFrom, Parsed, TakesUp, netVars
<1>4. CASE Auth /\ UNCHANGED netVars
  BY <1>4 DEF Auth, netVars
<1>5. CASE Exec /\ UNCHANGED netVars
  BY <1>5 DEF Exec, netVars
<1>6. CASE CommandEnds /\ UNCHANGED netVars
  BY <1>6 DEF CommandEnds, LeftRunning, netVars
<1>7. CASE ReadOutput /\ UNCHANGED netVars
  BY <1>7 DEF ReadOutput, netVars
<1>8. CASE SendTo
  BY <1>8 DEF SendTo, EndIteration, NoRequest, netVars
<1>9. CASE Shutdown
  BY <1>9 DEF Shutdown, ProcessGone, LeftRunning, NoRequest, netVars
<1>10. CASE RecvFromFail
  BY <1>10 DEF RecvFromFail, netVars
<1>11. CASE Crash
  BY <1>11 DEF Crash, ProcessGone, LeftRunning, NoRequest, netVars
<1>12. CASE (\E sig \in {"SIGINT", "SIGTERM"} : handle_signal(sig)) /\ UNCHANGED netVars
  BY <1>12 DEF handle_signal, netVars
<1>13. CASE EditUsers /\ UNCHANGED netVars
  BY <1>13 DEF EditUsers, netVars
<1>14. CASE JobWrites /\ UNCHANGED netVars
  BY <1>14 DEF JobWrites, netVars
<1>15. CASE \E c \in Clients : JobEnds(c) /\ UNCHANGED netVars
  BY <1>15 DEF JobEnds, netVars
<1>16. CASE Lose \/ \E c \in Clients : SendReq(c) \/ ReceiveReply(c) \/ Kill(c)
  BY <1>16, NetAside DEF srvVars
<1>17. CASE UNCHANGED vars
  BY <1>17 DEF vars, srvVars, netVars
<1> QED
  BY <1>1, <1>2, <1>3, <1>4, <1>5, <1>6, <1>7, <1>8, <1>9,
     <1>10, <1>11, <1>12, <1>13, <1>14, <1>15, <1>16, <1>17
  DEF Next, ServerStep, HandlerStep, HandlerEnv

(* So do the server's other variables.                                     *)
LEMMA DataStep == TypeOK /\ [Next]_vars => Data'
<1> SUFFICES ASSUME TypeOK, [Next]_vars PROVE Data'
  OBVIOUS
<1> Data /\ Net
  BY TypeParts
<1> USE HandlerAssumption DEF Data, reqVars, jobVars, histVars, Idle, Labels, Levels
<1>1. CASE Boot /\ UNCHANGED netVars
  BY <1>1 DEF Boot, netVars
<1>2. CASE Check("recvfrom") /\ UNCHANGED netVars
  BY <1>2 DEF Check, netVars
<1>3. CASE RecvFrom
  BY <1>3 DEF RecvFrom, Parsed, TakesUp, netVars, Requests, NoBytes, Whole, Net
<1>4. CASE Auth /\ UNCHANGED netVars
  BY <1>4 DEF Auth, netVars, Reply, Replies, Kinds
<1>5. CASE Exec /\ UNCHANGED netVars
  BY <1>5 DEF Exec, netVars
<1>6. CASE CommandEnds /\ UNCHANGED netVars
  BY <1>6 DEF CommandEnds, LeftRunning, netVars
<1>7. CASE ReadOutput /\ UNCHANGED netVars
  BY <1>7 DEF ReadOutput, netVars, Reply, Replies, Kinds
<1>8. CASE SendTo
  BY <1>8 DEF SendTo, EndIteration, NoRequest, netVars, NoReq, NoReply, Reply, Requests,
      Replies, NoBytes, Whole, Kinds
<1>9. CASE Shutdown
  BY <1>9 DEF Shutdown, ProcessGone, LeftRunning, NoRequest, netVars, NoReq, NoReply, Reply, Requests,
      Replies, NoBytes, Whole, Kinds
<1>10. CASE RecvFromFail
  BY <1>10 DEF RecvFromFail, netVars
<1>11. CASE Crash
  BY <1>11 DEF Crash, ProcessGone, LeftRunning, NoRequest, netVars, NoReq, NoReply, Reply, Requests,
      Replies, NoBytes, Whole, Kinds
<1>12. CASE (\E sig \in {"SIGINT", "SIGTERM"} : handle_signal(sig)) /\ UNCHANGED netVars
  BY <1>12 DEF handle_signal, netVars
<1>13. CASE EditUsers /\ UNCHANGED netVars
  BY <1>13 DEF EditUsers, netVars
<1>14. CASE JobWrites /\ UNCHANGED netVars
  BY <1>14 DEF JobWrites, netVars
<1>15. CASE \E c \in Clients : JobEnds(c) /\ UNCHANGED netVars
  BY <1>15 DEF JobEnds, netVars
<1>16. CASE Lose \/ \E c \in Clients : SendReq(c) \/ ReceiveReply(c) \/ Kill(c)
  BY <1>16, NetAside DEF srvVars
<1>17. CASE UNCHANGED vars
  BY <1>17 DEF vars, srvVars, netVars
<1> QED
  BY <1>1, <1>2, <1>3, <1>4, <1>5, <1>6, <1>7, <1>8, <1>9,
     <1>10, <1>11, <1>12, <1>13, <1>14, <1>15, <1>16, <1>17
  DEF Next, ServerStep, HandlerStep, HandlerEnv

(* And what is on the way.                                                 *)
LEMMA NetStep == TypeOK /\ PortInv /\ [Next]_vars => Net'
<1> SUFFICES ASSUME TypeOK, PortInv, [Next]_vars PROVE Net'
  OBVIOUS
<1> Net /\ Data
  BY TypeParts
<1> USE DEF Net, ClientStates, Ended
<1>1. CASE UNCHANGED netVars
  BY <1>1 DEF netVars
<1>2. CASE RecvFrom
  BY <1>2 DEF RecvFrom
<1>3. CASE SendTo
  <2>1. peer \in Clients /\ peer # None /\ resp \in Replies
    BY <1>3, HandlerAssumption DEF SendTo, Data, Idle
  <2>2. port[peer] \in Ports
    BY <2>1 DEF PortInv
  <2>3. [port |-> port[peer], to |-> peer, body |-> resp]
          \in [port : Ports, to : Clients, body : Replies]
    BY <2>1, <2>2
  <2>4. QED
    BY <1>3, <2>3 DEF SendTo
<1>4. CASE Lose
  BY <1>4 DEF Lose
<1>5. ASSUME NEW c \in Clients, SendReq(c)
      PROVE  Net'
  <2>1. UNCHANGED <<replies, got>> /\ cl' \in [Clients -> ClientStates]
    BY <1>5 DEF SendReq, ClientGoes
  <2>2. port' \in [Clients -> Ports \union {None}] /\ reqs' \in SUBSET (Clients \X (1 .. MaxCopies))
    BY <1>5 DEF SendReq
  <2>3. QED
    BY <2>1, <2>2
<1>6. ASSUME NEW c \in Clients, ReceiveReply(c)
      PROVE  Net'
  BY <1>6 DEF ReceiveReply, ClientGoes
<1>7. ASSUME NEW c \in Clients, Kill(c)
      PROVE  Net'
  BY <1>7 DEF Kill, ClientGoes
<1>8. CASE UNCHANGED vars
  BY <1>1, <1>8 DEF vars
<1>9. QED
  BY <1>1, <1>2, <1>3, <1>4, <1>5, <1>6, <1>7, <1>8
  DEF Next, ServerStep, Shutdown, Crash, RecvFromFail

LEMMA TypeStep == TypeOK /\ PortInv /\ [Next]_vars => TypeOK'
<1>1. TypeParts'
  BY TypeParts, PTL
<1> QED
  BY <1>1, TypeParts, FlagsStep, DataStep, NetStep

(* A port is given when the request is sent, and never taken away.         *)
LEMMA PortStep == TypeOK /\ PortInv /\ [Next]_vars => PortInv'
<1> SUFFICES ASSUME TypeOK, PortInv, [Next]_vars PROVE PortInv'
  OBVIOUS
<1> Net /\ Data
  BY TypeParts
<1> USE DEF PortInv, Net
<1>1. CASE peer' \in {peer, None} /\ UNCHANGED <<port, reqs>>
  BY <1>1
<1>2. CASE RecvFrom
  BY <1>2 DEF RecvFrom
<1>3. CASE Lose
  BY <1>3 DEF Lose, srvVars, reqVars
<1>4. ASSUME NEW c \in Clients, SendReq(c)
      PROVE  PortInv'
  <2>1. peer' = peer /\ peer \in Clients \union {None}
    BY <1>4 DEF SendReq, srvVars, reqVars, Data
  <2>2. CASE UNCHANGED <<port, reqs>>
    BY <2>1, <2>2
  <2>3. ASSUME NEW p \in Ports, port' = [port EXCEPT ![c] = p],
               reqs' = reqs \union ({c} \X (1 .. MaxCopies))
        PROVE  PortInv'
    <3>1. p # None /\ port'[c] = p /\ \A d \in Clients \ {c} : port'[d] = port[d]
      BY <2>3, DgramAssumption
    <3>2. \A q \in reqs' : q[1] \in Clients /\ (q[1] = c \/ q \in reqs)
      BY <2>3
    <3>3. QED
      BY <2>1, <3>1, <3>2
  <2>4. QED
    BY <1>4, <2>2, <2>3 DEF SendReq
<1>5. ASSUME NEW c \in Clients, ReceiveReply(c) \/ Kill(c)
      PROVE  PortInv'
  BY <1>5 DEF ReceiveReply, Kill, srvVars, reqVars
<1>6. CASE SendTo
  BY <1>1, <1>6 DEF SendTo, EndIteration, NoRequest
<1>7. CASE Shutdown \/ Crash
  BY <1>1, <1>7 DEF Shutdown, Crash, ProcessGone, NoRequest, netVars
<1>8. CASE (Boot \/ Check("recvfrom") \/ HandlerStep) /\ UNCHANGED netVars
  BY <1>1, <1>8 DEF Boot, Check, HandlerStep, Auth, Exec, CommandEnds, ReadOutput, netVars, reqVars
<1>9. CASE RecvFromFail \/ UNCHANGED vars
  BY <1>1, <1>9 DEF RecvFromFail, vars, srvVars, netVars, reqVars
<1>10. CASE (HandlerEnv \/ \E c \in Clients : JobEnds(c)) /\ UNCHANGED netVars
  BY <1>1, <1>10 DEF HandlerEnv, handle_signal, EditUsers, JobWrites, JobEnds, netVars, reqVars
<1>11. QED
  BY <1>2, <1>3, <1>4, <1>5, <1>6, <1>7, <1>8, <1>9, <1>10 DEF Next, ServerStep

-----------------------------------------------------------------------------
(* The server alone, as in StreamRpcProofs.                                *)

(* Taking up a request after the flag needs recvfrom, which is passed once.*)
LEMMA LateStep == TypeOK /\ LateInv /\ [Next]_vars => LateInv'
<1> SUFFICES ASSUME TypeOK, LateInv, [Next]_vars PROVE LateInv'
  OBVIOUS
<1> USE DEF LateInv, TypeOK, HandlerTypeOK, Labels, reqVars, jobVars, histVars
<1>1. CASE Boot /\ UNCHANGED netVars
  BY <1>1 DEF Boot, netVars
<1>2. CASE Check("recvfrom") /\ UNCHANGED netVars
  BY <1>2 DEF Check, netVars
<1>3. CASE RecvFrom
  BY <1>3 DEF RecvFrom, Parsed, TakesUp, netVars
<1>4. CASE Auth /\ UNCHANGED netVars
  BY <1>4 DEF Auth, netVars
<1>5. CASE Exec /\ UNCHANGED netVars
  BY <1>5 DEF Exec, netVars
<1>6. CASE CommandEnds /\ UNCHANGED netVars
  BY <1>6 DEF CommandEnds, LeftRunning, netVars
<1>7. CASE ReadOutput /\ UNCHANGED netVars
  BY <1>7 DEF ReadOutput, netVars
<1>8. CASE SendTo
  BY <1>8 DEF SendTo, EndIteration, NoRequest, netVars
<1>9. CASE Shutdown
  BY <1>9 DEF Shutdown, ProcessGone, LeftRunning, NoRequest, netVars
<1>10. CASE RecvFromFail
  BY <1>10 DEF RecvFromFail, netVars
<1>11. CASE Crash
  BY <1>11 DEF Crash, ProcessGone, LeftRunning, NoRequest, netVars
<1>12. CASE (\E sig \in {"SIGINT", "SIGTERM"} : handle_signal(sig)) /\ UNCHANGED netVars
  BY <1>12 DEF handle_signal, netVars
<1>13. CASE EditUsers /\ UNCHANGED netVars
  BY <1>13 DEF EditUsers, netVars
<1>14. CASE JobWrites /\ UNCHANGED netVars
  BY <1>14 DEF JobWrites, netVars
<1>15. CASE \E c \in Clients : JobEnds(c) /\ UNCHANGED netVars
  BY <1>15 DEF JobEnds, netVars
<1>16. CASE Lose \/ \E c \in Clients : SendReq(c) \/ ReceiveReply(c) \/ Kill(c)
  BY <1>16, NetAside DEF srvVars
<1>17. CASE UNCHANGED vars
  BY <1>17 DEF vars, srvVars, netVars
<1> QED
  BY <1>1, <1>2, <1>3, <1>4, <1>5, <1>6, <1>7, <1>8, <1>9,
     <1>10, <1>11, <1>12, <1>13, <1>14, <1>15, <1>16, <1>17
  DEF Next, ServerStep, HandlerStep, HandlerEnv

(* The name checked is the name received; edits only add to okNames.       *)
LEMMA AllowStep == TypeOK /\ AllowInv /\ [Next]_vars => AllowInv'
<1> SUFFICES ASSUME TypeOK, AllowInv, [Next]_vars PROVE AllowInv'
  OBVIOUS
<1> USE DEF AllowInv, TypeOK, HandlerTypeOK, Labels, reqVars, jobVars, histVars
<1>1. CASE Boot /\ UNCHANGED netVars
  BY <1>1 DEF Boot, netVars
<1>2. CASE Check("recvfrom") /\ UNCHANGED netVars
  BY <1>2 DEF Check, netVars
<1>3. CASE RecvFrom
  BY <1>3 DEF RecvFrom, Parsed, TakesUp, netVars
<1>4. CASE Auth /\ UNCHANGED netVars
  BY <1>4 DEF Auth, netVars, user_allowed
<1>5. CASE Exec /\ UNCHANGED netVars
  BY <1>5 DEF Exec, netVars
<1>6. CASE CommandEnds /\ UNCHANGED netVars
  BY <1>6 DEF CommandEnds, LeftRunning, netVars
<1>7. CASE ReadOutput /\ UNCHANGED netVars
  BY <1>7 DEF ReadOutput, netVars
<1>8. CASE SendTo
  BY <1>8 DEF SendTo, EndIteration, NoRequest, netVars
<1>9. CASE Shutdown
  BY <1>9 DEF Shutdown, ProcessGone, LeftRunning, NoRequest, netVars
<1>10. CASE RecvFromFail
  BY <1>10 DEF RecvFromFail, netVars
<1>11. CASE Crash
  BY <1>11 DEF Crash, ProcessGone, LeftRunning, NoRequest, netVars
<1>12. CASE (\E sig \in {"SIGINT", "SIGTERM"} : handle_signal(sig)) /\ UNCHANGED netVars
  BY <1>12 DEF handle_signal, netVars
<1>13. CASE EditUsers /\ UNCHANGED netVars
  BY <1>13 DEF EditUsers, netVars
<1>14. CASE JobWrites /\ UNCHANGED netVars
  BY <1>14 DEF JobWrites, netVars
<1>15. CASE \E c \in Clients : JobEnds(c) /\ UNCHANGED netVars
  BY <1>15 DEF JobEnds, netVars
<1>16. CASE Lose \/ \E c \in Clients : SendReq(c) \/ ReceiveReply(c) \/ Kill(c)
  BY <1>16, NetAside DEF srvVars
<1>17. CASE UNCHANGED vars
  BY <1>17 DEF vars, srvVars, netVars
<1> QED
  BY <1>1, <1>2, <1>3, <1>4, <1>5, <1>6, <1>7, <1>8, <1>9,
     <1>10, <1>11, <1>12, <1>13, <1>14, <1>15, <1>16, <1>17
  DEF Next, ServerStep, HandlerStep, HandlerEnv

(* One request at a time uses the file, and it removes it.                 *)
LEMMA OutStep == TypeOK /\ OutInv /\ [Next]_vars => OutInv'
<1> SUFFICES ASSUME TypeOK, OutInv, [Next]_vars PROVE OutInv'
  OBVIOUS
<1> USE DEF OutInv, Idle, TypeOK, HandlerTypeOK, Labels, reqVars, jobVars, histVars
<1>1. CASE Boot /\ UNCHANGED netVars
  BY <1>1 DEF Boot, netVars
<1>2. CASE Check("recvfrom") /\ UNCHANGED netVars
  BY <1>2 DEF Check, netVars
<1>3. CASE RecvFrom
  BY <1>3 DEF RecvFrom, Parsed, TakesUp, netVars
<1>4. CASE Auth /\ UNCHANGED netVars
  BY <1>4 DEF Auth, netVars, Reply
<1>5. CASE Exec /\ UNCHANGED netVars
  BY <1>5 DEF Exec, netVars
<1>6. CASE CommandEnds /\ UNCHANGED netVars
  BY <1>6 DEF CommandEnds, LeftRunning, netVars
<1>7. CASE ReadOutput /\ UNCHANGED netVars
  BY <1>7 DEF ReadOutput, netVars, Reply
<1>8. CASE SendTo
  BY <1>8 DEF SendTo, EndIteration, NoRequest, netVars
<1>9. CASE Shutdown
  BY <1>9 DEF Shutdown, ProcessGone, LeftRunning, NoRequest, netVars
<1>10. CASE RecvFromFail
  BY <1>10 DEF RecvFromFail, netVars
<1>11. CASE Crash
  BY <1>11 DEF Crash, ProcessGone, LeftRunning, NoRequest, netVars
<1>12. CASE (\E sig \in {"SIGINT", "SIGTERM"} : handle_signal(sig)) /\ UNCHANGED netVars
  BY <1>12 DEF handle_signal, netVars
<1>13. CASE EditUsers /\ UNCHANGED netVars
  BY <1>13 DEF EditUsers, netVars
<1>14. CASE JobWrites /\ UNCHANGED netVars
  BY <1>14 DEF JobWrites, netVars
<1>15. CASE \E c \in Clients : JobEnds(c) /\ UNCHANGED netVars
  BY <1>15 DEF JobEnds, netVars
<1>16. CASE Lose \/ \E c \in Clients : SendReq(c) \/ ReceiveReply(c) \/ Kill(c)
  BY <1>16, NetAside DEF srvVars
<1>17. CASE UNCHANGED vars
  BY <1>17 DEF vars, srvVars, netVars
<1> QED
  BY <1>1, <1>2, <1>3, <1>4, <1>5, <1>6, <1>7, <1>8, <1>9,
     <1>10, <1>11, <1>12, <1>13, <1>14, <1>15, <1>16, <1>17
  DEF Next, ServerStep, HandlerStep, HandlerEnv

(* What is written was written by a command that was started.              *)
LEMMA RanStep == TypeOK /\ RanInv /\ [Next]_vars => RanInv'
<1> SUFFICES ASSUME TypeOK, RanInv, [Next]_vars PROVE RanInv'
  OBVIOUS
<1> USE DEF RanInv, Idle, TypeOK, HandlerTypeOK, Labels, reqVars, jobVars, histVars
<1>1. CASE Boot /\ UNCHANGED netVars
  BY <1>1 DEF Boot, netVars
<1>2. CASE Check("recvfrom") /\ UNCHANGED netVars
  BY <1>2 DEF Check, netVars
<1>3. CASE RecvFrom
  BY <1>3 DEF RecvFrom, Parsed, TakesUp, netVars
<1>4. CASE Auth /\ UNCHANGED netVars
  BY <1>4 DEF Auth, netVars, Reply
<1>5. CASE Exec /\ UNCHANGED netVars
  BY <1>5 DEF Exec, netVars
<1>6. CASE CommandEnds /\ UNCHANGED netVars
  BY <1>6 DEF CommandEnds, LeftRunning, netVars
<1>7. CASE ReadOutput /\ UNCHANGED netVars
  BY <1>7 DEF ReadOutput, netVars, Reply
<1>8. CASE SendTo
  BY <1>8 DEF SendTo, EndIteration, NoRequest, netVars, NoReply, Reply
<1>9. CASE Shutdown
  BY <1>9 DEF Shutdown, ProcessGone, LeftRunning, NoRequest, netVars, NoReply, Reply
<1>10. CASE RecvFromFail
  BY <1>10 DEF RecvFromFail, netVars
<1>11. CASE Crash
  BY <1>11 DEF Crash, ProcessGone, LeftRunning, NoRequest, netVars, NoReply, Reply
<1>12. CASE (\E sig \in {"SIGINT", "SIGTERM"} : handle_signal(sig)) /\ UNCHANGED netVars
  BY <1>12 DEF handle_signal, netVars
<1>13. CASE EditUsers /\ UNCHANGED netVars
  BY <1>13 DEF EditUsers, netVars
<1>14. CASE JobWrites /\ UNCHANGED netVars
  BY <1>14 DEF JobWrites, netVars
<1>15. CASE \E c \in Clients : JobEnds(c) /\ UNCHANGED netVars
  BY <1>15 DEF JobEnds, netVars
<1>16. CASE Lose \/ \E c \in Clients : SendReq(c) \/ ReceiveReply(c) \/ Kill(c)
  BY <1>16, NetAside DEF srvVars
<1>17. CASE UNCHANGED vars
  BY <1>17 DEF vars, srvVars, netVars
<1> QED
  BY <1>1, <1>2, <1>3, <1>4, <1>5, <1>6, <1>7, <1>8, <1>9,
     <1>10, <1>11, <1>12, <1>13, <1>14, <1>15, <1>16, <1>17
  DEF Next, ServerStep, HandlerStep, HandlerEnv

-----------------------------------------------------------------------------
(* Counting copies.                                                        *)
LEMMA CopiesFinite ==
  ASSUME NEW c \in Clients
  PROVE  /\ IsFiniteSet(Copies(c)) /\ Cardinality(Copies(c)) \in Nat
         /\ Cardinality(Copies(c)) <= MaxCopies
<1>1. MaxCopies \in Nat
  BY DgramAssumption
<1>2. IsFiniteSet(1 .. MaxCopies) /\ Cardinality(1 .. MaxCopies) = MaxCopies
  BY <1>1, FS_Interval
<1>3. Copies(c) \subseteq 1 .. MaxCopies
  BY DEF Copies
<1>4. IsFiniteSet(Copies(c)) /\ Cardinality(Copies(c)) <= Cardinality(1 .. MaxCopies)
  BY <1>2, <1>3, FS_Subset
<1>5. QED
  BY <1>2, <1>4, FS_CardinalityType

(* Steps that start nothing and take nothing up.                           *)
LEMMA CopyQuiet ==
  ASSUME TypeOK, CopyInv, UNCHANGED execs, UNCHANGED reqs, UNCHANGED cl,
         peer' \in {peer, None},
         \A c \in Clients : Pending(c)' <= Pending(c)
  PROVE  CopyInv'
<1>1. \A c \in Clients : Copies(c)' = Copies(c)
  BY DEF Copies
<1>2. \A c \in Clients : Pending(c) \in {0, 1} /\ Pending(c)' \in {0, 1}
  BY DEF Pending
<1>3. ASSUME NEW c \in Clients
      PROVE  execs'[c] + Cardinality(Copies(c)') + Pending(c)' <= MaxCopies
  <2>1. execs[c] + Cardinality(Copies(c)) + Pending(c) <= MaxCopies
    BY DEF CopyInv
  <2>2. execs[c] \in Nat /\ Cardinality(Copies(c)) \in Nat /\ MaxCopies \in Nat
    BY CopiesFinite, DgramAssumption DEF TypeOK, HandlerTypeOK
  <2>3. Pending(c)' <= Pending(c) /\ Copies(c)' = Copies(c) /\ execs'[c] = execs[c]
    BY <1>1
  <2>4. QED
    BY <1>2, <2>1, <2>2, <2>3
<1>4. ASSUME NEW c \in Clients, cl'[c] = "send"
      PROVE  execs'[c] = 0 /\ Copies(c)' = {} /\ peer' # c
  BY <1>1, <1>4, HandlerAssumption DEF CopyInv
<1>5. QED
  BY <1>3, <1>4 DEF CopyInv

LEMMA CopyRecvFrom ==
  ASSUME TypeOK, CopyInv, RecvFrom
  PROVE  CopyInv'
<1>1. PICK q \in reqs : peer' = q[1] /\ reqs' = reqs \ {q} /\ pc' = "auth"
  BY DEF RecvFrom, Parsed
<1>2. /\ UNCHANGED <<execs, cl>> /\ pc = "recvfrom"
      /\ q[1] \in Clients /\ q[2] \in 1 .. MaxCopies /\ q = <<q[1], q[2]>>
  BY <1>1 DEF RecvFrom, TypeOK
<1>3. Copies(q[1])' = Copies(q[1]) \ {q[2]} /\ q[2] \in Copies(q[1])
  BY <1>1, <1>2 DEF Copies
<1>4. \A c \in Clients \ {q[1]} : Copies(c)' = Copies(c)
  BY <1>1, <1>2 DEF Copies
<1>5. ASSUME NEW c \in Clients
      PROVE  execs'[c] + Cardinality(Copies(c)') + Pending(c)' <= MaxCopies
  <2>1. execs[c] + Cardinality(Copies(c)) + Pending(c) <= MaxCopies
    BY DEF CopyInv
  <2>2. execs[c] \in Nat /\ Cardinality(Copies(c)) \in Nat /\ IsFiniteSet(Copies(c)) /\ MaxCopies \in Nat
    BY CopiesFinite, DgramAssumption DEF TypeOK, HandlerTypeOK
  <2>3. Pending(c) = 0
    BY <1>2 DEF Pending
  <2>4. CASE c = q[1]
    <3>1. Cardinality(Copies(c)') = Cardinality(Copies(c)) - 1
      BY <1>3, <2>2, <2>4, FS_RemoveElement
    <3>2. Pending(c)' = 1
      BY <1>1, <2>4 DEF Pending
    <3>3. QED
      BY <1>2, <2>1, <2>2, <2>3, <3>1, <3>2
  <2>5. CASE c # q[1]
    <3>1. Copies(c)' = Copies(c) /\ Pending(c)' = 0
      BY <1>1, <1>4, <2>5 DEF Pending
    <3>2. QED
      BY <1>2, <2>1, <2>2, <2>3, <3>1
  <2>6. QED
    BY <2>4, <2>5
<1>6. ASSUME NEW c \in Clients, cl'[c] = "send"
      PROVE  execs'[c] = 0 /\ Copies(c)' = {} /\ peer' # c
  <2>1. Copies(c) = {} /\ execs[c] = 0
    BY <1>2, <1>6 DEF CopyInv
  <2>2. c # q[1]
    BY <1>3, <2>1
  <2>3. QED
    BY <1>1, <1>2, <1>4, <2>1, <2>2
<1>7. QED
  BY <1>5, <1>6 DEF CopyInv

LEMMA CopyExec ==
  ASSUME TypeOK, CopyInv, Exec, UNCHANGED netVars
  PROVE  CopyInv'
<1>1. /\ pc = "exec" /\ pc' = "running" /\ peer' = peer /\ peer \in Clients
      /\ reqs' = reqs /\ cl' = cl /\ execs \in [Clients -> Nat]
      /\ execs' = execs \/ execs' = [execs EXCEPT ![peer] = @ + 1]
  BY DEF Exec, netVars, reqVars, TypeOK, HandlerTypeOK, Idle
<1>2. \A c \in Clients : Copies(c)' = Copies(c)
  BY <1>1 DEF Copies
<1>3. ASSUME NEW c \in Clients
      PROVE  execs'[c] + Cardinality(Copies(c)') + Pending(c)' <= MaxCopies
  <2>1. execs[c] + Cardinality(Copies(c)) + Pending(c) <= MaxCopies
    BY DEF CopyInv
  <2>2. execs[c] \in Nat /\ Cardinality(Copies(c)) \in Nat /\ MaxCopies \in Nat
    BY <1>1, CopiesFinite, DgramAssumption
  <2>3. Pending(c)' = 0 /\ Copies(c)' = Copies(c)
    BY <1>1, <1>2 DEF Pending
  <2>4. execs'[c] \in Nat /\ execs'[c] <= execs[c] + Pending(c) /\ Pending(c) \in {0, 1}
    BY <1>1, <2>2 DEF Pending
  <2>5. QED
    BY <2>1, <2>2, <2>3, <2>4
<1>4. ASSUME NEW c \in Clients, cl'[c] = "send"
      PROVE  execs'[c] = 0 /\ Copies(c)' = {} /\ peer' # c
  BY <1>1, <1>2, <1>4 DEF CopyInv
<1>5. QED
  BY <1>3, <1>4 DEF CopyInv

LEMMA CopySendReq ==
  ASSUME TypeOK, CopyInv, NEW d \in Clients, SendReq(d)
  PROVE  CopyInv'
<1>1. UNCHANGED <<execs, peer, pc>> /\ cl[d] = "send" /\ cl'[d] # "send"
  BY DEF SendReq, ClientGoes, srvVars, reqVars, histVars, TypeOK
<1>2. \A c \in Clients \ {d} : Copies(c)' = Copies(c) /\ cl'[c] = cl[c]
  BY DEF SendReq, ClientGoes, Copies, TypeOK
<1>3. \A c \in Clients : Pending(c)' = Pending(c)
  BY <1>1 DEF Pending
<1>4. \A c \in Clients \ {d} : execs'[c] + Cardinality(Copies(c)') + Pending(c)' <= MaxCopies
  BY <1>1, <1>2, <1>3 DEF CopyInv
<1>5. execs'[d] + Cardinality(Copies(d)') + Pending(d)' <= MaxCopies
  <2>1. execs[d] = 0 /\ Pending(d) = 0
    BY <1>1 DEF CopyInv, Pending
  <2>2. MaxCopies \in Nat
    BY DgramAssumption
  <2>3. IsFiniteSet(1 .. MaxCopies) /\ Cardinality(1 .. MaxCopies) = MaxCopies
    BY <2>2, FS_Interval
  <2>4. Copies(d)' \subseteq 1 .. MaxCopies
    BY DEF Copies
  <2>5. IsFiniteSet(Copies(d)') /\ Cardinality(Copies(d)') <= MaxCopies
    BY <2>3, <2>4, FS_Subset
  <2>6. Cardinality(Copies(d)') \in Nat
    BY <2>5, FS_CardinalityType
  <2>7. QED
    BY <1>1, <1>3, <2>1, <2>2, <2>5, <2>6
<1>6. \A c \in Clients : cl'[c] = "send" => execs'[c] = 0 /\ Copies(c)' = {} /\ peer' # c
  BY <1>1, <1>2 DEF CopyInv
<1>7. QED
  BY <1>4, <1>5, <1>6 DEF CopyInv

LEMMA CopyLose ==
  ASSUME TypeOK, CopyInv, Lose
  PROVE  CopyInv'
<1>1. UNCHANGED <<execs, peer, pc, cl>> /\ reqs' \subseteq reqs
  BY DEF Lose, srvVars, reqVars, histVars
<1>2. ASSUME NEW c \in Clients
      PROVE  /\ Cardinality(Copies(c)') \in Nat /\ Cardinality(Copies(c)') <= Cardinality(Copies(c))
             /\ Copies(c)' \subseteq Copies(c)
  <2>1. Copies(c)' \subseteq Copies(c)
    BY <1>1 DEF Copies
  <2>2. IsFiniteSet(Copies(c)') /\ Cardinality(Copies(c)') <= Cardinality(Copies(c))
    BY <2>1, CopiesFinite, FS_Subset
  <2>3. QED
    BY <2>1, <2>2, FS_CardinalityType
<1>3. ASSUME NEW c \in Clients
      PROVE  execs'[c] + Cardinality(Copies(c)') + Pending(c)' <= MaxCopies
  <2>1. execs[c] + Cardinality(Copies(c)) + Pending(c) <= MaxCopies
    BY DEF CopyInv
  <2>2. execs[c] \in Nat /\ Cardinality(Copies(c)) \in Nat /\ MaxCopies \in Nat
    BY CopiesFinite, DgramAssumption DEF TypeOK, HandlerTypeOK
  <2>3. Pending(c)' = Pending(c) /\ Pending(c) \in {0, 1} /\ execs'[c] = execs[c]
    BY <1>1 DEF Pending
  <2>4. QED
    BY <1>2, <2>1, <2>2, <2>3
<1>4. ASSUME NEW c \in Clients, cl'[c] = "send"
      PROVE  execs'[c] = 0 /\ Copies(c)' = {} /\ peer' # c
  BY <1>1, <1>2, <1>4 DEF CopyInv
<1>5. QED
  BY <1>3, <1>4 DEF CopyInv

LEMMA CopyStep == TypeOK /\ CopyInv /\ [Next]_vars => CopyInv'
<1> SUFFICES ASSUME TypeOK, CopyInv, [Next]_vars PROVE CopyInv'
  OBVIOUS
<1>1. CASE UNCHANGED <<execs, reqs, cl>> /\ peer' = peer /\ pc' = pc
  BY <1>1, CopyQuiet DEF Pending
<1>2. CASE UNCHANGED <<execs, reqs, cl>> /\ peer' \in {peer, None}
           /\ (pc' \notin {"auth", "exec"} \/ (pc = "auth" /\ peer' = peer))
  BY <1>2, CopyQuiet DEF Pending
<1>3. CASE RecvFrom
  BY <1>3, CopyRecvFrom
<1>4. CASE Exec /\ UNCHANGED netVars
  BY <1>4, CopyExec
<1>5. CASE Lose
  BY <1>5, CopyLose
<1>6. ASSUME NEW c \in Clients, SendReq(c)
      PROVE  CopyInv'
  BY <1>6, CopySendReq
<1>7. ASSUME NEW c \in Clients, ReceiveReply(c) \/ Kill(c)
      PROVE  CopyInv'
  <2>1. /\ UNCHANGED <<execs, peer, pc, reqs>>
        /\ \A d \in Clients : cl'[d] = "send" => cl[d] = "send"
    BY <1>7 DEF ReceiveReply, Kill, ClientGoes, srvVars, reqVars, histVars, TypeOK
  <2>2. \A d \in Clients : Copies(d)' = Copies(d) /\ Pending(d)' = Pending(d)
    BY <2>1 DEF Copies, Pending
  <2>3. QED
    BY <2>1, <2>2 DEF CopyInv
<1>8. CASE (Boot \/ Check("recvfrom") \/ Auth \/ CommandEnds \/ ReadOutput) /\ UNCHANGED netVars
  BY <1>2, <1>8 DEF Boot, Check, Auth, CommandEnds, ReadOutput, netVars, reqVars, histVars
<1>9. CASE SendTo
  BY <1>2, <1>9 DEF SendTo, EndIteration, NoRequest
<1>10. CASE Shutdown \/ Crash
  BY <1>2, <1>10 DEF Shutdown, Crash, ProcessGone, NoRequest, netVars
<1>11. CASE RecvFromFail
  BY <1>2, <1>11 DEF RecvFromFail, netVars, reqVars, histVars
<1>12. CASE (HandlerEnv \/ \E c \in Clients : JobEnds(c)) /\ UNCHANGED netVars
  BY <1>1, <1>12 DEF HandlerEnv, handle_signal, EditUsers, JobWrites, JobEnds, netVars, reqVars,
                     histVars
<1>13. CASE UNCHANGED vars
  BY <1>1, <1>13 DEF vars, srvVars, netVars, reqVars, histVars
<1>14. QED
  BY <1>3, <1>4, <1>5, <1>6, <1>7, <1>8, <1>9, <1>10, <1>11, <1>12, <1>13
  DEF Next, ServerStep, HandlerStep

(* What is sent as output is the server's own, and stays so on its way.    *)
LEMMA OwnStep ==
  TypeOK /\ OutInv /\ RanInv /\ OwnOutputUntilCrash /\ [Next]_vars => OwnOutputUntilCrash'
<1> SUFFICES ASSUME TypeOK, OutInv, RanInv, OwnOutputUntilCrash, [Next]_vars
             PROVE  OwnOutputUntilCrash'
  OBVIOUS
<1>1. execs \in [Clients -> Nat] /\ execs' \in [Clients -> Nat]
      /\ \A c \in Clients : execs[c] > 0 => execs'[c] > 0
  <2>1. execs \in [Clients -> Nat]
    BY DEF TypeOK, HandlerTypeOK
  <2>2. CASE Exec
    <3>1. peer \in Clients
      BY <2>2 DEF Exec, TypeOK, HandlerTypeOK, Idle
    <3>2. execs' = execs \/ execs' = [execs EXCEPT ![peer] = @ + 1]
      BY <2>2 DEF Exec
    <3>3. QED
      BY <2>1, <3>1, <3>2
  <2>3. CASE execs' = execs
    BY <2>1, <2>3
  <2>4. QED
    BY <2>2, <2>3 DEF Next, ServerStep, HandlerStep, HandlerEnv, Boot, Check, RecvFrom, Auth,
       CommandEnds, ReadOutput, SendTo, Shutdown, Crash, ProcessGone, RecvFromFail, handle_signal,
       EditUsers, JobWrites, JobEnds, SendReq, ReceiveReply, Kill, Lose, vars, srvVars, histVars
<1>2. CASE replies' \subseteq replies /\ (crashed => crashed')
  BY <1>1, <1>2 DEF OwnOutputUntilCrash, TypeOK
<1>3. CASE SendTo
  <2>1. /\ crashed' = crashed /\ pc = "send" /\ execs' = execs
        /\ replies' = replies \union {[port |-> port[peer], to |-> peer, body |-> resp]}
    BY <1>3 DEF SendTo
  <2>2. ~crashed /\ resp.kind = "output" => resp.of = {peer} /\ execs[peer] > 0
    BY <2>1 DEF OutInv, RanInv
  <2>3. QED
    BY <2>1, <2>2 DEF OwnOutputUntilCrash
<1>5. QED
  BY <1>2, <1>3 DEF Next, ServerStep, HandlerStep, HandlerEnv, Boot, Check, RecvFrom, Auth, Exec,
     CommandEnds, ReadOutput, Shutdown, Crash, ProcessGone, RecvFromFail, handle_signal,
     EditUsers, JobWrites, JobEnds, SendReq, ReceiveReply, Kill, Lose, vars, srvVars, histVars,
     netVars

-----------------------------------------------------------------------------
LEMMA Starts == Init => IInv
<1> SUFFICES ASSUME Init PROVE IInv
  OBVIOUS
<1> USE DEF Init, HandlerInit
<1>1. Flags /\ Data
  <2>1. Flags
    BY DEF Flags
  <2>2. pc \in Labels /\ peer \in IF Idle THEN {None} ELSE Clients
    BY DEF Labels, Idle
  <2>3. req \in Requests
    BY DEF Requests, Levels, NoReq, NoBytes, Whole
  <2>4. resp \in Replies
    BY DEF NoReply, Reply, Replies, Kinds
  <2>5. /\ user_conf \in Names /\ okNames \in SUBSET Names
        /\ outfile \in SUBSET Clients
        /\ jobs \in SUBSET Clients /\ writers \in SUBSET jobs
    OBVIOUS
  <2>6. boots \in Nat /\ late \in Nat /\ execs \in [Clients -> Nat]
    OBVIOUS
  <2>7. QED
    BY <2>1, <2>2, <2>3, <2>4, <2>5, <2>6 DEF Data
<1>2. Net
  BY DEF Net, ClientStates, Nothing
<1>3. PortInv /\ LateInv /\ AllowInv /\ OutInv /\ RanInv /\ OwnOutputUntilCrash
  BY DEF PortInv, LateInv, AllowInv, OutInv, RanInv, OwnOutputUntilCrash, NoReply, Reply
<1>4. CopyInv
  <2>1. \A c \in Clients : Copies(c) = {} /\ Pending(c) = 0 /\ execs[c] = 0 /\ peer # c
    BY HandlerAssumption DEF Copies, Pending
  <2>2. Cardinality({}) = 0 /\ MaxCopies \in Nat
    BY FS_EmptySet, DgramAssumption
  <2>3. ASSUME NEW c \in Clients
        PROVE  execs[c] + Cardinality(Copies(c)) + Pending(c) <= MaxCopies
    <3>1. Cardinality(Copies(c)) = 0
      BY <2>1, <2>2
    <3>2. execs[c] = 0 /\ Pending(c) = 0
      BY <2>1
    <3> HIDE DEF Init, HandlerInit
    <3>3. QED
      BY <3>1, <3>2, <2>2
  <2>4. QED
    BY <2>1, <2>3 DEF CopyInv
<1>5. QED
  BY <1>1, <1>2, <1>3, <1>4, TypeParts DEF IInv

LEMMA Invariance == Spec => []IInv
<1>1. IInv /\ [Next]_vars => IInv'
  BY TypeStep, PortStep, LateStep, AllowStep, OutStep, RanStep, CopyStep, OwnStep DEF IInv
<1>2. QED
  BY <1>1, Starts, PTL DEF Spec

(* The variables keep their types; a client that sends has a port.         *)
THEOREM TypeCorrect == Spec => []TypeOK
<1>1. IInv => TypeOK
  BY DEF IInv
<1>2. QED
  BY <1>1, Invariance, PTL

(* However often the network delivers a request and whatever restarts come *)
(* between, its command starts at most once for each copy.                 *)
THEOREM RunsOncePerCopy == Spec => []OncePerCopy
<1>1. IInv => OncePerCopy
  <2> SUFFICES ASSUME IInv, NEW c \in Clients PROVE execs[c] <= MaxCopies
    BY DEF OncePerCopy
  <2>1. execs[c] + Cardinality(Copies(c)) + Pending(c) <= MaxCopies
    BY DEF IInv, CopyInv
  <2>2. execs[c] \in Nat /\ Cardinality(Copies(c)) \in Nat /\ MaxCopies \in Nat
    BY CopiesFinite, DgramAssumption DEF IInv, TypeOK, HandlerTypeOK
  <2>3. Pending(c) \in {0, 1}
    BY DEF Pending
  <2>4. QED
    BY <2>1, <2>2, <2>3
<1>2. QED
  BY <1>1, Invariance, PTL

(* Without a crash what is sent as output of a command was written by that *)
(* command.                                                                *)
THEOREM OutputIsOwn == Spec => []OwnOutputUntilCrash
<1>1. IInv => OwnOutputUntilCrash
  BY DEF IInv
<1>2. QED
  BY <1>1, Invariance, PTL

(* Without a crash no output file lies in /tmp between requests.           *)
THEOREM NoFileLeft == Spec => []TmpCleanUntilCrash
<1>1. IInv => TmpCleanUntilCrash
  BY DEF IInv, OutInv, TmpCleanUntilCrash, Idle
<1>2. QED
  BY <1>1, Invariance, PTL

(* A command runs only for a user allowed since its request was received.  *)
THEOREM RunsForAllowed == Spec => []AllowedOnly
<1>1. IInv => AllowedOnly
  BY DEF IInv, AllowInv, AllowedOnly
<1>2. QED
  BY <1>1, Invariance, PTL

(* At most one request is taken up after a stop request.                   *)
THEOREM OneLateRequest == Spec => []LateAtMostOne
<1>1. IInv => LateAtMostOne
  BY DEF IInv, LateInv, LateAtMostOne
<1>2. QED
  BY <1>1, Invariance, PTL
=============================================================================
