-------------------------- MODULE DgramRefinement --------------------------
(***************************************************************************)
(* DgramRpc implements DgramService, for any clients, users, ports, number *)
(* of copies and restarts: initial states map to its initial state, and    *)
(* every step to one of its steps or to none.  Beside the invariants of    *)
(* DgramRpcProofs the mapping needs to know what is about to be sent.      *)
(***************************************************************************)
EXTENDS DgramRpcProofs

Given(r) == [to |-> r.to, body |-> r.body]
GivenAll(rs) == {Given(r) : r \in rs}

stage == CASE pc \in {"auth", "exec"} -> "taken"
           [] pc \in {"running", "read"} -> "ran"
           [] pc = "send" -> IF resp.kind = "denied" THEN "taken" ELSE "ran"
           [] OTHER -> "none"
answers == GivenAll(replies)
outcome == [c \in Clients |-> CASE cl[c] = "send" -> "new"
                                [] cl[c] = "recv" -> "waiting"
                                [] cl[c] = "replied" -> got[c].body.kind
                                [] OTHER -> "unanswered"]

(* At the sendto `response' holds an answer, and bytes of commands only if *)
(* it is output.                                                           *)
SendInv == pc = "send" => resp \in Service!Bodies

LEMMA SendStep == TypeOK /\ SendInv /\ [Next]_vars => SendInv'
<1> SUFFICES ASSUME TypeOK, SendInv, [Next]_vars PROVE SendInv'
  OBVIOUS
<1> USE DEF SendInv
<1>1. CASE UNCHANGED <<pc, resp>> \/ pc' # "send"
  BY <1>1
<1>2. CASE Auth
  <2>1. CASE pc' = "send"
    <3>1. resp' = Reply("denied", {})
      BY <1>2, <2>1 DEF Auth
    <3> QED
      BY <3>1 DEF Reply, Service!Bodies
  <2> QED
    BY <1>1, <2>1
<1>3. CASE ReadOutput
  <2>1. outfile \in SUBSET Clients
    BY DEF TypeOK, HandlerTypeOK
  <2>2. \/ resp' = Reply("readerr", {})
        \/ outfile # {} /\ resp' = Reply("output", outfile)
        \/ resp' = Reply("empty", {})
    BY <1>3 DEF ReadOutput
  <2> QED
    BY <2>1, <2>2 DEF Reply, Service!Bodies
<1>4. QED
  BY <1>1, <1>2, <1>3, NetAside
  DEF Next, ServerStep, HandlerStep, HandlerEnv, Boot, Check, RecvFrom, RecvFromFail, Parsed, Exec,
      CommandEnds, SendTo, EndIteration, Shutdown, Crash, ProcessGone, handle_signal, EditUsers,
      JobWrites, JobEnds, vars, srvVars, reqVars

-----------------------------------------------------------------------------
(* One more, one less.                                                     *)
LEMMA GivenMore ==
  ASSUME NEW rs, NEW r
  PROVE  GivenAll(rs \union {r}) = GivenAll(rs) \union {Given(r)}
  BY DEF GivenAll

LEMMA GivenLess ==
  ASSUME NEW rs, NEW r \in rs
  PROVE  \/ GivenAll(rs \ {r}) = GivenAll(rs)
         \/ GivenAll(rs \ {r}) = GivenAll(rs) \ {Given(r)}
<1>1. CASE \E s \in rs \ {r} : Given(s) = Given(r)
  BY <1>1 DEF GivenAll
<1>2. CASE ~\E s \in rs \ {r} : Given(s) = Given(r)
  BY <1>2 DEF GivenAll
<1> QED
  BY <1>1, <1>2

(* The actions of DgramService in terms of the mapped variables.           *)
LEMMA Mapped ==
  /\ Service!Init <=> /\ reqs = {} /\ peer = None /\ stage = "none"
                      /\ execs = [c \in Clients |-> 0]
                      /\ crashed = FALSE /\ answers = {}
                      /\ outcome = [c \in Clients |-> "new"]
  /\ \A c \in Clients :
       Service!Ask(c) <=>
         /\ outcome[c] = "new"
         /\ reqs' = reqs \union ({c} \X (1 .. MaxCopies))
         /\ outcome' = [outcome EXCEPT ![c] = "waiting"]
         /\ UNCHANGED <<peer, stage, execs, crashed, answers>>
  /\ Service!Take <=>
       /\ peer = None
       /\ \E q \in reqs : peer' = q[1] /\ reqs' = reqs \ {q}
       /\ stage' = "taken"
       /\ UNCHANGED <<execs, crashed, answers, outcome>>
  /\ Service!Run <=>
       /\ stage = "taken" /\ stage' = "ran"
       /\ execs' \in {execs, [execs EXCEPT ![peer] = @ + 1]}
       /\ UNCHANGED <<reqs, peer, crashed, answers, outcome>>
  /\ Service!Answer <=>
       /\ peer # None
       /\ \E b \in Service!Bodies :
            /\ b.kind = "denied" <=> stage = "taken"
            /\ \A d \in b.of : execs[d] > 0
            /\ ~crashed => b.of \subseteq {peer}
            /\ answers' = answers \union {[to |-> peer, body |-> b]}
       /\ peer' = None /\ stage' = "none"
       /\ UNCHANGED <<reqs, execs, crashed, outcome>>
  /\ Service!Crash <=>
       /\ peer' = None /\ stage' = "none" /\ crashed' = TRUE
       /\ UNCHANGED <<reqs, execs, answers, outcome>>
  /\ Service!Lose <=>
       /\ \/ \E q \in reqs : reqs' = reqs \ {q} /\ UNCHANGED answers
          \/ \E a \in answers : answers' = answers \ {a} /\ UNCHANGED reqs
       /\ UNCHANGED <<peer, stage, execs, crashed, outcome>>
  /\ \A c \in Clients :
       Service!Report(c) <=>
         /\ outcome[c] = "waiting"
         /\ \E a \in answers :
              /\ outcome' = [outcome EXCEPT ![c] = a.body.kind]
              /\ answers' \in {answers, answers \ {a}}
         /\ UNCHANGED <<reqs, peer, stage, execs, crashed>>
  /\ \A c \in Clients :
       Service!GiveUp(c) <=>
         /\ outcome[c] \in {"new", "waiting"}
         /\ outcome' = [outcome EXCEPT ![c] = "unanswered"]
         /\ UNCHANGED <<reqs, peer, stage, execs, crashed, answers>>
  /\ UNCHANGED Service!vars <=>
       UNCHANGED <<reqs, peer, stage, execs, crashed, answers, outcome>>
  BY DEF Service!Init, Service!Ask, Service!Take, Service!Run, Service!Answer, Service!Crash,
         Service!Lose, Service!Report, Service!GiveUp, Service!vars, stage, answers, outcome,
         GivenAll, Given

LEMMA Stages ==
  /\ pc \in {"auth", "exec"} => stage = "taken"
  /\ pc \in {"running", "read"} => stage = "ran"
  /\ pc = "send" /\ resp.kind = "denied" => stage = "taken"
  /\ pc = "send" /\ resp.kind # "denied" => stage = "ran"
  /\ pc \notin {"auth", "exec", "running", "read", "send"} => stage = "none"
  BY DEF stage

-----------------------------------------------------------------------------
(* Initial states map to its initial state,                                *)
LEMMA StartsMapped == Init => Service!Init
<1> SUFFICES ASSUME Init PROVE Service!Init
  OBVIOUS
<1>1. stage = "none" /\ answers = {}
  BY Stages DEF Init, HandlerInit, answers, GivenAll
<1>2. outcome = [c \in Clients |-> "new"]
  BY DEF Init, outcome
<1> QED
  BY <1>1, <1>2, Mapped DEF Init, HandlerInit

(* the server's steps to Take, Run, Answer, Crash or none,                 *)
LEMMA HiddenMapped ==
  ASSUME UNCHANGED <<reqs, peer, execs, crashed, replies, cl, got>>, stage' = stage
  PROVE  UNCHANGED Service!vars
<1>1. answers' = answers /\ outcome' = outcome
  BY DEF answers, outcome
<1> QED
  BY <1>1, Mapped

LEMMA TakeMapped ==
  ASSUME TypeOK, RecvFrom
  PROVE  Service!Take
<1>1. pc = "recvfrom" /\ pc' = "auth" /\ UNCHANGED <<execs, crashed, replies, cl, got>>
      /\ \E q \in reqs : peer' = q[1] /\ reqs' = reqs \ {q}
  BY DEF RecvFrom, Parsed
<1>2. peer = None
  BY <1>1 DEF TypeOK, HandlerTypeOK, Idle
<1>3. stage' = "taken"
  <2>1. Stages'
    BY Stages, PTL
  <2> QED
    BY <1>1, <2>1
<1>4. answers' = answers /\ outcome' = outcome
  BY <1>1 DEF answers, outcome
<1> QED
  BY <1>1, <1>2, <1>3, <1>4, Mapped

LEMMA RunMapped ==
  ASSUME Exec, UNCHANGED netVars
  PROVE  Service!Run
<1>1. /\ pc = "exec" /\ pc' = "running" /\ UNCHANGED <<reqs, peer, crashed, replies, cl, got>>
      /\ execs' \in {execs, [execs EXCEPT ![peer] = @ + 1]}
  BY DEF Exec, netVars, reqVars
<1>2. stage = "taken"
  BY <1>1, Stages
<1>3. stage' = "ran"
  <2>1. Stages'
    BY Stages, PTL
  <2> QED
    BY <1>1, <2>1
<1>4. answers' = answers /\ outcome' = outcome
  BY <1>1 DEF answers, outcome
<1> QED
  BY <1>1, <1>2, <1>3, <1>4, Mapped

LEMMA AnswerMapped ==
  ASSUME TypeOK, OutInv, RanInv, SendInv, SendTo
  PROVE  Service!Answer
<1>1. /\ pc = "send" /\ pc' = "check" /\ peer' = None
      /\ UNCHANGED <<reqs, execs, crashed, cl, got>>
      /\ replies' = replies \union {[port |-> port[peer], to |-> peer, body |-> resp]}
  BY DEF SendTo, EndIteration, NoRequest
<1>2. peer \in Clients /\ peer # None
  BY <1>1, HandlerAssumption DEF TypeOK, HandlerTypeOK, Idle
<1>3. resp \in Service!Bodies
  BY <1>1 DEF SendInv
<1>4. resp.kind = "denied" <=> stage = "taken"
  BY <1>1, Stages
<1>5. \A d \in resp.of : execs[d] > 0
  BY DEF RanInv
<1>6. ~crashed => resp.of \subseteq {peer}
  <2>1. resp.kind # "output" => resp.of = {}
    BY <1>3 DEF Service!Bodies
  <2>2. ~crashed /\ resp.kind = "output" => resp.of = {peer}
    BY <1>1 DEF OutInv
  <2> QED
    BY <2>1, <2>2
<1>7. answers' = answers \union {[to |-> peer, body |-> resp]}
  <2> DEFINE r == [port |-> port[peer], to |-> peer, body |-> resp]
  <2>1. Given(r) = [to |-> peer, body |-> resp]
    BY DEF Given
  <2>2. replies' = replies \union {r}
    BY <1>1
  <2>3. answers' = GivenAll(replies')
    BY DEF answers
  <2> HIDE DEF r
  <2>4. GivenAll(replies \union {r}) = answers \union {Given(r)}
    BY GivenMore DEF answers
  <2> QED
    BY <2>1, <2>2, <2>3, <2>4
<1>8. stage' = "none"
  <2>1. Stages'
    BY Stages, PTL
  <2> QED
    BY <1>1, <2>1
<1>9. outcome' = outcome
  BY <1>1 DEF outcome
<1> QED
  BY <1>1, <1>2, <1>3, <1>4, <1>5, <1>6, <1>7, <1>8, <1>9, Mapped

LEMMA CrashMapped ==
  ASSUME Crash
  PROVE  Service!Crash
<1>1. /\ pc' = "off" /\ peer' = None /\ crashed' = TRUE
      /\ UNCHANGED <<reqs, execs, replies, cl, got>>
  BY DEF Crash, ProcessGone, NoRequest, netVars
<1>2. stage' = "none"
  <2>1. Stages'
    BY Stages, PTL
  <2> QED
    BY <1>1, <2>1
<1>3. answers' = answers /\ outcome' = outcome
  BY <1>1 DEF answers, outcome
<1> QED
  BY <1>1, <1>2, <1>3, Mapped

(* the network's to Lose,                                                  *)
LEMMA LoseMapped ==
  ASSUME Lose
  PROVE  Service!Lose \/ UNCHANGED Service!vars
<1>1. UNCHANGED <<pc, peer, resp, execs, crashed, cl, got>>
  BY DEF Lose, srvVars, reqVars, histVars
<1>2. stage' = stage /\ outcome' = outcome
  BY <1>1 DEF stage, outcome
<1>3. CASE \E q \in reqs : reqs' = reqs \ {q} /\ UNCHANGED replies
  <2>1. answers' = answers
    BY <1>3 DEF answers
  <2> QED
    BY <1>1, <1>2, <1>3, <2>1, Mapped
<1>4. CASE \E r \in replies : replies' = replies \ {r} /\ UNCHANGED reqs
  <2>1. PICK r \in replies : replies' = replies \ {r} /\ UNCHANGED reqs
    BY <1>4
  <2>2. Given(r) \in answers /\ (answers' = answers \/ answers' = answers \ {Given(r)})
    BY <2>1, GivenLess DEF answers, GivenAll
  <2> QED
    BY <1>1, <1>2, <2>1, <2>2, Mapped
<1> QED
  BY <1>3, <1>4 DEF Lose

(* and the clients' to Ask, Report and GiveUp.                             *)
LEMMA AskMapped ==
  ASSUME TypeOK, NEW c \in Clients, SendReq(c)
  PROVE  Service!Ask(c) \/ Service!GiveUp(c)
<1>1. /\ UNCHANGED <<pc, peer, resp, execs, crashed, replies, got>>
      /\ cl[c] = "send" /\ cl \in [Clients -> ClientStates]
  BY DEF SendReq, srvVars, reqVars, histVars, TypeOK
<1>2. stage' = stage /\ answers' = answers /\ outcome[c] = "new"
  BY <1>1 DEF stage, answers, outcome
<1>3. CASE reqs' = reqs \union ({c} \X (1 .. MaxCopies)) /\ cl' = [cl EXCEPT ![c] = "recv"]
  <2>1. outcome' = [outcome EXCEPT ![c] = "waiting"]
    BY <1>1, <1>3 DEF outcome
  <2> QED
    BY <1>1, <1>2, <1>3, <2>1, Mapped
<1>4. CASE UNCHANGED reqs /\ cl' = [cl EXCEPT ![c] = "failed"]
  <2>1. outcome' = [outcome EXCEPT ![c] = "unanswered"]
    BY <1>1, <1>4 DEF outcome
  <2> QED
    BY <1>1, <1>2, <1>4, <2>1, Mapped
<1> QED
  BY <1>3, <1>4 DEF SendReq, ClientGoes

LEMMA ReportMapped ==
  ASSUME TypeOK, NEW c \in Clients, ReceiveReply(c)
  PROVE  Service!Report(c)
<1>1. /\ UNCHANGED <<pc, peer, resp, execs, crashed, reqs>>
      /\ cl[c] = "recv" /\ cl' = [cl EXCEPT ![c] = "replied"]
      /\ cl \in [Clients -> ClientStates]
      /\ got \in [Clients -> {Nothing} \union [port : Ports, to : Clients, body : Replies]]
  BY DEF ReceiveReply, ClientGoes, srvVars, reqVars, histVars, TypeOK
<1>2. stage' = stage /\ outcome[c] = "waiting"
  BY <1>1 DEF stage, outcome
<1>3. PICK r \in replies : /\ got' = [got EXCEPT ![c] = r]
                           /\ replies' \in {replies, replies \ {r}}
  BY DEF ReceiveReply
<1>4. outcome' = [outcome EXCEPT ![c] = r.body.kind]
  BY <1>1, <1>3 DEF outcome
<1>5. Given(r) \in answers /\ Given(r).body = r.body
  BY DEF answers, GivenAll, Given
<1>6. answers' \in {answers, answers \ {Given(r)}}
  BY <1>3, GivenLess DEF answers
<1> QED
  BY <1>1, <1>2, <1>4, <1>5, <1>6, Mapped

LEMMA GiveUpMapped ==
  ASSUME TypeOK, NEW c \in Clients, Kill(c)
  PROVE  Service!GiveUp(c)
<1>1. /\ UNCHANGED <<pc, peer, resp, execs, crashed, reqs, replies, got>>
      /\ cl[c] \in {"send", "recv"} /\ cl' = [cl EXCEPT ![c] = "killed"]
      /\ cl \in [Clients -> ClientStates]
  BY DEF Kill, ClientGoes, srvVars, reqVars, histVars, TypeOK, ClientStates
<1>2. stage' = stage /\ answers' = answers /\ outcome[c] \in {"new", "waiting"}
  BY <1>1 DEF stage, answers, outcome
<1>3. outcome' = [outcome EXCEPT ![c] = "unanswered"]
  BY <1>1 DEF outcome
<1> QED
  BY <1>1, <1>2, <1>3, Mapped

(* The steps of the server and its surroundings that are not seen.         *)
LEMMA Hidden ==
  ASSUME TypeOK,
         \/ (Boot \/ Check("recvfrom") \/ Auth \/ CommandEnds \/ ReadOutput) /\ UNCHANGED netVars
         \/ RecvFromFail \/ Shutdown
         \/ (HandlerEnv \/ \E c \in Clients : JobEnds(c)) /\ UNCHANGED netVars
         \/ UNCHANGED vars
  PROVE  UNCHANGED Service!vars
<1> Stages'
  BY Stages, PTL
<1>1. UNCHANGED <<reqs, execs, crashed, replies, cl, got>>
  BY DEF Boot, Check, Auth, CommandEnds, ReadOutput, RecvFromFail, Shutdown, ProcessGone,
         HandlerEnv, handle_signal, EditUsers, JobWrites, JobEnds, netVars, histVars, vars, srvVars
<1>2. CASE UNCHANGED <<pc, peer, resp>>
  BY <1>1, <1>2, HiddenMapped DEF stage
<1>3. CASE Boot \/ Check("recvfrom") \/ RecvFromFail
  BY <1>1, <1>3, Stages, HiddenMapped DEF Boot, Check, RecvFromFail, reqVars
<1>4. CASE Shutdown
  <2>1. peer = None
    BY <1>4 DEF Shutdown, TypeOK, HandlerTypeOK, Idle
  <2> QED
    BY <1>1, <1>4, <2>1, Stages, HiddenMapped DEF Shutdown, ProcessGone, NoRequest
<1>5. CASE Auth
  BY <1>1, <1>5, Stages, HiddenMapped DEF Auth, Reply
<1>6. CASE CommandEnds
  BY <1>1, <1>6, Stages, HiddenMapped DEF CommandEnds, reqVars
<1>7. CASE ReadOutput
  BY <1>1, <1>7, Stages, HiddenMapped DEF ReadOutput, Reply
<1> QED
  BY <1>2, <1>3, <1>4, <1>5, <1>6, <1>7
  DEF HandlerEnv, handle_signal, EditUsers, JobWrites, JobEnds, vars, srvVars, reqVars

LEMMA StepsMapped == IInv /\ SendInv /\ [Next]_vars => [Service!Next]_Service!vars
<1> SUFFICES ASSUME IInv, SendInv, [Next]_vars
             PROVE  Service!Next \/ UNCHANGED Service!vars
  OBVIOUS
<1> TypeOK /\ OutInv /\ RanInv
  BY DEF IInv
<1> USE DEF Service!Next
<1>1. CASE RecvFrom
  BY <1>1, TakeMapped
<1>2. CASE Exec /\ UNCHANGED netVars
  BY <1>2, RunMapped
<1>3. CASE SendTo
  BY <1>3, AnswerMapped
<1>4. CASE Crash
  BY <1>4, CrashMapped
<1>5. CASE Lose
  BY <1>5, LoseMapped
<1>6. ASSUME NEW c \in Clients, SendReq(c) \/ ReceiveReply(c) \/ Kill(c)
      PROVE  Service!Next
  BY <1>6, AskMapped, ReportMapped, GiveUpMapped
<1>7. QED
  BY <1>1, <1>2, <1>3, <1>4, <1>5, <1>6, Hidden DEF Next, ServerStep, HandlerStep

(* Seen from outside, server and clients only do what DgramService allows. *)
THEOREM DgramImplements == Spec => ImplementsService
<1>1. Init => SendInv
  BY DEF Init, HandlerInit, SendInv
<1>2. IInv => TypeOK
  BY DEF IInv
<1>3. QED
  BY <1>1, <1>2, SendStep, StartsMapped, StepsMapped, Invariance, PTL
  DEF Spec, ImplementsService, Service!Spec
=============================================================================
