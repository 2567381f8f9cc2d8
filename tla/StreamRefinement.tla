-------------------------- MODULE StreamRefinement --------------------------
(***************************************************************************)
(* StreamRpc implements RpcService: every behaviour of the server and its  *)
(* clients, seen through the mapping in StreamRpc, starts and moves as     *)
(* RpcService allows.  (That every client ends is left to TLC: it rests on *)
(* fairness.)                                                              *)
(***************************************************************************)
EXTENDS StreamRpcProofs

ran == {c \in Clients : execs[c] > 0}
answer == [c \in Clients |-> IF HasBytes(down[c]) THEN down[c] ELSE NoReply]
outcome == [c \in Clients |-> CASE cl[c] \notin Ended -> "waiting"
                                [] cl[c] = "replied" -> down[c].kind
                                [] OTHER -> "unanswered"]

(* The actions of RpcService in terms of the mapped variables.             *)
LEMMA Mapped ==
  /\ Service!Init <=> /\ ran = {}
                      /\ answer = [c \in Clients |-> NoReply]
                      /\ outcome = [c \in Clients |-> "waiting"]
  /\ \A c \in Clients :
       Service!Run(c) <=> /\ c \notin ran /\ answer[c] = NoReply
                          /\ ran' = ran \union {c}
                          /\ answer' = answer /\ outcome' = outcome
  /\ \A c \in Clients :
       Service!Answer(c) <=>
         /\ answer[c] = NoReply
         /\ \E a \in Service!Answers :
              /\ a.kind = "denied" => c \notin ran
              /\ a.of \subseteq ran
              /\ answer' = [answer EXCEPT ![c] = a]
         /\ ran' = ran /\ outcome' = outcome
  /\ \A c \in Clients :
       Service!End(c) <=>
         /\ outcome[c] = "waiting"
         /\ \/ outcome' = [outcome EXCEPT ![c] = "unanswered"]
            \/ /\ answer[c] # NoReply
               /\ outcome' = [outcome EXCEPT ![c] = answer[c].kind]
         /\ ran' = ran /\ answer' = answer
  /\ UNCHANGED Service!vars <=> ran' = ran /\ answer' = answer /\ outcome' = outcome
  BY DEF Service!Init, Service!Run, Service!Answer, Service!End, Service!vars,
         Service!NoAnswer, NoReply, Reply, ran, answer, outcome

(* Initial states map to its initial state,                                *)
LEMMA StartsMapped == Init => Service!Init
<1> SUFFICES ASSUME Init PROVE Service!Init
  OBVIOUS
<1>1. ran = {}
  BY DEF Init, HandlerInit, ran
<1>2. answer = [c \in Clients |-> NoReply]
  BY DEF Init, answer
<1>3. outcome = [c \in Clients |-> "waiting"]
  BY DEF Init, outcome, Ended
<1> QED
  BY <1>1, <1>2, <1>3, Mapped

(* and steps to its steps: Exec to Run, SendReply to Answer, the steps     *)
(* that end a client to End, all others to none.                           *)
LEMMA StepsMapped == IInv /\ [Next]_vars => [Service!Next]_Service!vars
<1> SUFFICES ASSUME IInv, [Next]_vars
             PROVE  Service!Next \/ UNCHANGED Service!vars
  OBVIOUS
<1>0. /\ execs \in [Clients -> Nat] /\ down \in [Clients -> Replies]
      /\ cl \in [Clients -> ClientStates] /\ resp \in Replies
      /\ ~Idle => peer \in Clients
  BY DEF IInv, TypeOK, HandlerTypeOK
<1>1. Visible
  BY VisibleStep
<1>2. CASE Exec /\ UNCHANGED <<down, cl>>
  <2>1. peer \in Clients /\ execs[peer] = 0 /\ down[peer] = NoReply
    BY <1>2, <1>0, HandlerAssumption DEF Exec, IInv, ServeInv, Idle
  <2>2. answer' = answer /\ outcome' = outcome
    BY <1>2 DEF answer, outcome
  <2>3. peer \notin ran /\ answer[peer] = NoReply
    BY <2>1 DEF ran, answer
  <2>4. CASE execs' = execs
    BY <2>2, <2>4, Mapped DEF ran
  <2>5. CASE execs' = [execs EXCEPT ![peer] = execs[peer] + 1]
    <3>1. ran' = ran \union {peer}
      BY <1>0, <2>1, <2>5 DEF ran
    <3> QED
      BY <2>1, <2>2, <2>3, <3>1, Mapped DEF Service!Next
  <2> QED
    BY <1>2, <2>4, <2>5 DEF Exec
<1>3. CASE SendReply
  <2>1. peer \in Clients /\ down[peer] = NoReply /\ down' = [down EXCEPT ![peer] = resp]
    BY <1>3, <1>0, HandlerAssumption DEF SendReply, IInv, ServeInv, Idle
  <2>2. ran' = ran
    BY <1>3 DEF SendReply, histVars, ran
  <2>3. cl[peer] # "replied"
    BY <2>1 DEF IInv, RepliedInv, HasBytes, NoReply, Reply
  <2>4. outcome' = outcome
    BY <1>0, <1>3, <2>1, <2>3 DEF SendReply, outcome
  <2>5. answer[peer] = NoReply
    BY <2>1 DEF answer
  <2>6. CASE HasBytes(resp)
    <3>1. resp \in Service!Answers
      BY <1>0, <2>6 DEF HasBytes, Replies, Service!Answers
    <3>2. resp.kind = "denied" => peer \notin ran
      BY <1>0, <1>3, <2>1 DEF SendReply, IInv, ServeInv, ran
    <3>3. resp.of \subseteq ran
      BY <1>0 DEF IInv, RanInv, Replies, ran
    <3>4. answer' = [answer EXCEPT ![peer] = resp]
      BY <1>0, <2>1, <2>6 DEF answer
    <3> QED
      BY <2>1, <2>2, <2>4, <2>5, <3>1, <3>2, <3>3, <3>4, Mapped DEF Service!Next
  <2>7. CASE ~HasBytes(resp)
    <3>1. answer' = answer
      BY <1>0, <2>1, <2>7 DEF answer, HasBytes, NoReply, Reply
    <3> QED
      BY <2>2, <2>4, <3>1, Mapped
  <2> QED
    BY <2>6, <2>7
<1>4. CASE \E c \in Clients : ClientStep(c) \/ Kill(c)
  <2>1. UNCHANGED <<execs, down>>
    BY <1>4, ClientsAside DEF srvVars, histVars
  <2>2. ran' = ran /\ answer' = answer
    BY <2>1 DEF ran, answer
  <2>3. PICK c \in Clients : ClientStep(c) \/ Kill(c)
    BY <1>4
  <2>4. /\ cl[c] \notin Ended
        /\ \E l \in ClientStates : cl' = [cl EXCEPT ![c] = l] /\ (l = "replied" => HasBytes(down[c]))
    BY <2>3 DEF ClientStep, Connect, ConnectFail, SendReq, RecvReply, RecvEof, RecvReset, Kill,
                ClientGoes, Ended, ClientStates
  <2>5. PICK l \in ClientStates :
          cl' = [cl EXCEPT ![c] = l] /\ (l = "replied" => HasBytes(down[c]))
    BY <2>4
  <2>6. outcome[c] = "waiting"
    BY <2>4 DEF outcome, Ended
  <2>7. CASE l \notin Ended
    <3>1. outcome' = outcome
      BY <1>0, <2>1, <2>4, <2>5, <2>7 DEF outcome, Ended
    <3> QED
      BY <2>2, <3>1, Mapped
  <2>8. CASE l = "replied"
    <3>1. outcome' = [outcome EXCEPT ![c] = down[c].kind]
      BY <1>0, <2>1, <2>5, <2>8 DEF outcome, Ended
    <3>2. answer[c] = down[c] /\ answer[c] # NoReply
      BY <2>5, <2>8 DEF answer, HasBytes, NoReply, Reply
    <3> QED
      BY <2>2, <2>6, <3>1, <3>2, Mapped DEF Service!Next
  <2>9. CASE l \in Ended /\ l # "replied"
    <3>1. outcome' = [outcome EXCEPT ![c] = "unanswered"]
      BY <1>0, <2>1, <2>5, <2>9 DEF outcome, Ended
    <3> QED
      BY <2>2, <2>6, <3>1, Mapped DEF Service!Next
  <2> QED
    BY <2>7, <2>8, <2>9
<1>5. CASE UNCHANGED <<execs, down, cl>>
  BY <1>5, Mapped DEF ran, answer, outcome
<1> QED
  BY <1>1, <1>2, <1>3, <1>4, <1>5 DEF Visible

(* Seen from outside, server and clients only do what RpcService allows.   *)
THEOREM Implements == Spec => ImplementsService
  BY StartsMapped, StepsMapped, Invariance, PTL DEF Spec, ImplementsService
=============================================================================
