----------------------- MODULE EarlyServersRefinement -----------------------
(***************************************************************************)
(* In stream mode the three servers of EarlyServers implement the safe     *)
(* half of RpcService, seen through the mapping in EarlyServers.  Beside   *)
(* the invariant of EarlyServersProofs this needs AnswerInv: nobody is     *)
(* answered twice, nor reports what was not sent.                          *)
(***************************************************************************)
EXTENDS EarlyServersProofs

Said == {"denied", "readerr", "output"}

(* In stream mode.                                                         *)
AnswerInv ==
  /\ \A c \in Clients : cl[c] = "start" => wire[c] = NoReply
  /\ \A i \in 1 .. Len(inbox) : wire[inbox[i]] = NoReply
  /\ peer # None /\ pc \notin {"remove", "close"} => wire[peer] = NoReply
  /\ pc = "send" => resp.kind \in Said \union {"empty"}
  /\ pc = "send" /\ resp.kind = "denied" => execs[peer] = 0
  /\ pc = "auth" => execs[peer] = 0
  /\ \A c \in Clients : wire[c] = NoReply \/ wire[c].kind \in Said
  /\ \A c \in Clients : cl[c] = "answered" => wire[c] # NoReply

-----------------------------------------------------------------------------
(* The steps of a client: which end it can come to.                        *)
LEMMA ClientEndsWith ==
  ASSUME NEW c \in Clients, ClientStep(c) \/ Refused(c) \/ Kill(c)
  PROVE  /\ cl[c] \notin ClientEnds
         /\ \E l \in ClientLabels \ {"start"} :
              cl' = [cl EXCEPT ![c] = l] /\ (l = "answered" => wire[c] # NoReply)
<1> USE DEF ClientGoes, ClientLabels, ClientEnds
<1>1. CASE Connect(c)
  BY <1>1 DEF Connect
<1>2. CASE SendReq(c)
  <2>1. cl[c] \in {"connected", "start"} /\ cl' = [cl EXCEPT ![c] = "wait"]
    BY <1>2 DEF SendReq
  <2>2. "wait" \in ClientLabels \ {"start"} /\ "wait" # "answered" /\ cl[c] \notin ClientEnds
    BY <2>1
  <2>3. QED
    BY <2>1, <2>2
<1>3. CASE RecvReply(c)
  BY <1>3 DEF RecvReply
<1>4. CASE RecvEnd(c)
  BY <1>4 DEF RecvEnd
<1>5. CASE Refused(c)
  <2>1. cl[c] = "wait" /\ cl' = [cl EXCEPT ![c] = "failed"]
    BY <1>5 DEF Refused
  <2>2. "failed" \in ClientLabels \ {"start"} /\ "failed" # "answered" /\ cl[c] \notin ClientEnds
    BY <2>1
  <2>3. QED
    BY <2>1, <2>2
<1>6. CASE Kill(c)
  BY <1>6 DEF Kill
<1>7. QED
  BY <1>1, <1>2, <1>3, <1>4, <1>5, <1>6 DEF ClientStep

(* What a step of the server that answers nobody leaves alone, and how     *)
(* little it changes of the rest.                                          *)
Aside ==
  /\ UNCHANGED <<cl, wire, execs>>
  /\ inbox' = inbox \/ inbox' = <<>>
  /\ (peer' = peer /\ pc \notin {"remove", "close"}) \/ peer' = None
  /\ pc' \notin {"auth", "send"}

LEMMA AsideStep == TypeOK /\ AnswerInv /\ Aside => AnswerInv'
<1> SUFFICES ASSUME TypeOK, AnswerInv, Aside PROVE AnswerInv'
  OBVIOUS
<1>1. \A i \in 1 .. Len(inbox') : wire'[inbox'[i]] = NoReply
  BY DEF Aside, AnswerInv
<1>2. QED
  BY <1>1 DEF Aside, AnswerInv

(* A response is made, of a kind that can be said here.                    *)
Made(kind) ==
  /\ UNCHANGED <<cl, wire, execs, inbox, peer>>
  /\ pc \notin {"remove", "close", "recv"} /\ pc' = "send" /\ resp'.kind = kind
  /\ kind \in Said \union {"empty"}
  /\ kind = "denied" => pc = "auth"

LEMMA MadeStep ==
  ASSUME TypeOK, AnswerInv, NEW kind, Made(kind)
  PROVE  AnswerInv'
  BY DEF Made, AnswerInv

(* A reply is sent.                                                        *)
Sends(r) ==
  /\ UNCHANGED <<cl, execs, inbox>> /\ Transmit(r)
  /\ peer \in Clients /\ pc \notin {"remove", "close"}
  /\ r \in Replies /\ r.kind \in Said \union {"empty"}
  /\ r.kind = "denied" => execs[peer] = 0
  /\ pc' \in {"remove", "close"} \/ (pc' = "check" /\ peer' = None)

LEMMA Sending ==
  ASSUME IInv, AnswerInv, Send \/ quoted_ReadOutput
  PROVE  \E r \in Replies : Sends(r)
<1> Server
  BY TypeParts DEF IInv
<1>1. CASE Send
  BY <1>1 DEF Send, Replied, NextRound, Goto, histVars, Sends, AnswerInv, Server, Idle
<1>2. CASE quoted_ReadOutput
  <2>1. Reply("output", Code).kind = "output"
    BY DEF Reply
  <2>2. Sends(Reply("output", Code))
    BY <1>2, <2>1, OutputReply
    DEF quoted_ReadOutput, Goto, histVars, Sends, Said, Server, Idle
  <2>3. QED
    BY <2>2, OutputReply
<1>3. QED
  BY <1>1, <1>2

LEMMA SendsStep ==
  ASSUME IInv, AnswerInv, mode = "stream", NEW r \in Replies, Sends(r)
  PROVE  AnswerInv'
<1>1. Others /\ QueueInv /\ peer # None
  BY TypeParts, EarlyAssumption DEF IInv, Sends
<1>2. Sent(r) = NoReply \/ Sent(r).kind \in Said
  BY DEF Sent, Sends, Said
<1>3. \A d \in Clients : wire'[d] = wire[d] \/ (d = peer /\ wire'[d] = Sent(r))
  BY <1>1, Transmitted DEF Sends
<1>4. cl[peer] # "answered" /\ cl[peer] # "start"
  BY <1>1 DEF AnswerInv, QueueInv, Sends
<1>5. \A i \in 1 .. Len(inbox) : inbox[i] \in Clients /\ inbox[i] # peer
  BY <1>1 DEF Others, QueueInv
<1>6. \A i \in 1 .. Len(inbox) : wire'[inbox[i]] = NoReply
  BY <1>3, <1>5 DEF AnswerInv
<1>7. \A d \in Clients : /\ cl[d] = "start" => wire'[d] = NoReply
                         /\ wire'[d] = NoReply \/ wire'[d].kind \in Said
                         /\ cl[d] = "answered" => wire'[d] # NoReply
  BY <1>2, <1>3, <1>4 DEF AnswerInv
<1>8. QED
  BY <1>6, <1>7 DEF AnswerInv, Sends

LEMMA AnswerStep == IInv /\ AnswerInv /\ mode = "stream" /\ [Next]_vars => AnswerInv'
<1> SUFFICES ASSUME IInv, AnswerInv, mode = "stream", [Next]_vars PROVE AnswerInv'
  OBVIOUS
<1> TypeOK /\ ModeInv /\ QueueInv /\ Flags /\ Server /\ Others
  BY TypeParts DEF IInv
<1> USE DEF rigid, clVars, histVars, Goto
<1>1. CASE Boot
  BY <1>1, AsideStep DEF Boot, Aside
<1>2. CASE Check
  BY <1>2, AsideStep DEF Check, ProcessGone, Aside
<1>3. CASE Accept
  <2>1. /\ inbox # <<>> /\ inbox' = Tail(inbox) /\ peer' = Head(inbox) /\ pc' = "recv"
        /\ UNCHANGED <<cl, wire, execs>>
    BY <1>3 DEF Accept
  <2>2. /\ peer' = inbox[1] /\ 1 \in 1 .. Len(inbox)
        /\ \A i \in 1 .. Len(inbox') : i + 1 \in 1 .. Len(inbox) /\ inbox'[i] = inbox[i + 1]
    BY <2>1, TailOf DEF Others
  <2>3. wire[inbox[1]] = NoReply /\ \A i \in 1 .. Len(inbox') : wire[inbox'[i]] = NoReply
    BY <2>2 DEF AnswerInv
  <2>4. QED
    BY <2>1, <2>2, <2>3 DEF AnswerInv
<1>4. CASE AcceptFails
  BY <1>4, AsideStep DEF AcceptFails, Aside
<1>5. CASE server1_Receive \/ quoted_Receive \/ daemon_Receive
  <2>1. PICK c \in Clients, l \in Levels : Received(c, l)
    BY <1>5, ReceiveParts
  <2>2. /\ pc = "recv" /\ c = peer /\ UNCHANGED <<inbox, execs, cl, wire>>
        /\ \/ pc' = "check" /\ peer' = None
           \/ pc' = "auth" /\ peer' = c
           \/ pc' = "send" /\ peer' = c /\ resp'.kind = "readerr"
    BY <2>1 DEF Received, ReadsRequest, NextRound, Responds, Reply
  <2>3. wire[c] = NoReply /\ execs[c] = 0
    BY <2>2, EarlyAssumption DEF AnswerInv, QueueInv, Fresh
  <2>4. QED
    BY <2>2, <2>3 DEF AnswerInv, Said
<1>6. CASE Auth
  <2>1. CASE pc' = "temp"
    BY <1>6, <2>1, AsideStep DEF Auth, Responds, Aside
  <2>2. CASE pc' = "send"
    <3>1. Made("denied")
      BY <1>6, <2>2 DEF Auth, Responds, Denied, Reply, Made, Said
    <3>2. QED
      BY <3>1, MadeStep
  <2>3. QED
    BY <1>6, <2>1, <2>2 DEF Auth, Responds
<1>7. CASE AuthFails
  <2>1. Made("denied")
    BY <1>7 DEF AuthFails, Responds, Denied, Reply, Made, Said
  <2>2. QED
    BY <2>1, MadeStep
<1>8. CASE server1_Execute
  <2>1. \E kind \in {"readerr", "output", "empty"} : Made(kind)
    BY <1>8 DEF server1_Execute, Responds, Reply, Made, Said
  <2>2. QED
    BY <2>1, MadeStep
<1>9. CASE MakeTemp
  <2>1. CASE pc' = "fork"
    BY <1>9, <2>1, AsideStep DEF MakeTemp, Responds, Aside
  <2>2. CASE pc' = "send"
    <3>1. Made("readerr")
      BY <1>9, <2>2 DEF MakeTemp, Responds, Reply, Made, Said
    <3>2. QED
      BY <3>1, MadeStep
  <2>3. QED
    BY <1>9, <2>1, <2>2 DEF MakeTemp, Responds
<1>10. CASE Fork
  BY <1>10 DEF Fork, AnswerInv
<1>11. CASE ForkFails
  <2>1. Made("readerr")
    BY <1>11 DEF ForkFails, Responds, Reply, Made, Said
  <2>2. QED
    BY <2>1, MadeStep
<1>12. CASE CommandEnds
  BY <1>12, AsideStep DEF CommandEnds, Aside
<1>13. CASE quoted_ReadOutput
  BY <1>13, Sending, SendsStep
<1>14. CASE RemoveFiles
  BY <1>14 DEF RemoveFiles, Replied, NextRound, AnswerInv
<1>15. CASE daemon_ReadOutput
  <2>1. Made("output")
    BY <1>15 DEF daemon_ReadOutput, Responds, Reply, Made, Said
  <2>2. QED
    BY <2>1, MadeStep
<1>16. CASE ReadOutputFails
  <2>1. Made("readerr")
    BY <1>16 DEF ReadOutputFails, Responds, Reply, Made, Said
  <2>2. QED
    BY <2>1, MadeStep
<1>17. CASE Send
  BY <1>17, Sending, SendsStep
<1>18. CASE Close
  BY <1>18, AsideStep DEF Close, NextRound, Aside
<1>19. CASE handle_signal
  BY <1>19 DEF handle_signal, AnswerInv
<1>20. CASE Crash
  BY <1>20, AsideStep DEF Crash, ProcessGone, Aside
<1>21. ASSUME NEW c \in Clients, ClientStep(c) \/ Refused(c) \/ Kill(c)
       PROVE  AnswerInv'
  <2>1. ClientMove(c)
    BY <1>21, ClientMoves
  <2>2. PICK l \in ClientLabels \ {"start"} :
          cl' = [cl EXCEPT ![c] = l] /\ (l = "answered" => wire[c] # NoReply)
    BY <1>21, ClientEndsWith
  <2>3. /\ UNCHANGED <<pc, peer, resp, execs, wire>>
        /\ inbox' = inbox \/ (cl[c] = "start" /\ inbox' = Append(inbox, c))
    BY <2>1 DEF ClientMove
  <2>4. \A d \in Clients : cl'[d] = IF d = c THEN l ELSE cl[d]
    BY <2>2 DEF Others
  <2>5. \A i \in 1 .. Len(inbox') : wire[inbox'[i]] = NoReply
    <3>1. CASE inbox' = inbox
      BY <3>1 DEF AnswerInv
    <3>2. CASE cl[c] = "start" /\ inbox' = Append(inbox, c)
      <4>1. /\ Len(inbox') = Len(inbox) + 1 /\ inbox'[Len(inbox) + 1] = c
            /\ \A i \in 1 .. Len(inbox) : inbox'[i] = inbox[i]
            /\ \A i \in 1 .. Len(inbox') : i = Len(inbox) + 1 \/ i \in 1 .. Len(inbox)
        BY <3>2, AppendTo DEF Others
      <4>2. wire[c] = NoReply
        BY <3>2 DEF AnswerInv
      <4>3. QED
        BY <4>1, <4>2 DEF AnswerInv
    <3>3. QED
      BY <2>3, <3>1, <3>2
  <2>6. QED
    BY <2>2, <2>3, <2>4, <2>5 DEF AnswerInv
<1>22. ASSUME NEW c \in Clients, Lose(c)
       PROVE  AnswerInv'
  BY <1>22 DEF Lose, AnswerInv
<1>23. ASSUME NEW c \in Clients, OrphanEnds(c)
       PROVE  AnswerInv'
  <2>1. UNCHANGED <<pc, peer, resp, execs, wire, cl>> /\ inbox' = <<>>
    BY <1>23 DEF OrphanEnds
  <2>2. QED
    BY <2>1 DEF AnswerInv
<1>24. CASE UNCHANGED vars
  BY <1>24 DEF vars, AnswerInv
<1> QED
  BY <1>1, <1>2, <1>3, <1>4, <1>5, <1>6, <1>7, <1>8, <1>9, <1>10,
     <1>11, <1>12, <1>13, <1>14, <1>15, <1>16, <1>17, <1>18, <1>19, <1>20,
     <1>21, <1>22, <1>23, <1>24
  DEF Next, ServerStep

LEMMA ModeKept == [Next]_vars => mode' = mode
<1> SUFFICES ASSUME [Next]_vars PROVE mode' = mode
  OBVIOUS
<1> USE DEF rigid
<1>1. CASE Boot
  BY <1>1 DEF Boot
<1>2. CASE Check
  BY <1>2 DEF Check, ProcessGone
<1>3. CASE Accept
  BY <1>3 DEF Accept
<1>4. CASE AcceptFails
  BY <1>4 DEF AcceptFails
<1>5. CASE server1_Receive \/ quoted_Receive \/ daemon_Receive
  <2>1. PICK c \in Clients, l \in Levels : Received(c, l)
    BY <1>5, ReceiveParts
  <2>2. QED
    BY <2>1 DEF Received, ReadsRequest, NextRound, Responds
<1>6. CASE Auth
  BY <1>6 DEF Auth, Responds
<1>7. CASE AuthFails
  BY <1>7 DEF AuthFails, Responds, Fail
<1>8. CASE server1_Execute
  BY <1>8 DEF server1_Execute, Responds
<1>9. CASE MakeTemp
  BY <1>9 DEF MakeTemp, Responds, Fail
<1>10. CASE Fork
  BY <1>10 DEF Fork
<1>11. CASE ForkFails
  BY <1>11 DEF ForkFails, Responds, Fail
<1>12. CASE CommandEnds
  BY <1>12 DEF CommandEnds
<1>13. CASE quoted_ReadOutput
  BY <1>13 DEF quoted_ReadOutput
<1>14. CASE RemoveFiles
  BY <1>14 DEF RemoveFiles, Replied, NextRound
<1>15. CASE daemon_ReadOutput
  BY <1>15 DEF daemon_ReadOutput, Responds
<1>16. CASE ReadOutputFails
  BY <1>16 DEF ReadOutputFails, Responds, Fail
<1>17. CASE Send
  BY <1>17 DEF Send, Replied, NextRound
<1>18. CASE Close
  BY <1>18 DEF Close, NextRound
<1>19. CASE handle_signal
  BY <1>19 DEF handle_signal
<1>20. CASE Crash
  BY <1>20 DEF Crash, ProcessGone
<1>21. ASSUME NEW c \in Clients, ClientStep(c) \/ Refused(c) \/ Kill(c)
       PROVE  mode' = mode
  BY <1>21, ClientMoves DEF ClientMove
<1>22. ASSUME NEW c \in Clients, Lose(c)
       PROVE  mode' = mode
  BY <1>22 DEF Lose
<1>23. ASSUME NEW c \in Clients, OrphanEnds(c)
       PROVE  mode' = mode
  BY <1>23 DEF OrphanEnds
<1>24. CASE UNCHANGED vars
  BY <1>24 DEF vars
<1> QED
  BY <1>1, <1>2, <1>3, <1>4, <1>5, <1>6, <1>7, <1>8, <1>9, <1>10,
     <1>11, <1>12, <1>13, <1>14, <1>15, <1>16, <1>17, <1>18, <1>19, <1>20,
     <1>21, <1>22, <1>23, <1>24
  DEF Next, ServerStep

-----------------------------------------------------------------------------
(* The mapping, and the actions of RpcService in terms of it.              *)
ran == {c \in Clients : execs[c] > 0}
answer == [c \in Clients |->
             IF wire[c].kind = "none" THEN [kind |-> "none", of |-> {}]
             ELSE [kind |-> wire[c].kind,
                   of |-> IF execs[c] > 0 /\ wire[c].kind = "output" THEN {c} ELSE {}]]
outcome == [c \in Clients |-> CASE cl[c] \notin ClientEnds -> "waiting"
                                [] cl[c] = "answered" -> wire[c].kind
                                [] OTHER -> "unanswered"]
NoAnswer == [kind |-> "none", of |-> {}]

LEMMA Mapped ==
  /\ Service!Init <=> /\ ran = {}
                      /\ answer = [c \in Clients |-> NoAnswer]
                      /\ outcome = [c \in Clients |-> "waiting"]
  /\ \A c \in Clients :
       Service!Run(c) <=> /\ c \notin ran /\ answer[c] = NoAnswer
                          /\ ran' = ran \union {c}
                          /\ answer' = answer /\ outcome' = outcome
  /\ \A c \in Clients :
       Service!Answer(c) <=>
         /\ answer[c] = NoAnswer
         /\ \E a \in Service!Answers :
              /\ a.kind = "denied" => c \notin ran
              /\ a.of \subseteq ran
              /\ answer' = [answer EXCEPT ![c] = a]
         /\ ran' = ran /\ outcome' = outcome
  /\ \A c \in Clients :
       Service!End(c) <=>
         /\ outcome[c] = "waiting"
         /\ \/ outcome' = [outcome EXCEPT ![c] = "unanswered"]
            \/ /\ answer[c] # NoAnswer
               /\ outcome' = [outcome EXCEPT ![c] = answer[c].kind]
         /\ ran' = ran /\ answer' = answer
  /\ UNCHANGED Service!vars <=> ran' = ran /\ answer' = answer /\ outcome' = outcome
  BY DEF Service!Init, Service!Run, Service!Answer, Service!End, Service!vars,
         Service!NoAnswer, NoAnswer, ran, answer, outcome

LEMMA StartsMapped == Init => Service!Init /\ AnswerInv
<1> SUFFICES ASSUME Init PROVE Service!Init /\ AnswerInv
  OBVIOUS
<1>1. ran = {}
  BY DEF Init, ran
<1>2. answer = [c \in Clients |-> NoAnswer]
  BY DEF Init, answer, NoAnswer, NoReply, Reply
<1>3. outcome = [c \in Clients |-> "waiting"]
  BY DEF Init, outcome, ClientEnds
<1>4. AnswerInv
  BY DEF Init, AnswerInv
<1>5. QED
  BY <1>1, <1>2, <1>3, <1>4, Mapped

(* What can be seen of a step: Fork, a reply sent, an end of a client,     *)
(* nothing.                                                                *)
LEMMA Visible ==
  ASSUME [Next]_vars
  PROVE  \/ Fork \/ Send \/ quoted_ReadOutput
         \/ UNCHANGED <<execs, wire>>
            /\ \E c \in Clients : ClientStep(c) \/ Refused(c) \/ Kill(c)
         \/ UNCHANGED <<execs, wire, cl>>
<1> USE DEF rigid, clVars, histVars
<1>1. CASE Boot \/ Check \/ Accept \/ AcceptFails \/ Close \/ handle_signal \/ Crash
  BY <1>1 DEF Boot, Check, Accept, AcceptFails, Close, handle_signal, Crash
<1>2. CASE server1_Receive \/ quoted_Receive \/ daemon_Receive
  BY <1>2, ReceiveParts DEF Received, ReadsRequest
<1>3. CASE Auth \/ AuthFails \/ server1_Execute \/ MakeTemp \/ ForkFails
  BY <1>3 DEF Auth, AuthFails, server1_Execute, MakeTemp, ForkFails
<1>4. CASE CommandEnds \/ RemoveFiles \/ daemon_ReadOutput \/ ReadOutputFails
  BY <1>4 DEF CommandEnds, RemoveFiles, daemon_ReadOutput, ReadOutputFails
<1>5. ASSUME NEW c \in Clients, ClientStep(c) \/ Refused(c) \/ Kill(c)
      PROVE  UNCHANGED <<execs, wire>>
  BY <1>5, ClientMoves DEF ClientMove
<1>6. ASSUME NEW c \in Clients, Lose(c) \/ OrphanEnds(c)
      PROVE  UNCHANGED <<execs, wire, cl>>
  BY <1>6 DEF Lose, OrphanEnds
<1>7. CASE UNCHANGED vars
  BY <1>7 DEF vars
<1>8. QED
  BY <1>1, <1>2, <1>3, <1>4, <1>5, <1>6, <1>7 DEF Next, ServerStep

LEMMA StepsMapped ==
  IInv /\ AnswerInv /\ mode = "stream" /\ [Next]_vars => [Service!Next]_Service!vars
<1> SUFFICES ASSUME IInv, AnswerInv, mode = "stream", [Next]_vars
             PROVE  Service!Next \/ UNCHANGED Service!vars
  OBVIOUS
<1>1. Server /\ Others /\ QueueInv
  BY TypeParts DEF IInv
<1>2. CASE Fork
  <2>1. peer \in Clients /\ peer # None /\ pc = "fork"
    BY <1>1, <1>2, EarlyAssumption DEF Fork, Server, Idle
  <2>2. execs[peer] = 0 /\ wire[peer] = NoReply
    BY <1>1, <2>1 DEF QueueInv, AnswerInv
  <2>3. /\ execs' = [execs EXCEPT ![peer] = 1] /\ wire' = wire /\ cl' = cl
    BY <1>1, <1>2, <2>2 DEF Fork, clVars
  <2>4. \A d \in Clients : execs'[d] = IF d = peer THEN 1 ELSE execs[d]
    BY <1>1, <2>3 DEF Others
  <2>5. ran' = ran \union {peer} /\ peer \notin ran
    BY <2>1, <2>2, <2>4 DEF ran
  <2>6. answer' = answer /\ answer[peer] = NoAnswer
    BY <2>1, <2>2, <2>3, <2>4 DEF answer, NoAnswer, NoReply, Reply
  <2>7. outcome' = outcome
    BY <2>3 DEF outcome
  <2>8. QED
    BY <2>1, <2>5, <2>6, <2>7, Mapped DEF Service!Next
<1>3. CASE Send \/ quoted_ReadOutput
  <2>1. PICK r \in Replies : Sends(r)
    BY <1>3, Sending
  <2>2. /\ peer \in Clients /\ wire[peer] = NoReply /\ cl[peer] # "answered"
        /\ r.kind = "denied" => execs[peer] = 0
        /\ r.kind \in Said \union {"empty"}
    BY <2>1, EarlyAssumption DEF Sends, AnswerInv
  <2>3. /\ execs' = execs /\ cl' = cl
        /\ wire' = wire \/ wire' = [wire EXCEPT ![peer] = Sent(r)]
    BY <2>1 DEF Sends, Transmit
  <2>4. ran' = ran
    BY <2>3 DEF ran
  <2>5. CASE wire' = wire
    BY <2>3, <2>4, <2>5, Mapped DEF answer, outcome
  <2>6. CASE wire' = [wire EXCEPT ![peer] = Sent(r)]
    <3>1. wire'[peer] = Sent(r) /\ \A d \in Clients \ {peer} : wire'[d] = wire[d]
      BY <1>1, <2>2, <2>6 DEF Others
    <3>2. outcome' = outcome
      BY <2>2, <2>3, <3>1 DEF outcome
    <3>3. answer[peer] = NoAnswer
      BY <2>2 DEF answer, NoAnswer, NoReply, Reply
    <3>4. CASE r.kind = "empty"
      <4>1. wire' = wire
        BY <1>1, <2>2, <2>6, <3>4 DEF Sent, Others
      <4>2. QED
        BY <2>5, <4>1
    <3>5. CASE r.kind \in Said
      <4> DEFINE a == [kind |-> r.kind,
                       of |-> IF execs[peer] > 0 /\ r.kind = "output" THEN {peer} ELSE {}]
      <4>1. a \in Service!Answers
        BY <2>2, <3>5 DEF Service!Answers, Said
      <4>2. (a.kind = "denied" => peer \notin ran) /\ a.of \subseteq ran
        BY <2>2 DEF ran
      <4>3. wire'[peer] = r /\ r.kind # "none"
        BY <3>1, <3>5 DEF Sent, Said
      <4>4. answer' = [answer EXCEPT ![peer] = a]
        BY <2>2, <2>3, <3>1, <4>3 DEF answer
      <4> HIDE DEF a
      <4>5. QED
        BY <2>2, <2>4, <3>2, <3>3, <4>1, <4>2, <4>4, Mapped DEF Service!Next
    <3>6. QED
      BY <2>2, <3>4, <3>5
  <2>7. QED
    BY <2>3, <2>5, <2>6
<1>4. ASSUME UNCHANGED <<execs, wire>>, NEW c \in Clients, ClientStep(c) \/ Refused(c) \/ Kill(c)
      PROVE  Service!Next \/ UNCHANGED Service!vars
  <2>1. ran' = ran /\ answer' = answer
    BY <1>4 DEF ran, answer
  <2>2. cl[c] \notin ClientEnds
    BY <1>4, ClientEndsWith
  <2>3. PICK l \in ClientLabels \ {"start"} :
          cl' = [cl EXCEPT ![c] = l] /\ (l = "answered" => wire[c] # NoReply)
    BY <1>4, ClientEndsWith
  <2>4. cl'[c] = l /\ \A d \in Clients \ {c} : cl'[d] = cl[d]
    BY <1>1, <2>3 DEF Others
  <2>5. outcome[c] = "waiting"
    BY <2>2 DEF outcome, ClientEnds
  <2>6. CASE l \notin ClientEnds
    <3>1. outcome' = outcome
      BY <1>4, <2>2, <2>4, <2>6 DEF outcome, ClientEnds
    <3>2. QED
      BY <2>1, <3>1, Mapped
  <2>7. CASE l = "answered"
    <3>1. wire[c].kind \in Said
      BY <2>3, <2>7 DEF AnswerInv
    <3>2. outcome' = [outcome EXCEPT ![c] = wire[c].kind]
      BY <1>4, <2>4, <2>7 DEF outcome, ClientEnds
    <3>3. answer[c] # NoAnswer /\ answer[c].kind = wire[c].kind
      BY <3>1 DEF answer, NoAnswer, Said
    <3>4. QED
      BY <2>1, <2>5, <3>2, <3>3, Mapped DEF Service!Next
  <2>8. CASE l \in ClientEnds /\ l # "answered"
    <3>1. outcome' = [outcome EXCEPT ![c] = "unanswered"]
      BY <1>4, <2>4, <2>8 DEF outcome, ClientEnds
    <3>2. QED
      BY <2>1, <2>5, <3>1, Mapped DEF Service!Next
  <2>9. QED
    BY <2>6, <2>7, <2>8
<1>5. CASE UNCHANGED <<execs, wire, cl>>
  BY <1>5, Mapped DEF ran, answer, outcome
<1>6. QED
  BY <1>2, <1>3, <1>4, <1>5, Visible

(* Fork maps to Run, Send and the quoted server's reading of the output to *)
(* Answer, the last step of a client to End, all others to none: in stream *)
(* mode the three servers run a command at most once and before its        *)
(* answer, refuse only what was not run, and send as output what came of a *)
(* command that was run (myRPC-server.c:169-227, server1.c:101-144,        *)
(* myRPC/server/src/server.c:105-150).                                     *)
THEOREM EarlyImplements == Spec => ImplementsService
<1> DEFINE J == IInv /\ (mode = "stream" => AnswerInv)
<1>1. Init => J
  BY Starts, StartsMapped
<1>2. J /\ [Next]_vars => J'
  <2>1. IInv /\ [Next]_vars => IInv'
    BY TypeStep, ModeStep, HeldStep, SpareStep, QueueStep, CopyStep, CommandStep, PartStep,
       RefusalStep
    DEF IInv
  <2>2. QED
    BY <2>1, AnswerStep, ModeKept
<1>3. J /\ [Next]_vars => [mode = "stream" => Service!Next]_Service!vars
  BY StepsMapped
<1>4. Init => Service!Init
  BY StartsMapped
<1> HIDE DEF J
<1>5. QED
  BY <1>1, <1>2, <1>3, <1>4, PTL DEF Spec, ImplementsService
=============================================================================
