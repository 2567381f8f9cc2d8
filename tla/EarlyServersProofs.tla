------------------------- MODULE EarlyServersProofs -------------------------
(***************************************************************************)
(* Theorems about EarlyServers, for any clients, limits and bounds.  The   *)
(* inductive invariant is split by subject:                                *)
(*                                                                         *)
(*   TypeOK      types                                                     *)
(*   ModeInv     what goes with a mode, and with a server that is gone     *)
(*   HeldInv     whose connections are open                                *)
(*   SpareInv    files and descriptors against failures                    *)
(*   QueueInv    who waits for a connection has not been served            *)
(*   CopyInv     each start of a command has used up a copy of its request *)
(*   CommandInv  how a command went, and the code that says so             *)
(*   PartInv     what was read of a request that is carried out            *)
(*   RefusalInv  who is refused                                            *)
(***************************************************************************)
EXTENDS EarlyServers, FiniteSetTheorems, SequenceTheorems, TLAPS

ClientLabels == {"start", "connected", "wait"} \union ClientEnds

Flags == stop \in BOOLEAN /\ status \in [ok : BOOLEAN, noisy : BOOLEAN]

Server ==
  /\ version \in Versions /\ mode \in {"stream", "dgram"} /\ limit \in Limits
  /\ quotes \in SUBSET Quoting
  /\ pc \in Labels /\ peer \in IF Idle THEN {None} ELSE Clients
  /\ resp \in Replies
  /\ conns \in SUBSET Clients /\ orphans \in SUBSET Clients
  /\ spare \in Nat /\ temp \in Nat
  /\ fails \in Nat /\ crashes \in Nat /\ boots \in Nat

Others ==
  /\ inbox \in Seq(Clients) /\ copies \in [Clients -> Nat]
  /\ cl \in [Clients -> ClientLabels]
  /\ wire \in [Clients -> Replies]
  /\ seen \in [Clients -> {"none"} \union Levels]
  /\ execs \in [Clients -> Nat]
  /\ command \in [Clients -> {"none", "running", "ok", "bad"}]

ModeInv ==
  /\ pc \in {"accept", "close"} => mode = "stream"
  /\ mode = "dgram" => conns = {} /\ inbox = <<>>
  /\ pc # "off" => orphans = {}
  /\ \A c, d \in orphans : c = d

HeldInv ==
  /\ mode = "stream" /\ ~Idle => peer \in conns
  /\ ConnsAccounted

WithFiles == {"fork", "wait", "read", "remove"}

SpareInv ==
  /\ temp <= 2 * (fails + crashes) + (IF pc \in WithFiles THEN 2 ELSE 0)
  /\ pc \in WithFiles => temp >= 2
  /\ spare <= 2 * fails
  /\ mode = "stream" /\ version # "server1" => spare < limit
  /\ mode = "stream" /\ pc = "fork" => spare + 2 < limit

Fresh(c) == execs[c] = 0 /\ seen[c] = "none"

QueueInv ==
  /\ \A i \in 1 .. Len(inbox) :
       Fresh(inbox[i]) /\ cl[inbox[i]] # "start" /\ inbox[i] # peer
  /\ \A i, j \in 1 .. Len(inbox) : inbox[i] = inbox[j] => i = j
  /\ \A c \in Clients : cl[c] = "start" => Fresh(c) /\ c # peer
  /\ mode = "stream" /\ pc = "recv" => Fresh(peer)
  /\ mode = "stream" /\ pc \in {"auth", "temp", "fork"} => execs[peer] = 0

(* The copy that is being handled and may still start a command.           *)
Pending(c) == IF c = peer /\ pc \in {"auth", "temp", "fork"} THEN 1 ELSE 0

CopyInv ==
  /\ mode = "stream" => \A c \in Clients : copies[c] = 0 /\ execs[c] <= 1
  /\ mode = "dgram" => \A c \in Clients : execs[c] + copies[c] + Pending(c) <= MaxCopies
  /\ \A c \in Clients : cl[c] = "start" => copies[c] = 0

Good == IF version = "quoted" THEN {"ok"} ELSE {"ok", "bad"}

CommandInv ==
  /\ \A c \in Clients : execs[c] = 0 => command[c] = "none"
  /\ pc = "wait" => command[peer] = "running"
  /\ \A c \in orphans : command[c] = "running"
  /\ pc = "read" => command[peer] = IF status.ok THEN "ok" ELSE "bad"
  /\ pc = "send" /\ resp.code = "0" => version = "daemon" /\ command[peer] \in Good
  /\ \A c \in Clients : wire[c].code = "0" => mode = "stream" /\ command[c] \in Good

ReadEnough(c) ==
  /\ seen[c] \in {"cut", "whole"}
  /\ version = "quoted" /\ c \notin quotes => seen[c] = "whole"

PartInv ==
  /\ \A c \in Clients : execs[c] > 0 => ReadEnough(c)
  /\ pc \in {"auth", "temp", "fork"} => ReadEnough(peer)

(* What there must be for a user of the users file to be refused.          *)
Short ==
  \/ fails > 0 \/ limit = 1
  \/ /\ mode = "stream" /\ version = "server1"
     /\ \E d \in Clients : seen[d] \in {"empty", "broken"}

RefusalInv ==
  /\ pc = "send" /\ resp.kind = "denied" /\ peer \in Allowed => Short
  /\ \A c \in Allowed : wire[c].kind = "denied" => Short

IInv ==
  /\ TypeOK /\ ModeInv /\ HeldInv /\ SpareInv /\ QueueInv /\ CopyInv /\ CommandInv
  /\ PartInv /\ RefusalInv

-----------------------------------------------------------------------------
LEMMA TypeParts == TypeOK <=> Flags /\ Server /\ Others
  BY DEF TypeOK, Flags, Server, Others, ClientLabels

(* A step of a client.                                                     *)
ClientMove(c) ==
  /\ UNCHANGED <<rigid, pc, stop, peer, resp, status, conns, spare, temp, orphans, wire,
                 histVars>>
  /\ \E l \in ClientLabels \ {"start"} : cl' = [cl EXCEPT ![c] = l]
  /\ \/ UNCHANGED <<inbox, copies>>
     \/ /\ cl[c] = "start" /\ mode = "stream"
        /\ inbox' = Append(inbox, c) /\ UNCHANGED copies
     \/ /\ cl[c] = "start" /\ mode = "dgram"
        /\ copies' = [copies EXCEPT ![c] = MaxCopies] /\ UNCHANGED inbox

LEMMA ClientMoves ==
  ASSUME NEW c \in Clients, ClientStep(c) \/ Refused(c) \/ Kill(c)
  PROVE  ClientMove(c)
<1> USE DEF ClientMove, ClientGoes, ClientLabels, ClientEnds
<1>1. CASE Connect(c)
  BY <1>1 DEF Connect
<1>2. CASE SendReq(c)
  BY <1>2 DEF SendReq
<1>3. CASE RecvReply(c)
  BY <1>3 DEF RecvReply
<1>4. CASE RecvEnd(c)
  BY <1>4 DEF RecvEnd
<1>5. CASE Refused(c)
  BY <1>5 DEF Refused
<1>6. CASE Kill(c)
  BY <1>6 DEF Kill
<1>7. QED
  BY <1>1, <1>2, <1>3, <1>4, <1>5, <1>6 DEF ClientStep

(* What the three servers can make of a request that was read: the next    *)
(* round, a request to carry out, or an error.                             *)
Received(c, l) ==
  /\ ReadsRequest(c, l)
  /\ \/ /\ version = "server1" /\ l \in {"empty", "broken"}
        /\ NextRound(conns)
     \/ /\ l = "empty"
        /\ NextRound(conns \ {c})
     \/ /\ l \in {"cut", "whole"} /\ (version = "quoted" => FourQuotes(c, l))
        /\ pc' = "auth" /\ peer' = c /\ UNCHANGED <<resp, conns>>
     \/ /\ Responds(Reply("readerr", "1"))
        /\ peer' = c /\ UNCHANGED conns

LEMMA ReceiveParts ==
  ASSUME server1_Receive \/ quoted_Receive \/ daemon_Receive
  PROVE  \E c \in Clients, l \in Levels : Received(c, l)
<1> USE DEF Received, Goto, Responds, Levels
<1>1. CASE server1_Receive
  BY <1>1 DEF server1_Receive
<1>2. CASE quoted_Receive
  BY <1>2 DEF quoted_Receive, FourQuotes
<1>3. CASE daemon_Receive
  BY <1>3 DEF daemon_Receive
<1>4. QED
  BY <1>1, <1>2, <1>3

(* The inbox loses its first element.                                      *)
LEMMA TailOf ==
  ASSUME NEW q \in Seq(Clients), q # <<>>
  PROVE  /\ Head(q) \in Clients /\ Head(q) = q[1] /\ 1 \in 1 .. Len(q)
         /\ Tail(q) \in Seq(Clients) /\ Len(Tail(q)) = Len(q) - 1 /\ Len(q) \in Nat
         /\ \A i \in 1 .. Len(Tail(q)) : i + 1 \in 1 .. Len(q) /\ Tail(q)[i] = q[i + 1]
  OBVIOUS

(* Or gets a new last one.                                                 *)
LEMMA AppendTo ==
  ASSUME NEW q \in Seq(Clients), NEW c \in Clients
  PROVE  /\ Append(q, c) \in Seq(Clients) /\ Len(q) \in Nat
         /\ Len(Append(q, c)) = Len(q) + 1 /\ Append(q, c)[Len(q) + 1] = c
         /\ \A i \in 1 .. Len(q) : Append(q, c)[i] = q[i]
         /\ \A i \in 1 .. Len(q) + 1 : i = Len(q) + 1 \/ i \in 1 .. Len(q)
  OBVIOUS

(* A reply that is sent changes what is on the way to one client.          *)
LEMMA Transmitted ==
  ASSUME Others, NEW r \in Replies, Transmit(r)
  PROVE  /\ wire' \in [Clients -> Replies]
         /\ \A d \in Clients : wire'[d] = wire[d] \/ (d = peer /\ wire'[d] = Sent(r))
         /\ mode = "dgram" /\ version # "server1" => wire' = wire
         /\ Sent(r).code = "0" => r.code = "0"
         /\ Sent(r).kind = "denied" => r.kind = "denied"
<1>1. Sent(r) \in Replies
  BY DEF Sent, Reply, Replies, NoReply
<1>2. wire' = wire \/ wire' = [wire EXCEPT ![peer] = Sent(r)]
  BY DEF Transmit
<1>3. /\ Sent(r).code = "0" => r.code = "0"
      /\ Sent(r).kind = "denied" => r.kind = "denied"
  BY DEF Sent, Reply, NoReply
<1>4. mode = "dgram" /\ version # "server1" => wire' = wire
  BY DEF Transmit
<1>5. QED
  BY <1>1, <1>2, <1>3, <1>4 DEF Others

LEMMA OutputReply == Reply("output", Code) \in Replies
  BY DEF Reply, Replies, Code

-----------------------------------------------------------------------------
(* The flags keep their types.                                             *)
LEMMA FlagsStep == Flags /\ [Next]_vars => Flags'
<1> SUFFICES ASSUME Flags, [Next]_vars PROVE Flags'
  OBVIOUS
<1> USE DEF Flags, rigid, clVars, histVars, Goto
<1>1. CASE Boot
  BY <1>1 DEF Boot
<1>2. CASE Check
  BY <1>2 DEF Check, ProcessGone
<1>3. CASE Accept
  BY <1>3 DEF Accept
<1>4. CASE AcceptFails
  BY <1>4 DEF AcceptFails
<1>5. CASE server1_Receive \/ quoted_Receive \/ daemon_Receive
  <2>1. PICK c \in Clients, l \in Levels : Received(c, l)
    BY <1>5, ReceiveParts
  <2>2. QED
    BY <2>1 DEF Received, ReadsRequest, NextRound, Responds
<1>6. CASE Auth
  BY <1>6 DEF Auth, Responds
<1>7. CASE AuthFails
  BY <1>7 DEF AuthFails, Responds, Fail
<1>8. CASE server1_Execute
  BY <1>8 DEF server1_Execute, Responds
<1>9. CASE MakeTemp
  BY <1>9 DEF MakeTemp, Responds, Fail
<1>10. CASE Fork
  BY <1>10 DEF Fork
<1>11. CASE ForkFails
  BY <1>11 DEF ForkFails, Responds, Fail
<1>12. CASE CommandEnds
  BY <1>12 DEF CommandEnds
<1>13. CASE quoted_ReadOutput
  BY <1>13 DEF quoted_ReadOutput
<1>14. CASE RemoveFiles
  BY <1>14 DEF RemoveFiles, Replied, NextRound
<1>15. CASE daemon_ReadOutput
  BY <1>15 DEF daemon_ReadOutput, Responds
<1>16. CASE ReadOutputFails
  BY <1>16 DEF ReadOutputFails, Responds, Fail
<1>17. CASE Send
  BY <1>17 DEF Send, Replied, NextRound
<1>18. CASE Close
  BY <1>18 DEF Close, NextRound
<1>19. CASE handle_signal
  BY <1>19 DEF handle_signal
<1>20. CASE Crash
  BY <1>20 DEF Crash, ProcessGone
<1>21. ASSUME NEW c \in Clients, ClientStep(c) \/ Refused(c) \/ Kill(c)
       PROVE  Flags'
  BY <1>21, ClientMoves DEF ClientMove
<1>22. ASSUME NEW c \in Clients, Lose(c)
       PROVE  Flags'
  BY <1>22 DEF Lose
<1>23. ASSUME NEW c \in Clients, OrphanEnds(c)
       PROVE  Flags'
  BY <1>23 DEF OrphanEnds
<1>24. CASE UNCHANGED vars
  BY <1>24 DEF vars
<1> QED
  BY <1>1, <1>2, <1>3, <1>4, <1>5, <1>6, <1>7, <1>8, <1>9, <1>10,
     <1>11, <1>12, <1>13, <1>14, <1>15, <1>16, <1>17, <1>18, <1>19, <1>20,
     <1>21, <1>22, <1>23, <1>24
  DEF Next, ServerStep

(* So do the server's other variables.                                     *)
LEMMA ServerStepType == TypeOK /\ ModeInv /\ SpareInv /\ [Next]_vars => Server'
<1> SUFFICES ASSUME TypeOK, ModeInv, SpareInv, [Next]_vars PROVE Server'
  OBVIOUS
<1> Flags /\ Server /\ Others
  BY TypeParts
<1> USE DEF Server, ModeInv, Idle, Labels, rigid, clVars, histVars, Goto, Reply, Replies, NoReply
<1>1. CASE Boot
  BY <1>1 DEF Boot
<1>2. CASE Check
  BY <1>2 DEF Check, ProcessGone
<1>3. CASE Accept
  <2>1. Head(inbox) \in Clients
    BY <1>3, TailOf DEF Accept, Others
  <2>2. QED
    BY <1>3, <2>1 DEF Accept
<1>4. CASE AcceptFails
  BY <1>4 DEF AcceptFails
<1>5. CASE server1_Receive \/ quoted_Receive \/ daemon_Receive
  <2>1. PICK c \in Clients, l \in Levels : Received(c, l)
    BY <1>5, ReceiveParts
  <2>2. QED
    BY <2>1 DEF Received, ReadsRequest, NextRound, Responds
<1>6. CASE Auth
  BY <1>6 DEF Auth, Responds, Denied
<1>7. CASE AuthFails
  BY <1>7 DEF AuthFails, Responds, Fail, Denied
<1>8. CASE server1_Execute
  BY <1>8 DEF server1_Execute, Responds
<1>9. CASE MakeTemp
  BY <1>9 DEF MakeTemp, Responds, Fail
<1>10. CASE Fork
  BY <1>10 DEF Fork
<1>11. CASE ForkFails
  BY <1>11 DEF ForkFails, Responds, Fail
<1>12. CASE CommandEnds
  BY <1>12 DEF CommandEnds
<1>13. CASE quoted_ReadOutput
  BY <1>13 DEF quoted_ReadOutput
<1>14. CASE RemoveFiles
  <2>1. temp - 2 \in Nat
    BY <1>14 DEF RemoveFiles, SpareInv, WithFiles
  <2>2. QED
    BY <1>14, <2>1 DEF RemoveFiles, Replied, NextRound
<1>15. CASE daemon_ReadOutput
  <2>1. temp - 2 \in Nat
    BY <1>15 DEF daemon_ReadOutput, SpareInv, WithFiles
  <2> HIDE DEF Reply, Replies, NoReply
  <2>2. QED
    BY <1>15, <2>1, OutputReply DEF daemon_ReadOutput, Responds
<1>16. CASE ReadOutputFails
  BY <1>16 DEF ReadOutputFails, Responds, Fail
<1>17. CASE Send
  BY <1>17 DEF Send, Replied, NextRound
<1>18. CASE Close
  BY <1>18 DEF Close, NextRound
<1>19. CASE handle_signal
  BY <1>19 DEF handle_signal
<1>20. CASE Crash
  BY <1>20 DEF Crash, ProcessGone
<1>21. ASSUME NEW c \in Clients, ClientStep(c) \/ Refused(c) \/ Kill(c)
       PROVE  Server'
  BY <1>21, ClientMoves DEF ClientMove
<1>22. ASSUME NEW c \in Clients, Lose(c)
       PROVE  Server'
  BY <1>22 DEF Lose
<1>23. ASSUME NEW c \in Clients, OrphanEnds(c)
       PROVE  Server'
  BY <1>23 DEF OrphanEnds
<1>24. CASE UNCHANGED vars
  BY <1>24 DEF vars
<1> QED
  BY <1>1, <1>2, <1>3, <1>4, <1>5, <1>6, <1>7, <1>8, <1>9, <1>10,
     <1>11, <1>12, <1>13, <1>14, <1>15, <1>16, <1>17, <1>18, <1>19, <1>20,
     <1>21, <1>22, <1>23, <1>24
  DEF Next, ServerStep

(* And those of the clients, and the history.                              *)
LEMMA OthersStep == TypeOK /\ [Next]_vars => Others'
<1> SUFFICES ASSUME TypeOK, [Next]_vars PROVE Others'
  OBVIOUS
<1> Flags /\ Server /\ Others
  BY TypeParts
<1> USE DEF Others, rigid, clVars, histVars, Goto
<1>1. CASE Boot
  BY <1>1 DEF Boot
<1>2. CASE Check
  <2>1. inbox' = inbox \/ inbox' = <<>>
    BY <1>2 DEF Check, ProcessGone
  <2>2. <<>> \in Seq(Clients)
    OBVIOUS
  <2>3. QED
    BY <1>2, <2>1, <2>2 DEF Check
<1>3. CASE Accept
  BY <1>3 DEF Accept
<1>4. CASE AcceptFails
  BY <1>4 DEF AcceptFails
<1>5. CASE server1_Receive \/ quoted_Receive \/ daemon_Receive
  <2>1. PICK c \in Clients, l \in Levels : Received(c, l)
    BY <1>5, ReceiveParts
  <2>2. copies' = copies \/ (copies[c] > 0 /\ copies' = [copies EXCEPT ![c] = copies[c] - 1])
    BY <2>1 DEF Received, ReadsRequest
  <2>3. copies' \in [Clients -> Nat]
    <3>1. copies[c] \in Nat /\ (copies[c] > 0 => copies[c] - 1 \in Nat)
      OBVIOUS
    <3>2. QED
      BY <2>2, <3>1
  <2>4. /\ UNCHANGED <<inbox, cl, wire, execs, command>>
        /\ seen' \in [Clients -> {"none"} \union Levels]
    BY <2>1 DEF Received, ReadsRequest
  <2>5. QED
    BY <2>3, <2>4
<1>6. CASE Auth
  BY <1>6 DEF Auth, Responds
<1>7. CASE AuthFails
  BY <1>7 DEF AuthFails, Responds, Fail
<1>8. CASE server1_Execute
  BY <1>8 DEF server1_Execute, Responds
<1>9. CASE MakeTemp
  BY <1>9 DEF MakeTemp, Responds, Fail
<1>10. CASE Fork
  <2>1. peer \in Clients
    BY <1>10 DEF Fork, Server, Idle
  <2>2. QED
    BY <1>10, <2>1 DEF Fork
<1>11. CASE ForkFails
  BY <1>11 DEF ForkFails, Responds, Fail
<1>12. CASE CommandEnds
  BY <1>12 DEF CommandEnds
<1>13. CASE quoted_ReadOutput
  <2>1. wire' \in [Clients -> Replies]
    BY <1>13, OutputReply, Transmitted DEF quoted_ReadOutput
  <2>2. QED
    BY <1>13, <2>1 DEF quoted_ReadOutput
<1>14. CASE RemoveFiles
  BY <1>14 DEF RemoveFiles, Replied, NextRound
<1>15. CASE daemon_ReadOutput
  BY <1>15 DEF daemon_ReadOutput, Responds
<1>16. CASE ReadOutputFails
  BY <1>16 DEF ReadOutputFails, Responds, Fail
<1>17. CASE Send
  <2>1. wire' \in [Clients -> Replies]
    BY <1>17, Transmitted DEF Send, Server
  <2>2. QED
    BY <1>17, <2>1 DEF Send
<1>18. CASE Close
  BY <1>18 DEF Close, NextRound
<1>19. CASE handle_signal
  BY <1>19 DEF handle_signal
<1>20. CASE Crash
  BY <1>20 DEF Crash, ProcessGone
<1>21. ASSUME NEW c \in Clients, ClientStep(c) \/ Refused(c) \/ Kill(c)
       PROVE  Others'
  <2>1. ClientMove(c)
    BY <1>21, ClientMoves
  <2>2. \E l \in ClientLabels : cl' = [cl EXCEPT ![c] = l]
    BY <2>1 DEF ClientMove
  <2>3. cl' \in [Clients -> ClientLabels]
    BY <2>2
  <2>4. inbox' = inbox \/ inbox' = Append(inbox, c)
    BY <2>1 DEF ClientMove
  <2>5. inbox' \in Seq(Clients)
    BY <2>4, AppendTo
  <2>6. copies' = copies \/ copies' = [copies EXCEPT ![c] = MaxCopies]
    BY <2>1 DEF ClientMove
  <2>7. copies' \in [Clients -> Nat]
    BY <2>6, EarlyAssumption
  <2>8. UNCHANGED <<wire, histVars>>
    BY <2>1 DEF ClientMove
  <2>9. QED
    BY <2>3, <2>5, <2>7, <2>8
<1>22. ASSUME NEW c \in Clients, Lose(c)
       PROVE  Others'
  <2>1. copies[c] - 1 \in Nat
    BY <1>22 DEF Lose
  <2>2. QED
    BY <1>22, <2>1 DEF Lose
<1>23. ASSUME NEW c \in Clients, OrphanEnds(c)
       PROVE  Others'
  BY <1>23 DEF OrphanEnds
<1>24. CASE UNCHANGED vars
  BY <1>24 DEF vars
<1> QED
  BY <1>1, <1>2, <1>3, <1>4, <1>5, <1>6, <1>7, <1>8, <1>9, <1>10,
     <1>11, <1>12, <1>13, <1>14, <1>15, <1>16, <1>17, <1>18, <1>19, <1>20,
     <1>21, <1>22, <1>23, <1>24
  DEF Next, ServerStep

LEMMA TypeStep == TypeOK /\ ModeInv /\ SpareInv /\ [Next]_vars => TypeOK'
<1>1. TypeParts'
  BY TypeParts, PTL
<1> QED
  BY <1>1, TypeParts, FlagsStep, ServerStepType, OthersStep

(* Connections exist only in stream mode, and commands outlive servers.    *)
LEMMA ModeStep == TypeOK /\ ModeInv /\ [Next]_vars => ModeInv'
<1> SUFFICES ASSUME TypeOK, ModeInv, [Next]_vars PROVE ModeInv'
  OBVIOUS
<1> Flags /\ Server /\ Others
  BY TypeParts
<1> USE DEF ModeInv, rigid, clVars, histVars, Goto
<1>1. CASE Boot
  BY <1>1 DEF Boot
<1>2. CASE Check
  BY <1>2 DEF Check, ProcessGone
<1>3. CASE Accept
  BY <1>3 DEF Accept
<1>4. CASE AcceptFails
  BY <1>4 DEF AcceptFails
<1>5. CASE server1_Receive \/ quoted_Receive \/ daemon_Receive
  <2>1. PICK c \in Clients, l \in Levels : Received(c, l)
    BY <1>5, ReceiveParts
  <2>2. QED
    BY <2>1 DEF Received, ReadsRequest, NextRound, Responds
<1>6. CASE Auth
  BY <1>6 DEF Auth, Responds
<1>7. CASE AuthFails
  BY <1>7 DEF AuthFails, Responds, Fail
<1>8. CASE server1_Execute
  BY <1>8 DEF server1_Execute, Responds
<1>9. CASE MakeTemp
  BY <1>9 DEF MakeTemp, Responds, Fail
<1>10. CASE Fork
  BY <1>10 DEF Fork
<1>11. CASE ForkFails
  BY <1>11 DEF ForkFails, Responds, Fail
<1>12. CASE CommandEnds
  BY <1>12 DEF CommandEnds
<1>13. CASE quoted_ReadOutput
  BY <1>13 DEF quoted_ReadOutput
<1>14. CASE RemoveFiles
  BY <1>14 DEF RemoveFiles, Replied, NextRound
<1>15. CASE daemon_ReadOutput
  BY <1>15 DEF daemon_ReadOutput, Responds
<1>16. CASE ReadOutputFails
  BY <1>16 DEF ReadOutputFails, Responds, Fail
<1>17. CASE Send
  BY <1>17 DEF Send, Replied, NextRound
<1>18. CASE Close
  BY <1>18 DEF Close, NextRound
<1>19. CASE handle_signal
  BY <1>19 DEF handle_signal
<1>20. CASE Crash
  BY <1>20 DEF Crash, ProcessGone
<1>21. ASSUME NEW c \in Clients, ClientStep(c) \/ Refused(c) \/ Kill(c)
       PROVE  ModeInv'
  BY <1>21, ClientMoves DEF ClientMove
<1>22. ASSUME NEW c \in Clients, Lose(c)
       PROVE  ModeInv'
  BY <1>22 DEF Lose
<1>23. ASSUME NEW c \in Clients, OrphanEnds(c)
       PROVE  ModeInv'
  BY <1>23 DEF OrphanEnds
<1>24. CASE UNCHANGED vars
  BY <1>24 DEF vars
<1> QED
  BY <1>1, <1>2, <1>3, <1>4, <1>5, <1>6, <1>7, <1>8, <1>9, <1>10,
     <1>11, <1>12, <1>13, <1>14, <1>15, <1>16, <1>17, <1>18, <1>19, <1>20,
     <1>21, <1>22, <1>23, <1>24
  DEF Next, ServerStep

(* Who is served has the connection; who else has one was forgotten.       *)
LEMMA HeldStep == TypeOK /\ ModeInv /\ HeldInv /\ [Next]_vars => HeldInv'
<1> SUFFICES ASSUME TypeOK, ModeInv, HeldInv, [Next]_vars PROVE HeldInv'
  OBVIOUS
<1> Flags /\ Server /\ Others
  BY TypeParts
<1> USE DEF HeldInv, ConnsAccounted, Idle, rigid, clVars, histVars, Goto
<1>1. CASE Boot
  BY <1>1 DEF Boot
<1>2. CASE Check
  BY <1>2 DEF Check, ProcessGone
<1>3. CASE Accept
  <2>1. peer' = Head(inbox) /\ conns' = conns \union {Head(inbox)} /\ peer = None
    BY <1>3 DEF Accept, Server
  <2>2. \A c \in conns : c # peer
    BY <2>1, EarlyAssumption DEF Server
  <2>3. QED
    BY <1>3, <2>1, <2>2 DEF Accept
<1>4. CASE AcceptFails
  BY <1>4 DEF AcceptFails
<1>5. CASE server1_Receive \/ quoted_Receive \/ daemon_Receive
  <2>1. PICK c \in Clients, l \in Levels : Received(c, l)
    BY <1>5, ReceiveParts
  <2>2. /\ pc = "recv" /\ UNCHANGED <<orphans, version, mode>>
        /\ seen' = [seen EXCEPT ![c] = l] /\ (mode = "stream" => c = peer)
    BY <2>1 DEF Received, ReadsRequest
  <2>3. seen'[c] = l /\ \A d \in Clients \ {c} : seen'[d] = seen[d]
    BY <2>2 DEF Others
  <2>4. conns \in SUBSET Clients /\ mode \in {"stream", "dgram"} /\ (mode = "dgram" => conns = {})
    BY DEF Server, ModeInv
  <2>5. CASE version = "server1" /\ l \in {"empty", "broken"} /\ NextRound(conns)
    BY <2>2, <2>3, <2>4, <2>5 DEF NextRound
  <2>6. CASE NextRound(conns \ {c})
    BY <2>2, <2>3, <2>4, <2>6 DEF NextRound
  <2>7. CASE peer' = c /\ conns' = conns
    BY <2>2, <2>3, <2>4, <2>7
  <2>8. QED
    BY <2>1, <2>5, <2>6, <2>7 DEF Received
<1>6. CASE Auth
  BY <1>6 DEF Auth, Responds
<1>7. CASE AuthFails
  BY <1>7 DEF AuthFails, Responds, Fail
<1>8. CASE server1_Execute
  BY <1>8 DEF server1_Execute, Responds
<1>9. CASE MakeTemp
  BY <1>9 DEF MakeTemp, Responds, Fail
<1>10. CASE Fork
  BY <1>10 DEF Fork
<1>11. CASE ForkFails
  BY <1>11 DEF ForkFails, Responds, Fail
<1>12. CASE CommandEnds
  BY <1>12 DEF CommandEnds
<1>13. CASE quoted_ReadOutput
  BY <1>13 DEF quoted_ReadOutput
<1>14. CASE RemoveFiles
  <2>1. mode \in {"stream", "dgram"} /\ (mode = "dgram" => conns = {})
    BY DEF Server, ModeInv
  <2>2. QED
    BY <1>14, <2>1 DEF RemoveFiles, Replied, NextRound
<1>15. CASE daemon_ReadOutput
  BY <1>15 DEF daemon_ReadOutput, Responds
<1>16. CASE ReadOutputFails
  BY <1>16 DEF ReadOutputFails, Responds, Fail
<1>17. CASE Send
  <2>1. mode \in {"stream", "dgram"} /\ (mode = "dgram" => conns = {})
    BY DEF Server, ModeInv
  <2>2. QED
    BY <1>17, <2>1 DEF Send, Replied, NextRound
<1>18. CASE Close
  BY <1>18 DEF Close, NextRound
<1>19. CASE handle_signal
  BY <1>19 DEF handle_signal
<1>20. CASE Crash
  BY <1>20 DEF Crash, ProcessGone
<1>21. ASSUME NEW c \in Clients, ClientStep(c) \/ Refused(c) \/ Kill(c)
       PROVE  HeldInv'
  BY <1>21, ClientMoves DEF ClientMove
<1>22. ASSUME NEW c \in Clients, Lose(c)
       PROVE  HeldInv'
  BY <1>22 DEF Lose
<1>23. ASSUME NEW c \in Clients, OrphanEnds(c)
       PROVE  HeldInv'
  <2>1. /\ orphans = {c} /\ conns' = conns \ {c} /\ pc = "off"
        /\ UNCHANGED <<pc, version, mode, peer, seen>>
    BY <1>23 DEF OrphanEnds, ModeInv
  <2>2. QED
    BY <2>1
<1>24. CASE UNCHANGED vars
  BY <1>24 DEF vars
<1> QED
  BY <1>1, <1>2, <1>3, <1>4, <1>5, <1>6, <1>7, <1>8, <1>9, <1>10,
     <1>11, <1>12, <1>13, <1>14, <1>15, <1>16, <1>17, <1>18, <1>19, <1>20,
     <1>21, <1>22, <1>23, <1>24
  DEF Next, ServerStep

(* Files and descriptors are lost two at a time, with a failure each.      *)
LEMMA SpareStep == TypeOK /\ ModeInv /\ HeldInv /\ SpareInv /\ [Next]_vars => SpareInv'
<1> SUFFICES ASSUME TypeOK, ModeInv, HeldInv, SpareInv, [Next]_vars PROVE SpareInv'
  OBVIOUS
<1> Flags /\ Server /\ Others
  BY TypeParts
<1> USE DEF SpareInv, WithFiles, rigid, clVars, histVars, Goto
<1>1. CASE Boot
  BY <1>1 DEF Boot
<1>2. CASE Check
  <2>1. /\ pc = "check" /\ pc' \in {"off", "accept", "recv"} /\ spare' \in {0, spare}
        /\ UNCHANGED <<temp, fails, crashes, mode, version, limit>>
    BY <1>2 DEF Check, ProcessGone
  <2>2. /\ limit \in Nat /\ limit # 0
        /\ fails \in Nat /\ spare \in Nat /\ temp \in Nat /\ crashes \in Nat
    BY EarlyAssumption DEF Server
  <2>3. temp <= 2 * (fails + crashes) /\ 0 <= 2 * fails /\ 0 < limit
    BY <2>1, <2>2
  <2>4. QED
    BY <2>1, <2>2, <2>3
<1>3. CASE Accept
  BY <1>3 DEF Accept
<1>4. CASE AcceptFails
  BY <1>4 DEF AcceptFails
<1>5. CASE server1_Receive \/ quoted_Receive \/ daemon_Receive
  <2>1. PICK c \in Clients, l \in Levels : Received(c, l)
    BY <1>5, ReceiveParts
  <2>2. QED
    BY <2>1 DEF Received, ReadsRequest, NextRound, Responds
<1>6. CASE Auth
  BY <1>6 DEF Auth, Responds
<1>7. CASE AuthFails
  <2>1. /\ pc = "auth" /\ pc' = "send" /\ (fails' = fails \/ fails' = fails + 1)
        /\ UNCHANGED <<temp, spare, crashes, mode, version, limit>>
    BY <1>7 DEF AuthFails, Responds, Fail
  <2>2. temp \in Nat /\ spare \in Nat /\ fails \in Nat /\ crashes \in Nat
    BY DEF Server
  <2>3. QED
    BY <2>1, <2>2
<1>8. CASE server1_Execute
  BY <1>8 DEF server1_Execute, Responds
<1>9. CASE MakeTemp
  <2>1. PICK made \in 0 .. 2 :
          /\ made <= Free /\ temp' = temp + made
          /\ \/ made = 2 /\ pc' = "fork" /\ UNCHANGED <<spare, fails>>
             \/ made # 2 /\ pc' = "send" /\ spare' = spare + made /\ fails' = fails + 1
    BY <1>9 DEF MakeTemp, Responds, Fail
  <2>2. Cardinality(conns) \in Nat /\ (mode = "stream" => Cardinality(conns) >= 1)
    <3>1. IsFiniteSet(conns)
      BY EarlyAssumption, FS_Subset DEF Server
    <3>2. Cardinality(conns) \in Nat /\ (conns # {} => Cardinality(conns) # 0)
      BY <3>1, FS_CardinalityType, FS_EmptySet
    <3>3. mode = "stream" => conns # {}
      BY <1>9 DEF MakeTemp, HeldInv, Idle
    <3>4. QED
      BY <3>2, <3>3
  <2>3. limit \in Nat /\ spare \in Nat /\ temp \in Nat /\ fails \in Nat /\ crashes \in Nat
    BY EarlyAssumption DEF Server
  <2>4. mode = "stream" => spare + made < limit
    BY <2>1, <2>2, <2>3 DEF Free
  <2>5. pc = "temp" /\ UNCHANGED <<mode, version, limit, crashes>>
    BY <1>9 DEF MakeTemp
  <2>6. temp <= 2 * (fails + crashes) /\ spare <= 2 * fails
    BY <2>3, <2>5
  <2>7. QED
    BY <2>1, <2>3, <2>4, <2>5, <2>6
<1>10. CASE Fork
  BY <1>10 DEF Fork
<1>11. CASE ForkFails
  <2>1. /\ pc = "fork" /\ pc' = "send" /\ fails' = fails + 1
        /\ spare' \in {spare, spare + 2} /\ UNCHANGED <<temp, crashes, mode, version, limit>>
    BY <1>11 DEF ForkFails, Responds, Fail
  <2>2. limit \in Nat /\ spare \in Nat /\ temp \in Nat /\ fails \in Nat /\ crashes \in Nat
    BY EarlyAssumption DEF Server
  <2>3. QED
    BY <2>1, <2>2
<1>12. CASE CommandEnds
  BY <1>12 DEF CommandEnds
<1>13. CASE quoted_ReadOutput
  BY <1>13 DEF quoted_ReadOutput
<1>14. CASE RemoveFiles
  <2>1. pc = "remove" /\ pc' \in {"close", "check"} /\ temp' = temp - 2
        /\ UNCHANGED <<spare, fails, crashes, mode, version, limit>>
    BY <1>14 DEF RemoveFiles, Replied, NextRound
  <2>2. temp \in Nat /\ fails \in Nat /\ crashes \in Nat
    BY DEF Server
  <2>3. QED
    BY <2>1, <2>2
<1>15. CASE daemon_ReadOutput
  <2>1. pc = "read" /\ pc' = "send" /\ temp' = temp - 2
        /\ UNCHANGED <<spare, fails, crashes, mode, version, limit>>
    BY <1>15 DEF daemon_ReadOutput, Responds
  <2>2. temp \in Nat /\ fails \in Nat /\ crashes \in Nat
    BY DEF Server
  <2>3. QED
    BY <2>1, <2>2
<1>16. CASE ReadOutputFails
  <2>1. pc = "read" /\ pc' = "send" /\ fails' = fails + 1
        /\ UNCHANGED <<temp, spare, crashes, mode, version, limit>>
    BY <1>16 DEF ReadOutputFails, Responds, Fail
  <2>2. temp \in Nat /\ spare \in Nat /\ fails \in Nat /\ crashes \in Nat
    BY DEF Server
  <2>3. QED
    BY <2>1, <2>2
<1>17. CASE Send
  BY <1>17 DEF Send, Replied, NextRound
<1>18. CASE Close
  BY <1>18 DEF Close, NextRound
<1>19. CASE handle_signal
  BY <1>19 DEF handle_signal
<1>20. CASE Crash
  <2>1. pc' = "off" /\ spare' = 0 /\ crashes' = crashes + 1
        /\ UNCHANGED <<temp, fails, mode, version, limit>>
    BY <1>20 DEF Crash, ProcessGone
  <2>2. limit \in Nat \ {0} /\ temp \in Nat /\ fails \in Nat /\ crashes \in Nat
    BY EarlyAssumption DEF Server
  <2>3. QED
    BY <2>1, <2>2
<1>21. ASSUME NEW c \in Clients, ClientStep(c) \/ Refused(c) \/ Kill(c)
       PROVE  SpareInv'
  BY <1>21, ClientMoves DEF ClientMove
<1>22. ASSUME NEW c \in Clients, Lose(c)
       PROVE  SpareInv'
  BY <1>22 DEF Lose
<1>23. ASSUME NEW c \in Clients, OrphanEnds(c)
       PROVE  SpareInv'
  BY <1>23 DEF OrphanEnds
<1>24. CASE UNCHANGED vars
  BY <1>24 DEF vars
<1> QED
  BY <1>1, <1>2, <1>3, <1>4, <1>5, <1>6, <1>7, <1>8, <1>9, <1>10,
     <1>11, <1>12, <1>13, <1>14, <1>15, <1>16, <1>17, <1>18, <1>19, <1>20,
     <1>21, <1>22, <1>23, <1>24
  DEF Next, ServerStep

(* A connection is taken from the queue once, and read once.               *)
LEMMA QueueStep == TypeOK /\ ModeInv /\ QueueInv /\ CopyInv /\ [Next]_vars => QueueInv'
<1> SUFFICES ASSUME TypeOK, ModeInv, QueueInv, CopyInv, [Next]_vars PROVE QueueInv'
  OBVIOUS
<1> Flags /\ Server /\ Others
  BY TypeParts
<1>a. /\ \A d \in Clients : d # None
      /\ Len(inbox) \in Nat /\ \A i \in 1 .. Len(inbox) : inbox[i] \in Clients
  BY EarlyAssumption DEF Others
<1> USE DEF QueueInv, Fresh, rigid, clVars, histVars, Goto
<1>1. CASE Boot
  BY <1>1 DEF Boot
<1>2. CASE Check
  <2>1. /\ UNCHANGED <<execs, seen, cl>> /\ pc' \in {"off", "accept", "recv"} /\ peer' = None
        /\ inbox' = inbox \/ inbox' = <<>>
        /\ mode' = mode /\ (pc' = "recv" => mode # "stream")
    BY <1>2 DEF Check, ProcessGone, Server, Idle
  <2>2. QED
    BY <1>a, <2>1
<1>3. CASE Accept
  <2>1. /\ inbox # <<>> /\ peer' = Head(inbox) /\ inbox' = Tail(inbox) /\ pc' = "recv"
        /\ UNCHANGED <<execs, seen, cl, mode>>
    BY <1>3 DEF Accept
  <2>2. /\ peer' = inbox[1] /\ 1 \in 1 .. Len(inbox) /\ Len(inbox') = Len(inbox) - 1
        /\ \A i \in 1 .. Len(inbox') : i + 1 \in 1 .. Len(inbox) /\ inbox'[i] = inbox[i + 1]
    BY <2>1, TailOf DEF Others
  <2>3. \A i \in 1 .. Len(inbox') : inbox'[i] # peer'
    <3> SUFFICES ASSUME NEW i \in 1 .. Len(inbox') PROVE inbox'[i] # peer'
      OBVIOUS
    <3>1. i + 1 # 1 /\ i + 1 \in 1 .. Len(inbox)
      BY <1>a, <2>2
    <3>2. QED
      BY <2>2, <3>1
  <2>4. \A i, j \in 1 .. Len(inbox') : inbox'[i] = inbox'[j] => i = j
    <3> SUFFICES ASSUME NEW i \in 1 .. Len(inbox'), NEW j \in 1 .. Len(inbox'),
                        inbox'[i] = inbox'[j]
                 PROVE  i = j
      OBVIOUS
    <3>1. i + 1 = j + 1
      BY <2>2
    <3>2. QED
      BY <1>a, <2>2, <3>1
  <2>5. \A i \in 1 .. Len(inbox') :
          execs[inbox'[i]] = 0 /\ seen[inbox'[i]] = "none" /\ cl[inbox'[i]] # "start"
    BY <2>2
  <2>6. execs[peer'] = 0 /\ seen[peer'] = "none" /\ cl[peer'] # "start"
    BY <2>2
  <2>7. QED
    BY <2>1, <2>3, <2>4, <2>5, <2>6
<1>4. CASE AcceptFails
  BY <1>4 DEF AcceptFails
<1>5. CASE server1_Receive \/ quoted_Receive \/ daemon_Receive
  <2>1. PICK c \in Clients, l \in Levels : Received(c, l)
    BY <1>5, ReceiveParts
  <2>2. /\ pc = "recv" /\ UNCHANGED <<inbox, execs, cl, mode>>
        /\ peer' \in {c, None} /\ pc' \in {"check", "auth", "send"}
        /\ seen' = [seen EXCEPT ![c] = l]
        /\ (mode = "stream" /\ c = peer) \/ (mode = "dgram" /\ copies[c] > 0)
    BY <2>1 DEF Received, ReadsRequest, NextRound, Responds
  <2>3. \A d \in Clients : d # c => seen'[d] = seen[d]
    BY <2>2 DEF Others
  <2>4. cl[c] # "start"
    BY <2>2 DEF CopyInv
  <2>5. \A i \in 1 .. Len(inbox) : inbox[i] # c
    <3>1. CASE mode = "stream"
      BY <2>2, <3>1
    <3>2. CASE mode = "dgram"
      BY <3>2 DEF ModeInv
    <3>3. QED
      BY <2>2, <3>1, <3>2
  <2>6. pc' = "auth" => peer' = c
    BY <2>1 DEF Received, NextRound, Responds
  <2>7. mode = "stream" => execs[c] = 0
    BY <2>2
  <2>8. QED
    BY <1>a, <2>2, <2>3, <2>4, <2>5, <2>6, <2>7
<1>6. CASE Auth
  BY <1>6 DEF Auth, Responds
<1>7. CASE AuthFails
  BY <1>7 DEF AuthFails, Responds, Fail
<1>8. CASE server1_Execute
  BY <1>8 DEF server1_Execute, Responds
<1>9. CASE MakeTemp
  BY <1>9 DEF MakeTemp, Responds, Fail
<1>10. CASE Fork
  <2>1. peer \in Clients /\ peer # None
    BY <1>10, EarlyAssumption DEF Fork, Server, Idle
  <2>2. /\ execs' = [execs EXCEPT ![peer] = @ + 1] /\ pc' = "wait"
        /\ UNCHANGED <<inbox, cl, peer, seen, mode>>
    BY <1>10 DEF Fork
  <2>3. \A d \in Clients \ {peer} : execs'[d] = execs[d]
    BY <2>1, <2>2 DEF Others
  <2>4. QED
    BY <1>a, <2>1, <2>2, <2>3
<1>11. CASE ForkFails
  BY <1>11 DEF ForkFails, Responds, Fail
<1>12. CASE CommandEnds
  BY <1>12 DEF CommandEnds
<1>13. CASE quoted_ReadOutput
  BY <1>13 DEF quoted_ReadOutput
<1>14. CASE RemoveFiles
  <2>1. peer' \in {peer, None} /\ pc' \in {"close", "check"}
        /\ UNCHANGED <<inbox, cl, execs, seen>>
    BY <1>14 DEF RemoveFiles, Replied, NextRound
  <2>2. QED
    BY <1>a, <2>1
<1>15. CASE daemon_ReadOutput
  BY <1>15 DEF daemon_ReadOutput, Responds
<1>16. CASE ReadOutputFails
  BY <1>16 DEF ReadOutputFails, Responds, Fail
<1>17. CASE Send
  <2>1. peer' \in {peer, None} /\ pc' \in {"close", "check"}
        /\ UNCHANGED <<inbox, cl, execs, seen>>
    BY <1>17 DEF Send, Replied, NextRound
  <2>2. QED
    BY <1>a, <2>1
<1>18. CASE Close
  <2>1. peer' = None /\ pc' = "check" /\ UNCHANGED <<inbox, cl, execs, seen>>
    BY <1>18 DEF Close, NextRound
  <2>2. QED
    BY <1>a, <2>1
<1>19. CASE handle_signal
  BY <1>19 DEF handle_signal
<1>20. CASE Crash
  <2>1. /\ peer' = None /\ pc' = "off" /\ UNCHANGED <<cl, execs, seen>>
        /\ inbox' = inbox \/ inbox' = <<>>
    BY <1>20 DEF Crash, ProcessGone
  <2>2. QED
    BY <1>a, <2>1
<1>21. ASSUME NEW c \in Clients, ClientStep(c) \/ Refused(c) \/ Kill(c)
       PROVE  QueueInv'
  <2>1. ClientMove(c)
    BY <1>21, ClientMoves
  <2>2. PICK k \in ClientLabels \ {"start"} : cl' = [cl EXCEPT ![c] = k]
    BY <2>1 DEF ClientMove
  <2>3. UNCHANGED <<pc, peer, execs, seen, mode>>
    BY <2>1 DEF ClientMove
  <2>4. \A d \in Clients : cl'[d] = IF d = c THEN k ELSE cl[d]
    BY <2>2 DEF Others
  <2>5. CASE inbox' = inbox
    BY <1>a, <2>2, <2>3, <2>4, <2>5
  <2>6. CASE cl[c] = "start" /\ inbox' = Append(inbox, c)
    <3>1. /\ Len(inbox') = Len(inbox) + 1 /\ inbox'[Len(inbox) + 1] = c
          /\ \A i \in 1 .. Len(inbox) : inbox'[i] = inbox[i]
          /\ \A i \in 1 .. Len(inbox') : i = Len(inbox) + 1 \/ i \in 1 .. Len(inbox)
      BY <2>6, AppendTo DEF Others
    <3>2. /\ execs[c] = 0 /\ seen[c] = "none" /\ c # peer
          /\ \A i \in 1 .. Len(inbox) : inbox[i] # c
      BY <2>6
    <3>3. \A i, j \in 1 .. Len(inbox') : inbox'[i] = inbox'[j] => i = j
      BY <3>1, <3>2
    <3>4. \A i \in 1 .. Len(inbox') :
            /\ execs[inbox'[i]] = 0 /\ seen[inbox'[i]] = "none"
            /\ cl'[inbox'[i]] # "start" /\ inbox'[i] # peer
      BY <1>a, <2>4, <3>1, <3>2
    <3>5. QED
      BY <2>2, <2>3, <2>4, <3>3, <3>4
  <2>7. QED
    BY <2>1, <2>5, <2>6 DEF ClientMove
<1>22. ASSUME NEW c \in Clients, Lose(c)
       PROVE  QueueInv'
  BY <1>22 DEF Lose
<1>23. ASSUME NEW c \in Clients, OrphanEnds(c)
       PROVE  QueueInv'
  BY <1>23 DEF OrphanEnds
<1>24. CASE UNCHANGED vars
  BY <1>24 DEF vars
<1> QED
  BY <1>1, <1>2, <1>3, <1>4, <1>5, <1>6, <1>7, <1>8, <1>9, <1>10,
     <1>11, <1>12, <1>13, <1>14, <1>15, <1>16, <1>17, <1>18, <1>19, <1>20,
     <1>21, <1>22, <1>23, <1>24
  DEF Next, ServerStep

(* A step that starts nothing and takes up nothing.                        *)
KeepsCopies ==
  /\ UNCHANGED <<copies, execs, cl, mode>>
  /\ pc' \in {"auth", "temp", "fork"} => pc \in {"auth", "temp", "fork"} /\ peer' = peer

LEMMA CopiesKept ==
  ASSUME TypeOK, CopyInv, KeepsCopies
  PROVE  CopyInv'
<1>1. /\ copies \in [Clients -> Nat] /\ execs \in [Clients -> Nat] /\ MaxCopies \in Nat
      /\ mode \in {"stream", "dgram"}
  BY EarlyAssumption DEF TypeOK
<1>2. UNCHANGED <<copies, execs, cl, mode>>
  BY DEF KeepsCopies
<1>3. ASSUME NEW d \in Clients, mode = "dgram"
      PROVE  execs'[d] + copies'[d] + Pending(d)' <= MaxCopies
  <2>1. Pending(d)' = 0 \/ Pending(d)' = Pending(d)
    BY DEF Pending, KeepsCopies
  <2>2. execs[d] + copies[d] + Pending(d) <= MaxCopies /\ Pending(d) \in {0, 1}
    BY <1>3 DEF CopyInv, Pending
  <2>3. execs[d] \in Nat /\ copies[d] \in Nat
    BY <1>1
  <2>4. execs'[d] = execs[d] /\ copies'[d] = copies[d]
    BY <1>2
  <2>5. QED
    BY <1>1, <2>1, <2>2, <2>3, <2>4
<1>4. QED
  BY <1>2, <1>3 DEF CopyInv

(* A start of a command uses up the connection, or a copy of the datagram. *)
LEMMA CopyStep == TypeOK /\ ModeInv /\ QueueInv /\ CopyInv /\ [Next]_vars => CopyInv'
<1> SUFFICES ASSUME TypeOK, ModeInv, QueueInv, CopyInv, [Next]_vars PROVE CopyInv'
  OBVIOUS
<1> Flags /\ Server /\ Others
  BY TypeParts
<1>a. /\ copies \in [Clients -> Nat] /\ execs \in [Clients -> Nat] /\ MaxCopies \in Nat
      /\ mode \in {"stream", "dgram"} /\ cl \in [Clients -> ClientLabels]
  BY EarlyAssumption DEF Others, Server
<1> USE DEF CopyInv, Pending, rigid, clVars, histVars, Goto
<1>1. CASE Boot
  BY <1>1, CopiesKept DEF Boot, KeepsCopies
<1>2. CASE Check
  BY <1>2, CopiesKept DEF Check, ProcessGone, KeepsCopies
<1>3. CASE Accept
  BY <1>3, CopiesKept DEF Accept, KeepsCopies
<1>4. CASE AcceptFails
  BY <1>4, CopiesKept DEF AcceptFails, KeepsCopies
<1>5. CASE server1_Receive \/ quoted_Receive \/ daemon_Receive
  <2>1. PICK c \in Clients, l \in Levels : Received(c, l)
    BY <1>5, ReceiveParts
  <2>2. /\ pc = "recv" /\ UNCHANGED <<execs, cl, mode>> /\ (pc' = "auth" => peer' = c)
        /\ \/ mode = "stream" /\ copies' = copies
           \/ /\ mode = "dgram" /\ copies[c] > 0
              /\ copies' = [copies EXCEPT ![c] = @ - 1]
        /\ pc' \in {"check", "auth", "send"}
    BY <2>1 DEF Received, ReadsRequest, NextRound, Responds
  <2>3. CASE mode = "stream"
    BY <1>a, <2>2, <2>3
  <2>4. CASE mode = "dgram"
    <3>1. \A d \in Clients : copies'[d] = IF d = c THEN copies[d] - 1 ELSE copies[d]
      BY <1>a, <2>2, <2>4
    <3>2. cl[c] # "start" /\ \A d \in Clients : execs[d] + copies[d] <= MaxCopies
      BY <1>a, <2>2, <2>4
    <3>3. QED
      BY <1>a, <2>2, <2>4, <3>1, <3>2
  <2>5. QED
    BY <2>2, <2>3, <2>4
<1>6. CASE Auth
  BY <1>6, CopiesKept DEF Auth, Responds, KeepsCopies
<1>7. CASE AuthFails
  BY <1>7, CopiesKept DEF AuthFails, Responds, Fail, KeepsCopies
<1>8. CASE server1_Execute
  BY <1>8, CopiesKept DEF server1_Execute, Responds, KeepsCopies
<1>9. CASE MakeTemp
  BY <1>9, CopiesKept DEF MakeTemp, Responds, Fail, KeepsCopies
<1>10. CASE Fork
  <2>1. peer \in Clients
    BY <1>10 DEF Fork, Server, Idle
  <2>2. /\ execs' = [execs EXCEPT ![peer] = @ + 1] /\ pc = "fork" /\ pc' = "wait"
        /\ UNCHANGED <<copies, cl, peer, mode>>
    BY <1>10 DEF Fork
  <2>3. \A d \in Clients : execs'[d] = IF d = peer THEN execs[d] + 1 ELSE execs[d]
    BY <1>a, <2>1, <2>2
  <2>4. mode = "stream" => execs[peer] = 0
    BY <2>2 DEF QueueInv
  <2>5. QED
    BY <1>a, <2>1, <2>2, <2>3, <2>4
<1>11. CASE ForkFails
  BY <1>11, CopiesKept DEF ForkFails, Responds, Fail, KeepsCopies
<1>12. CASE CommandEnds
  BY <1>12, CopiesKept DEF CommandEnds, KeepsCopies
<1>13. CASE quoted_ReadOutput
  BY <1>13, CopiesKept DEF quoted_ReadOutput, KeepsCopies
<1>14. CASE RemoveFiles
  BY <1>14, CopiesKept DEF RemoveFiles, Replied, NextRound, KeepsCopies
<1>15. CASE daemon_ReadOutput
  BY <1>15, CopiesKept DEF daemon_ReadOutput, Responds, KeepsCopies
<1>16. CASE ReadOutputFails
  BY <1>16, CopiesKept DEF ReadOutputFails, Responds, Fail, KeepsCopies
<1>17. CASE Send
  BY <1>17, CopiesKept DEF Send, Replied, NextRound, KeepsCopies
<1>18. CASE Close
  BY <1>18, CopiesKept DEF Close, NextRound, KeepsCopies
<1>19. CASE handle_signal
  BY <1>19, CopiesKept DEF handle_signal, KeepsCopies
<1>20. CASE Crash
  BY <1>20, CopiesKept DEF Crash, ProcessGone, KeepsCopies
<1>21. ASSUME NEW c \in Clients, ClientStep(c) \/ Refused(c) \/ Kill(c)
       PROVE  CopyInv'
  <2>1. ClientMove(c)
    BY <1>21, ClientMoves
  <2>2. PICK k \in ClientLabels \ {"start"} : cl' = [cl EXCEPT ![c] = k]
    BY <2>1 DEF ClientMove
  <2>3. UNCHANGED <<pc, peer, execs, mode>>
    BY <2>1 DEF ClientMove
  <2>4. \A d \in Clients : cl'[d] = IF d = c THEN k ELSE cl[d]
    BY <1>a, <2>2
  <2>5. CASE copies' = copies
    BY <1>a, <2>2, <2>3, <2>4, <2>5
  <2>6. CASE cl[c] = "start" /\ mode = "dgram" /\ copies' = [copies EXCEPT ![c] = MaxCopies]
    <3>1. \A d \in Clients : copies'[d] = IF d = c THEN MaxCopies ELSE copies[d]
      BY <1>a, <2>6
    <3>2. execs[c] = 0 /\ c # peer
      BY <2>6 DEF QueueInv, Fresh
    <3>3. QED
      BY <1>a, <2>2, <2>3, <2>4, <2>6, <3>1, <3>2
  <2>7. QED
    BY <2>1, <2>5, <2>6 DEF ClientMove
<1>22. ASSUME NEW c \in Clients, Lose(c)
       PROVE  CopyInv'
  <2>1. /\ UNCHANGED <<pc, peer, execs, mode, cl>>
        /\ copies[c] > 0 /\ copies' = [copies EXCEPT ![c] = @ - 1]
    BY <1>22 DEF Lose
  <2>2. \A d \in Clients : copies'[d] = IF d = c THEN copies[d] - 1 ELSE copies[d]
    BY <1>a, <2>1
  <2>3. QED
    BY <1>a, <2>1, <2>2
<1>23. ASSUME NEW c \in Clients, OrphanEnds(c)
       PROVE  CopyInv'
  BY <1>23, CopiesKept DEF OrphanEnds, KeepsCopies
<1>24. CASE UNCHANGED vars
  BY <1>24, CopiesKept DEF vars, KeepsCopies
<1> QED
  BY <1>1, <1>2, <1>3, <1>4, <1>5, <1>6, <1>7, <1>8, <1>9, <1>10,
     <1>11, <1>12, <1>13, <1>14, <1>15, <1>16, <1>17, <1>18, <1>19, <1>20,
     <1>21, <1>22, <1>23, <1>24
  DEF Next, ServerStep

(* The code follows the command.                                           *)
LEMMA CommandStep == TypeOK /\ ModeInv /\ QueueInv /\ CommandInv /\ [Next]_vars => CommandInv'
<1> SUFFICES ASSUME TypeOK, ModeInv, QueueInv, CommandInv, [Next]_vars PROVE CommandInv'
  OBVIOUS
<1> Flags /\ Server /\ Others
  BY TypeParts
<1> USE DEF CommandInv, Good, rigid, clVars, histVars, Goto
<1>1. CASE Boot
  BY <1>1 DEF Boot
<1>2. CASE Check
  BY <1>2 DEF Check, ProcessGone
<1>3. CASE Accept
  BY <1>3 DEF Accept
<1>4. CASE AcceptFails
  BY <1>4 DEF AcceptFails
<1>5. CASE server1_Receive \/ quoted_Receive \/ daemon_Receive
  <2>1. PICK c \in Clients, l \in Levels : Received(c, l)
    BY <1>5, ReceiveParts
  <2>2. /\ pc' \in {"check", "auth", "send"} /\ (pc' = "send" => resp'.code # "0")
        /\ UNCHANGED <<version, mode, execs, command, orphans, wire>>
    BY <2>1 DEF Received, ReadsRequest, NextRound, Responds, Reply
  <2>3. QED
    BY <2>2
<1>6. CASE Auth
  <2>1. /\ pc' # "wait" /\ pc' # "read" /\ (pc' = "send" => resp'.code # "0")
        /\ UNCHANGED <<version, mode, execs, command, orphans, wire>>
    BY <1>6 DEF Auth, Responds, Reply, Denied
  <2>2. QED
    BY <2>1
<1>7. CASE AuthFails
  <2>1. /\ pc' # "wait" /\ pc' # "read" /\ (pc' = "send" => resp'.code # "0")
        /\ UNCHANGED <<version, mode, execs, command, orphans, wire>>
    BY <1>7 DEF AuthFails, Responds, Reply, Denied
  <2>2. QED
    BY <2>1
<1>8. CASE server1_Execute
  <2>1. /\ pc' # "wait" /\ pc' # "read" /\ (pc' = "send" => resp'.code # "0")
        /\ UNCHANGED <<version, mode, execs, command, orphans, wire>>
    BY <1>8 DEF server1_Execute, Responds, Reply
  <2>2. QED
    BY <2>1
<1>9. CASE MakeTemp
  <2>1. /\ pc' # "wait" /\ pc' # "read" /\ (pc' = "send" => resp'.code # "0")
        /\ UNCHANGED <<version, mode, execs, command, orphans, wire>>
    BY <1>9 DEF MakeTemp, Responds, Reply, Fail
  <2>2. QED
    BY <2>1
<1>10. CASE Fork
  <2>1. peer \in Clients /\ peer # None
    BY <1>10, EarlyAssumption DEF Fork, Server, Idle
  <2>2. orphans = {} /\ (mode = "stream" => execs[peer] = 0)
    BY <1>10 DEF Fork, QueueInv, ModeInv
  <2>3. wire[peer].code # "0"
    BY <2>1, <2>2
  <2>4. /\ pc' = "wait" /\ UNCHANGED <<version, mode, orphans, wire, peer>>
        /\ execs' = [execs EXCEPT ![peer] = @ + 1]
        /\ command' = [command EXCEPT ![peer] = "running"]
    BY <1>10 DEF Fork
  <2>5. /\ execs[peer] \in Nat /\ execs'[peer] = execs[peer] + 1
        /\ \A d \in Clients \ {peer} : execs'[d] = execs[d]
    BY <2>1, <2>4 DEF Others
  <2>6. command'[peer] = "running" /\ \A d \in Clients \ {peer} : command'[d] = command[d]
    BY <2>1, <2>4 DEF Others
  <2>7. execs'[peer] # 0
    BY <2>5
  <2>8. \A d \in Clients : execs'[d] = 0 => command'[d] = "none"
    BY <2>5, <2>6, <2>7
  <2>9. \A d \in Clients : wire'[d].code = "0" => mode' = "stream" /\ command'[d] \in Good'
    BY <2>3, <2>4, <2>6
  <2>10. QED
    BY <2>1, <2>2, <2>4, <2>6, <2>8, <2>9
<1>11. CASE ForkFails
  <2>1. /\ pc' # "wait" /\ pc' # "read" /\ (pc' = "send" => resp'.code # "0")
        /\ UNCHANGED <<version, mode, execs, command, orphans, wire>>
    BY <1>11 DEF ForkFails, Responds, Reply, Fail
  <2>2. QED
    BY <2>1
<1>12. CASE CommandEnds
  <2>1. peer \in Clients /\ command[peer] = "running" /\ orphans = {}
    BY <1>12 DEF CommandEnds, Server, Idle, ModeInv
  <2>2. /\ pc' = "read" /\ UNCHANGED <<version, mode, orphans, wire, peer, execs>>
        /\ command' = [command EXCEPT ![peer] = IF status'.ok THEN "ok" ELSE "bad"]
    BY <1>12 DEF CommandEnds
  <2>3. /\ command'[peer] = IF status'.ok THEN "ok" ELSE "bad"
        /\ \A d \in Clients \ {peer} : command'[d] = command[d]
    BY <2>1, <2>2 DEF Others
  <2>4. execs[peer] # 0 /\ wire[peer].code # "0"
    BY <2>1
  <2>5. /\ \A d \in Clients : execs'[d] = 0 => command'[d] = "none"
        /\ \A d \in Clients : wire'[d].code = "0" => mode' = "stream" /\ command'[d] \in Good'
    BY <2>2, <2>3, <2>4
  <2>6. QED
    BY <2>1, <2>2, <2>3, <2>5
<1>13. CASE quoted_ReadOutput
  <2>1. /\ pc = "read" /\ version = "quoted" /\ pc' = "remove"
        /\ UNCHANGED <<version, mode, execs, command, orphans, peer>>
    BY <1>13 DEF quoted_ReadOutput
  <2>2. peer \in Clients /\ command[peer] = IF status.ok THEN "ok" ELSE "bad"
    BY <2>1 DEF Server, Idle
  <2>3. Code = "0" => command[peer] = "ok"
    BY <2>1, <2>2 DEF Code
  <2>4. \A d \in Clients :
          wire'[d] = wire[d] \/ (d = peer /\ (wire'[d].code = "0" => Code = "0"))
    BY <1>13, OutputReply, Transmitted DEF quoted_ReadOutput, Reply
  <2>5. mode \in {"stream", "dgram"} /\ (mode = "dgram" => wire' = wire)
    BY <1>13, <2>1, OutputReply, Transmitted DEF quoted_ReadOutput, Server
  <2>6. QED
    BY <2>1, <2>2, <2>3, <2>4, <2>5
<1>14. CASE RemoveFiles
  <2>1. /\ pc' \in {"close", "check"}
        /\ UNCHANGED <<version, mode, execs, command, orphans, wire>>
    BY <1>14 DEF RemoveFiles, Replied, NextRound
  <2>2. QED
    BY <2>1
<1>15. CASE daemon_ReadOutput
  <2>1. /\ pc = "read" /\ pc' = "send" /\ version = "daemon"
        /\ UNCHANGED <<version, mode, execs, command, orphans, wire, peer>>
    BY <1>15 DEF daemon_ReadOutput, Responds
  <2>2. command[peer] = IF status.ok THEN "ok" ELSE "bad"
    BY <2>1
  <2>3. command[peer] \in Good
    BY <2>1, <2>2
  <2>4. QED
    BY <2>1, <2>3
<1>16. CASE ReadOutputFails
  <2>1. /\ pc' # "wait" /\ pc' # "read" /\ (pc' = "send" => resp'.code # "0")
        /\ UNCHANGED <<version, mode, execs, command, orphans, wire>>
    BY <1>16 DEF ReadOutputFails, Responds, Reply, Fail
  <2>2. QED
    BY <2>1
<1>17. CASE Send
  <2>1. /\ peer \in Clients /\ resp \in Replies
        /\ (resp.code = "0" => version = "daemon" /\ command[peer] \in Good)
    BY <1>17 DEF Send, Server, Idle
  <2>2. /\ pc' \in {"close", "check"} /\ UNCHANGED <<version, mode, execs, command, orphans>>
    BY <1>17 DEF Send, Replied, NextRound
  <2>3. \A d \in Clients :
          wire'[d] = wire[d] \/ (d = peer /\ (wire'[d].code = "0" => resp.code = "0"))
    BY <1>17, <2>1, Transmitted DEF Send
  <2>4. /\ mode \in {"stream", "dgram"}
        /\ (mode = "dgram" /\ version # "server1" => wire' = wire)
    BY <1>17, <2>1, Transmitted DEF Send, Server
  <2>5. QED
    BY <2>1, <2>2, <2>3, <2>4
<1>18. CASE Close
  BY <1>18 DEF Close, NextRound
<1>19. CASE handle_signal
  BY <1>19 DEF handle_signal
<1>20. CASE Crash
  BY <1>20 DEF Crash, ProcessGone
<1>21. ASSUME NEW c \in Clients, ClientStep(c) \/ Refused(c) \/ Kill(c)
       PROVE  CommandInv'
  BY <1>21, ClientMoves DEF ClientMove
<1>22. ASSUME NEW c \in Clients, Lose(c)
       PROVE  CommandInv'
  BY <1>22 DEF Lose
<1>23. ASSUME NEW c \in Clients, OrphanEnds(c)
       PROVE  CommandInv'
  <2>1. command[c] = "running" /\ orphans' = {} /\ pc = "off"
        /\ UNCHANGED <<version, mode, execs, wire, pc>>
    BY <1>23 DEF OrphanEnds, ModeInv
  <2>2. \A d \in Clients \ {c} : command'[d] = command[d]
    BY <1>23 DEF OrphanEnds, Others
  <2>3. execs[c] # 0 /\ wire[c].code # "0"
    BY <2>1
  <2>4. QED
    BY <2>1, <2>2, <2>3
<1>24. CASE UNCHANGED vars
  BY <1>24 DEF vars
<1> QED
  BY <1>1, <1>2, <1>3, <1>4, <1>5, <1>6, <1>7, <1>8, <1>9, <1>10,
     <1>11, <1>12, <1>13, <1>14, <1>15, <1>16, <1>17, <1>18, <1>19, <1>20,
     <1>21, <1>22, <1>23, <1>24
  DEF Next, ServerStep

(* What is carried out was read with its command, and by the quoted server *)
(* to its last quote.                                                      *)
LEMMA PartStep == TypeOK /\ ModeInv /\ QueueInv /\ PartInv /\ [Next]_vars => PartInv'
<1> SUFFICES ASSUME TypeOK, ModeInv, QueueInv, PartInv, [Next]_vars PROVE PartInv'
  OBVIOUS
<1> Flags /\ Server /\ Others
  BY TypeParts
<1> USE DEF PartInv, ReadEnough, rigid, clVars, histVars, Goto
<1>1. CASE Boot
  BY <1>1 DEF Boot
<1>2. CASE Check
  BY <1>2 DEF Check, ProcessGone
<1>3. CASE Accept
  BY <1>3 DEF Accept
<1>4. CASE AcceptFails
  BY <1>4 DEF AcceptFails
<1>5. CASE server1_Receive \/ quoted_Receive \/ daemon_Receive
  <2>1. PICK c \in Clients, l \in Levels : Received(c, l)
    BY <1>5, ReceiveParts
  <2>2. /\ seen' = [seen EXCEPT ![c] = l] /\ UNCHANGED <<version, quotes, execs>>
        /\ pc' = "auth" => /\ peer' = c /\ l \in {"cut", "whole"}
                           /\ (version = "quoted" => FourQuotes(c, l))
        /\ pc' \in {"check", "auth", "send"}
    BY <2>1 DEF Received, ReadsRequest, NextRound, Responds
  <2>3. seen'[c] = l /\ \A d \in Clients \ {c} : seen'[d] = seen[d]
    BY <2>2 DEF Others
  <2>4. execs[c] = 0 \/ l = "whole"
    BY <2>1 DEF Received, ReadsRequest, QueueInv, Fresh
  <2>5. execs[c] > 0 => l = "whole"
    BY <2>4 DEF Others
  <2>6. QED
    BY <2>2, <2>3, <2>5 DEF FourQuotes
<1>6. CASE Auth
  BY <1>6 DEF Auth, Responds
<1>7. CASE AuthFails
  BY <1>7 DEF AuthFails, Responds, Fail
<1>8. CASE server1_Execute
  BY <1>8 DEF server1_Execute, Responds
<1>9. CASE MakeTemp
  BY <1>9 DEF MakeTemp, Responds, Fail
<1>10. CASE Fork
  <2>1. peer \in Clients /\ pc = "fork" /\ pc' = "wait" /\ ReadEnough(peer)
    BY <1>10 DEF Fork, Server, Idle
  <2>2. UNCHANGED <<version, quotes, seen, peer>> /\ execs' = [execs EXCEPT ![peer] = @ + 1]
    BY <1>10 DEF Fork
  <2>3. \A d \in Clients \ {peer} : execs'[d] = execs[d]
    BY <2>1, <2>2 DEF Others
  <2>4. QED
    BY <2>1, <2>2, <2>3
<1>11. CASE ForkFails
  BY <1>11 DEF ForkFails, Responds, Fail
<1>12. CASE CommandEnds
  BY <1>12 DEF CommandEnds
<1>13. CASE quoted_ReadOutput
  BY <1>13 DEF quoted_ReadOutput
<1>14. CASE RemoveFiles
  BY <1>14 DEF RemoveFiles, Replied, NextRound
<1>15. CASE daemon_ReadOutput
  BY <1>15 DEF daemon_ReadOutput, Responds
<1>16. CASE ReadOutputFails
  BY <1>16 DEF ReadOutputFails, Responds, Fail
<1>17. CASE Send
  BY <1>17 DEF Send, Replied, NextRound
<1>18. CASE Close
  BY <1>18 DEF Close, NextRound
<1>19. CASE handle_signal
  BY <1>19 DEF handle_signal
<1>20. CASE Crash
  BY <1>20 DEF Crash, ProcessGone
<1>21. ASSUME NEW c \in Clients, ClientStep(c) \/ Refused(c) \/ Kill(c)
       PROVE  PartInv'
  BY <1>21, ClientMoves DEF ClientMove
<1>22. ASSUME NEW c \in Clients, Lose(c)
       PROVE  PartInv'
  BY <1>22 DEF Lose
<1>23. ASSUME NEW c \in Clients, OrphanEnds(c)
       PROVE  PartInv'
  BY <1>23 DEF OrphanEnds
<1>24. CASE UNCHANGED vars
  BY <1>24 DEF vars
<1> QED
  BY <1>1, <1>2, <1>3, <1>4, <1>5, <1>6, <1>7, <1>8, <1>9, <1>10,
     <1>11, <1>12, <1>13, <1>14, <1>15, <1>16, <1>17, <1>18, <1>19, <1>20,
     <1>21, <1>22, <1>23, <1>24
  DEF Next, ServerStep

-----------------------------------------------------------------------------
(* What it takes to be refused does not go away: a failure has happened,   *)
(* and a request that was read without its command is not read again.      *)
LEMMA ShortStays ==
  ASSUME TypeOK, QueueInv, [Next]_vars, Short
  PROVE  Short'
<1>a. fails \in Nat /\ seen \in [Clients -> {"none"} \union Levels]
  BY DEF TypeOK
<1> USE DEF Short, rigid, clVars, histVars, Goto
<1>1. CASE Boot
  BY <1>1 DEF Boot
<1>2. CASE Check
  BY <1>2 DEF Check, ProcessGone
<1>3. CASE Accept
  BY <1>3 DEF Accept
<1>4. CASE AcceptFails
  BY <1>4 DEF AcceptFails
<1>5. CASE server1_Receive \/ quoted_Receive \/ daemon_Receive
  <2>1. PICK c \in Clients, l \in Levels : Received(c, l)
    BY <1>5, ReceiveParts
  <2>2. /\ UNCHANGED <<fails, limit, mode, version>> /\ seen' = [seen EXCEPT ![c] = l]
        /\ mode = "stream" => pc = "recv" /\ c = peer
    BY <2>1 DEF Received, ReadsRequest
  <2>3. mode = "stream" => seen[c] = "none"
    BY <2>2 DEF QueueInv, Fresh
  <2>4. \A d \in Clients \ {c} : seen'[d] = seen[d]
    BY <1>a, <2>2
  <2>5. QED
    BY <2>2, <2>3, <2>4
<1>6. CASE Auth
  BY <1>6 DEF Auth, Responds
<1>7. CASE AuthFails
  BY <1>a, <1>7 DEF AuthFails, Responds, Fail
<1>8. CASE server1_Execute
  BY <1>8 DEF server1_Execute, Responds
<1>9. CASE MakeTemp
  BY <1>a, <1>9 DEF MakeTemp, Responds, Fail
<1>10. CASE Fork
  BY <1>10 DEF Fork
<1>11. CASE ForkFails
  BY <1>a, <1>11 DEF ForkFails, Responds, Fail
<1>12. CASE CommandEnds
  BY <1>12 DEF CommandEnds
<1>13. CASE quoted_ReadOutput
  BY <1>13 DEF quoted_ReadOutput
<1>14. CASE RemoveFiles
  BY <1>14 DEF RemoveFiles, Replied, NextRound
<1>15. CASE daemon_ReadOutput
  BY <1>15 DEF daemon_ReadOutput, Responds
<1>16. CASE ReadOutputFails
  BY <1>a, <1>16 DEF ReadOutputFails, Responds, Fail
<1>17. CASE Send
  BY <1>17 DEF Send, Replied, NextRound
<1>18. CASE Close
  BY <1>18 DEF Close, NextRound
<1>19. CASE handle_signal
  BY <1>19 DEF handle_signal
<1>20. CASE Crash
  BY <1>20 DEF Crash, ProcessGone
<1>21. ASSUME NEW c \in Clients, ClientStep(c) \/ Refused(c) \/ Kill(c)
       PROVE  Short'
  BY <1>21, ClientMoves DEF ClientMove
<1>22. ASSUME NEW c \in Clients, Lose(c)
       PROVE  Short'
  BY <1>22 DEF Lose
<1>23. ASSUME NEW c \in Clients, OrphanEnds(c)
       PROVE  Short'
  BY <1>23 DEF OrphanEnds
<1>24. CASE UNCHANGED vars
  BY <1>24 DEF vars
<1> QED
  BY <1>1, <1>2, <1>3, <1>4, <1>5, <1>6, <1>7, <1>8, <1>9, <1>10,
     <1>11, <1>12, <1>13, <1>14, <1>15, <1>16, <1>17, <1>18, <1>19, <1>20,
     <1>21, <1>22, <1>23, <1>24
  DEF Next, ServerStep

(* For want of a descriptor AuthFails needs a failure before it, a limit   *)
(* of one, or connections that server1 has forgotten.                      *)
LEMMA Shortage ==
  ASSUME TypeOK, ModeInv, HeldInv, SpareInv, pc = "auth", Free <= 0
  PROVE  Short
<1> SUFFICES ASSUME ~(fails > 0), limit # 1
             PROVE  Short
  BY DEF Short
<1>1. /\ limit \in Nat /\ limit > 0 /\ fails = 0 /\ spare = 0
      /\ conns \in SUBSET Clients /\ mode \in {"stream", "dgram"}
  BY EarlyAssumption DEF TypeOK, SpareInv
<1>2. IsFiniteSet(conns) /\ Cardinality(conns) \in Nat
  BY <1>1, EarlyAssumption, FS_Subset, FS_CardinalityType
<1>3. Cardinality(conns) >= 2
  BY <1>1, <1>2 DEF Free
<1>4. ~(conns \subseteq {peer})
  <2>1. Cardinality({peer}) = 1 /\ IsFiniteSet({peer})
    BY FS_Singleton
  <2>2. conns \subseteq {peer} => Cardinality(conns) <= 1
    BY <2>1, FS_Subset
  <2>3. QED
    BY <1>2, <1>3, <2>2
<1>5. PICK d \in conns : d # peer
  BY <1>4
<1>6. mode = "stream" /\ orphans = {}
  BY <1>1, <1>5 DEF ModeInv
<1>7. version = "server1" /\ seen[d] \in {"empty", "broken"}
  BY <1>5, <1>6 DEF HeldInv, ConnsAccounted
<1>8. QED
  BY <1>1, <1>5, <1>6, <1>7 DEF Short

(* A step that refuses nobody.                                             *)
RefusesNobody ==
  /\ wire' = wire
  /\ pc' = "send" => resp'.kind # "denied" \/ (pc = "send" /\ UNCHANGED <<resp, peer>>)

LEMMA RefusalsKept ==
  ASSUME RefusalInv, Short => Short', RefusesNobody
  PROVE  RefusalInv'
  BY DEF RefusalInv, RefusesNobody

LEMMA RefusalStep ==
  TypeOK /\ ModeInv /\ HeldInv /\ SpareInv /\ QueueInv /\ RefusalInv /\ [Next]_vars => RefusalInv'
<1> SUFFICES ASSUME TypeOK, ModeInv, HeldInv, SpareInv, QueueInv, RefusalInv, [Next]_vars
             PROVE  RefusalInv'
  OBVIOUS
<1> Flags /\ Server /\ Others
  BY TypeParts
<1> Short => Short'
  BY ShortStays
<1> USE DEF rigid, clVars, histVars, Goto
<1>1. CASE Boot
  BY <1>1, RefusalsKept DEF Boot, Reply, NoReply, RefusesNobody
<1>2. CASE Check
  BY <1>2, RefusalsKept DEF Check, ProcessGone, Reply, NoReply, RefusesNobody
<1>3. CASE Accept
  BY <1>3, RefusalsKept DEF Accept, Reply, NoReply, RefusesNobody
<1>4. CASE AcceptFails
  BY <1>4, RefusalsKept DEF AcceptFails, Reply, NoReply, RefusesNobody
<1>5. CASE server1_Receive \/ quoted_Receive \/ daemon_Receive
  <2>1. PICK c \in Clients, l \in Levels : Received(c, l)
    BY <1>5, ReceiveParts
  <2>2. RefusesNobody
    BY <2>1 DEF Received, ReadsRequest, NextRound, Responds, Reply, RefusesNobody
  <2>3. QED
    BY <2>2, RefusalsKept
<1>6. CASE Auth
  <2>1. /\ UNCHANGED <<wire, peer>> /\ (pc' = "send" => peer \notin Allowed)
    BY <1>6 DEF Auth, Responds
  <2>2. QED
    BY <2>1 DEF RefusalInv
<1>7. CASE AuthFails
  <2>1. wire' = wire /\ pc = "auth" /\ (Free <= 0 \/ fails' = fails + 1)
    BY <1>7 DEF AuthFails, Responds, Fail
  <2>2. CASE Free <= 0
    BY <2>1, <2>2, Shortage DEF RefusalInv
  <2>3. CASE fails' = fails + 1
    <3>1. fails' > 0
      BY <2>3 DEF Server
    <3>2. Short'
      BY <3>1 DEF Short
    <3>3. QED
      BY <3>2 DEF RefusalInv
  <2>4. QED
    BY <2>1, <2>2, <2>3
<1>8. CASE server1_Execute
  BY <1>8, RefusalsKept DEF server1_Execute, Responds, Reply, NoReply, RefusesNobody
<1>9. CASE MakeTemp
  BY <1>9, RefusalsKept DEF MakeTemp, Responds, Fail, Reply, NoReply, RefusesNobody
<1>10. CASE Fork
  BY <1>10, RefusalsKept DEF Fork, Reply, NoReply, RefusesNobody
<1>11. CASE ForkFails
  BY <1>11, RefusalsKept DEF ForkFails, Responds, Fail, Reply, NoReply, RefusesNobody
<1>12. CASE CommandEnds
  BY <1>12, RefusalsKept DEF CommandEnds, Reply, NoReply, RefusesNobody
<1>13. CASE quoted_ReadOutput
  <2>1. \A d \in Clients :
          wire'[d] = wire[d] \/ (d = peer /\ wire'[d].kind # "denied")
    BY <1>13, OutputReply, Transmitted DEF quoted_ReadOutput, Reply
  <2>2. pc' = "remove" /\ Allowed \subseteq Clients
    BY <1>13, EarlyAssumption DEF quoted_ReadOutput
  <2>3. QED
    BY <2>1, <2>2 DEF RefusalInv
<1>14. CASE RemoveFiles
  BY <1>14, RefusalsKept DEF RemoveFiles, Replied, NextRound, Reply, NoReply, RefusesNobody
<1>15. CASE daemon_ReadOutput
  BY <1>15, RefusalsKept DEF daemon_ReadOutput, Responds, Reply, NoReply, RefusesNobody
<1>16. CASE ReadOutputFails
  BY <1>16, RefusalsKept DEF ReadOutputFails, Responds, Fail, Reply, NoReply, RefusesNobody
<1>17. CASE Send
  <2>1. \A d \in Clients :
          wire'[d] = wire[d] \/ (d = peer /\ (wire'[d].kind = "denied" => resp.kind = "denied"))
    BY <1>17, Transmitted DEF Send, Server
  <2>2. pc = "send" /\ pc' # "send" /\ Allowed \subseteq Clients
    BY <1>17, EarlyAssumption DEF Send, Replied, NextRound
  <2>3. QED
    BY <2>1, <2>2 DEF RefusalInv
<1>18. CASE Close
  BY <1>18, RefusalsKept DEF Close, NextRound, Reply, NoReply, RefusesNobody
<1>19. CASE handle_signal
  BY <1>19, RefusalsKept DEF handle_signal, Reply, NoReply, RefusesNobody
<1>20. CASE Crash
  BY <1>20, RefusalsKept DEF Crash, ProcessGone, Reply, NoReply, RefusesNobody
<1>21. ASSUME NEW c \in Clients, ClientStep(c) \/ Refused(c) \/ Kill(c)
       PROVE  RefusalInv'
  BY <1>21, ClientMoves, RefusalsKept DEF ClientMove, RefusesNobody
<1>22. ASSUME NEW c \in Clients, Lose(c)
       PROVE  RefusalInv'
  BY <1>22, RefusalsKept DEF Lose, Reply, NoReply, RefusesNobody
<1>23. ASSUME NEW c \in Clients, OrphanEnds(c)
       PROVE  RefusalInv'
  BY <1>23, RefusalsKept DEF OrphanEnds, Reply, NoReply, RefusesNobody
<1>24. CASE UNCHANGED vars
  BY <1>24, RefusalsKept DEF vars, Reply, NoReply, RefusesNobody
<1> QED
  BY <1>1, <1>2, <1>3, <1>4, <1>5, <1>6, <1>7, <1>8, <1>9, <1>10,
     <1>11, <1>12, <1>13, <1>14, <1>15, <1>16, <1>17, <1>18, <1>19, <1>20,
     <1>21, <1>22, <1>23, <1>24
  DEF Next, ServerStep

-----------------------------------------------------------------------------
LEMMA Starts == Init => IInv
<1> SUFFICES ASSUME Init PROVE IInv
  OBVIOUS
<1>1. TypeOK
  <2>1. NoReply \in Replies
    BY DEF NoReply, Reply, Replies
  <2>2. Flags
    BY DEF Init, Flags
  <2>3. Server
    BY <2>1 DEF Init, Server, Idle, Labels
  <2>4. Others
    BY <2>1 DEF Init, Others, ClientLabels
  <2>5. QED
    BY <2>2, <2>3, <2>4, TypeParts
<1>2. ModeInv /\ HeldInv
  BY DEF Init, ModeInv, HeldInv, ConnsAccounted, Idle
<1>3. SpareInv
  <2>1. limit \in Nat /\ limit # 0
    BY EarlyAssumption DEF Init
  <2>2. spare = 0 /\ temp = 0 /\ fails = 0 /\ crashes = 0 /\ pc = "off"
    BY DEF Init
  <2>3. QED
    BY <2>1, <2>2 DEF SpareInv, WithFiles
<1>4. QueueInv /\ CopyInv
  <2>1. /\ inbox = <<>> /\ peer = None /\ execs = [c \in Clients |-> 0] /\ pc = "off"
        /\ copies = [c \in Clients |-> 0] /\ seen = [c \in Clients |-> "none"]
    BY DEF Init
  <2>2. /\ Len(inbox) = 0
        /\ \A c \in Clients : c # peer /\ execs[c] = 0 /\ copies[c] = 0 /\ seen[c] = "none"
    BY <2>1, EarlyAssumption
  <2>3. QED
    BY <2>1, <2>2, EarlyAssumption DEF QueueInv, Fresh, CopyInv, Pending
<1>5. CommandInv /\ RefusalInv
  BY EarlyAssumption DEF Init, CommandInv, RefusalInv, NoReply, Reply
<1>6. PartInv
  BY DEF Init, PartInv
<1>7. QED
  BY <1>1, <1>2, <1>3, <1>4, <1>5, <1>6 DEF IInv

LEMMA Invariance == Spec => []IInv
<1>1. IInv /\ [Next]_vars => IInv'
  BY TypeStep, ModeStep, HeldStep, SpareStep, QueueStep, CopyStep, CommandStep, PartStep,
     RefusalStep
  DEF IInv
<1>2. QED
  BY Starts, <1>1, PTL DEF Spec

-----------------------------------------------------------------------------
(* Types, of every variable of the three servers; in particular no client  *)
(* is served between the rounds of main() (myRPC-server.c:169,             *)
(* server1.c:101, server.c:105), and removing files never makes the number *)
(* of temporary files negative (myRPC-server.c:125, rpc_server.c:130).     *)
THEOREM TypeCorrect == Spec => []TypeOK
<1>1. IInv => TypeOK
  BY DEF IInv
<1>2. QED
  BY <1>1, Invariance, PTL

(* Whatever fails, crashes or is started again, a command is started at    *)
(* most once on a connection, and with datagrams at most once for each     *)
(* copy of its request that the network delivers (server1.c:109,           *)
(* myRPC-server.c:75, rpc_server.c:54).                                    *)
THEOREM RunsOnce == Spec => []AtMostOnce
<1>1. ASSUME IInv PROVE AtMostOnce
  <2> SUFFICES ASSUME NEW c \in Clients
               PROVE  execs[c] <= IF mode = "stream" THEN 1 ELSE MaxCopies
    BY DEF AtMostOnce
  <2>1. /\ mode \in {"stream", "dgram"} /\ execs[c] \in Nat /\ copies[c] \in Nat
        /\ MaxCopies \in Nat
    BY <1>1, EarlyAssumption DEF IInv, TypeOK
  <2>2. mode = "stream" => execs[c] <= 1
    BY <1>1 DEF IInv, CopyInv
  <2>3. mode = "dgram" => execs[c] + copies[c] + Pending(c) <= MaxCopies
    BY <1>1 DEF IInv, CopyInv
  <2>4. QED
    BY <2>1, <2>2, <2>3 DEF Pending
<1>2. QED
  BY <1>1, Invariance, PTL

(* What the quoted server runs of a command without a quote in it it has   *)
(* read to the last quote of the request, for it asks for all four         *)
(* (myRPC-server.c:197-203).                                               *)
THEOREM NothingInPart == Spec => []NeverInPart
<1>1. IInv => NeverInPart
  BY DEF IInv, PartInv, ReadEnough, NeverInPart
<1>2. QED
  BY <1>1, Invariance, PTL

(* Code 0 is sent for a command that ran to its end, by the quoted server  *)
(* for one with exit status 0; and what ran was the client's whole command *)
(* unless it has a quote in it or, with the daemon, was cut short          *)
(* (myRPC-server.c:116, rpc_server.c:103).                                 *)
THEOREM CodeTellsTruth == Spec => []CodeZeroMeansDone
<1>1. ASSUME IInv PROVE CodeZeroMeansDone
  <2> SUFFICES ASSUME NEW c \in Clients, wire[c].code = "0"
               PROVE  IF version = "quoted"
                      THEN command[c] = "ok" /\ (c \in quotes \/ Takes(c) = "whole")
                      ELSE command[c] \in {"ok", "bad"} /\ seen[c] \in {"cut", "whole"}
    BY DEF CodeZeroMeansDone
  <2>1. command[c] \in Good /\ execs[c] # 0 /\ execs[c] \in Nat
    BY <1>1 DEF IInv, CommandInv, Good, TypeOK
  <2>2. ReadEnough(c)
    BY <1>1, <2>1 DEF IInv, PartInv
  <2>3. QED
    BY <2>1, <2>2 DEF Good, ReadEnough, Takes
<1>2. QED
  BY <1>1, Invariance, PTL

(* A user of the users file is refused only after a failure, or where the  *)
(* descriptor for the file is missing: because there is one in all, or     *)
(* because server1 has forgotten connections (myRPC-server.c:48-52,        *)
(* rpc_server.c:35-39, server1.c:119).                                     *)
THEOREM RefusalsExplained == Spec => []RefusalExplained
<1>1. IInv => RefusalExplained
  BY DEF IInv, RefusalInv, Short, RefusalExplained
<1>2. QED
  BY <1>1, Invariance, PTL

(* Only server1 forgets connections, and only those whose request had no   *)
(* command in it (server1.c:111, :119).                                    *)
THEOREM ConnectionsAccounted == Spec => []ConnsAccounted
<1>1. IInv => ConnsAccounted
  BY DEF IInv, HeldInv
<1>2. QED
  BY <1>1, Invariance, PTL

(* A failure loses at most two files and two descriptors, a crash two      *)
(* files (myRPC-server.c:83, :130, rpc_server.c:61, :69, :91, :107).       *)
THEOREM LeaksCounted == Spec => []LeaksBounded
<1>1. ASSUME IInv PROVE LeaksBounded
  <2>1. Idle => pc \notin WithFiles
    BY DEF Idle, WithFiles
  <2>2. temp \in Nat /\ fails \in Nat /\ crashes \in Nat
    BY <1>1 DEF IInv, TypeOK
  <2>3. QED
    BY <1>1, <2>1, <2>2 DEF IInv, SpareInv, LeaksBounded
<1>2. QED
  BY <1>1, Invariance, PTL

(* However often that happens, there is a descriptor left for accept: the  *)
(* files are made while a connection is open, and two of them, or one and  *)
(* a failure (myRPC-server.c:80-86, rpc_server.c:58-64).                   *)
THEOREM CanAccept == Spec => []AcceptStaysPossible
<1>1. IInv => AcceptStaysPossible
  BY DEF IInv, SpareInv, AcceptStaysPossible
<1>2. QED
  BY <1>1, Invariance, PTL
=============================================================================
