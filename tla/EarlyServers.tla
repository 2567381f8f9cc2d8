---------------------------- MODULE EarlyServers ----------------------------
(***************************************************************************)
(* The three servers the repository keeps beside that of 025final, each    *)
(* with its client: server1.c with client1.c, the first server             *)
(* myRPC-server.c ("quoted", after its protocol) with myRPC-client.c, and  *)
(* the daemon of myRPC/server/src, which client1.c can talk to.  A         *)
(* behaviour runs one of them, in stream or in datagram mode.              *)
(*                                                                         *)
(* They differ in what they do when something is missing: a part of the    *)
(* request, a descriptor, a process.  The model therefore counts           *)
(* descriptors and temporary files, and lets mktemp, fork, fopen and       *)
(* malloc fail.  Temporary files have names nobody else has, so their      *)
(* contents are the command's own.  Datagrams get lost, come twice and out *)
(* of order, as in DgramRpc; that a port is given to another client, that  *)
(* commands stay in the background, that accept fails without a shortage,  *)
(* and edits of the users file, are as in StreamRpc and DgramRpc and left  *)
(* out here.                                                               *)
(***************************************************************************)
EXTENDS Integers, Sequences, FiniteSets

CONSTANTS
  Clients,   \* clients; each sends one request and exits
  Allowed,   \* those whose user is in the users file
  Quoting,   \* those whose command may have a quote in it
  Versions,  \* the servers
  Limits,    \* how many descriptors a server can have beside its socket
  MaxBoots,  \* bound: starts
  MaxCopies, \* bound: how often the network can deliver one datagram
  MaxFails,  \* bound: failures without a shortage of descriptors
  None       \* no client

ASSUME EarlyAssumption ==
  /\ Allowed \subseteq Clients /\ Quoting \subseteq Clients /\ None \notin Clients
  /\ IsFiniteSet(Clients)
  /\ Versions \subseteq {"server1", "quoted", "daemon"}
  /\ Limits \subseteq Nat \ {0} /\ MaxCopies \in Nat \ {0}
  /\ MaxBoots \in Nat /\ MaxFails \in Nat

VARIABLES
  version,  \* which server
  mode,     \* its socket_type
  limit,    \* its descriptors
  quotes,   \* clients whose command has a quote in it
  pc,       \* where main() is
  stop,     \* stop, or ~keep_running
  peer,     \* the client being served
  resp,     \* the response being made
  status,   \* of the last command: exit status 0?  anything on stderr?
  inbox,    \* the accept queue
  copies,   \* how often each client's datagram can still arrive
  conns,    \* connections some process has open
  spare,    \* descriptors of temporary files that were lost
  temp,     \* temporary files in /tmp
  orphans,  \* clients whose command outlived its server
  cl,       \* where the main() of each client is
  wire,     \* the reply sent to each client
  seen,     \* history: how much of each request was read
  execs,    \* history: how often each command was started
  command,  \* history: how each command went
  fails,    \* history: failures
  crashes,  \* history: crashes
  boots     \* history: starts

rigid == <<version, mode, limit, quotes>>
clVars == <<cl, wire>>
histVars == <<seen, execs, command, fails, crashes, boots>>
vars == <<rigid, pc, stop, peer, resp, status, inbox, copies, conns, spare, temp, orphans,
          clVars, histVars>>

Reply(kind, code) == [kind |-> kind, code |-> code]
NoReply == Reply("none", "none")
Replies == [kind : {"none", "denied", "readerr", "empty", "output"},
            code : {"none", "0", "1"}]

(* What a read leaves of a request: nothing, not both of its parts, both   *)
(* with the command cut short, all.                                        *)
Levels == {"empty", "broken", "cut", "whole"}

Labels == {"off", "check", "accept", "recv", "auth", "temp", "fork", "wait", "read",
           "remove", "send", "close"}
Idle == pc \in {"off", "check", "accept"} \/ (mode = "dgram" /\ pc = "recv")

ClientEnds == {"answered", "eof", "failed", "killed", "gone"}

Init ==
  /\ version \in Versions /\ mode \in {"stream", "dgram"} /\ limit \in Limits
  /\ quotes \in SUBSET Quoting /\ (version = "quoted" \/ quotes = {})
  /\ pc = "off" /\ stop = FALSE
  /\ peer = None /\ resp = NoReply /\ status = [ok |-> TRUE, noisy |-> FALSE]
  /\ inbox = <<>> /\ copies = [c \in Clients |-> 0]
  /\ conns = {} /\ spare = 0 /\ temp = 0 /\ orphans = {}
  /\ cl = [c \in Clients |-> "start"] /\ wire = [c \in Clients |-> NoReply]
  /\ seen = [c \in Clients |-> "none"]
  /\ execs = [c \in Clients |-> 0] /\ command = [c \in Clients |-> "none"]
  /\ fails = 0 /\ crashes = 0 /\ boots = 0

-----------------------------------------------------------------------------
Goto(label) == pc' = label

Queued == {inbox[i] : i \in 1 .. Len(inbox)}
Free == limit - spare - Cardinality(conns)

(* Something fails although there are descriptors enough.                  *)
Fail == fails < MaxFails /\ fails' = fails + 1

(* What a server that goes on with a request takes for the command in it:  *)
(* the quoted one the text up to the next quote, which its client does not *)
(* escape; the others what has arrived.                                    *)
Takes(c) == IF c \in quotes \/ seen[c] = "cut" THEN "part" ELSE "whole"

(* The listening socket is not close-on-exec: a command keeps it open.     *)
Listening == pc # "off" \/ orphans # {}

-----------------------------------------------------------------------------
(* The clients: connect (or nothing, for datagrams), send, one recv.       *)

ClientGoes(c, label) == cl' = [cl EXCEPT ![c] = label]

Connect(c) ==
  /\ cl[c] = "start" /\ mode = "stream"
  /\ IF Listening
     THEN ClientGoes(c, "connected") /\ inbox' = Append(inbox, c)
     ELSE ClientGoes(c, "failed") /\ UNCHANGED inbox
  /\ UNCHANGED <<rigid, pc, stop, peer, resp, status, copies, conns, spare, temp, orphans,
                 wire, histVars>>

(* A datagram is on the way in all the copies the network may deliver.     *)
SendReq(c) ==
  /\ \/ cl[c] = "connected" /\ UNCHANGED copies
     \/ /\ cl[c] = "start" /\ mode = "dgram"
        /\ copies' = [copies EXCEPT ![c] = MaxCopies]
  /\ ClientGoes(c, "wait")
  /\ UNCHANGED <<rigid, pc, stop, peer, resp, status, inbox, conns, spare, temp,
                 orphans, wire, histVars>>

(* The network drops a copy; so does a command of the daemon that reads    *)
(* its standard input, which is the server's socket.                       *)
Lose(c) ==
  /\ copies[c] > 0
  /\ copies' = [copies EXCEPT ![c] = @ - 1]
  /\ UNCHANGED <<rigid, pc, stop, peer, resp, status, inbox, conns, spare, temp,
                 orphans, clVars, histVars>>

(* myRPC-client.c connects its datagram socket and may be told that nobody *)
(* has the port.                                                           *)
Refused(c) ==
  /\ cl[c] = "wait" /\ mode = "dgram" /\ version = "quoted" /\ ~Listening
  /\ ClientGoes(c, "failed")
  /\ UNCHANGED <<rigid, pc, stop, peer, resp, status, inbox, copies, conns, spare,
                 temp, orphans, wire, histVars>>

RecvReply(c) ==
  /\ cl[c] = "wait" /\ wire[c] # NoReply
  /\ ClientGoes(c, "answered")
  /\ UNCHANGED <<rigid, pc, stop, peer, resp, status, inbox, copies, conns, spare, temp,
                 orphans, wire, histVars>>

(* recv returns 0, or -1 when the connection was reset: a process ended    *)
(* with it, or closed it with bytes of the request unread.                 *)
RecvEnd(c) ==
  /\ cl[c] = "wait" /\ mode = "stream" /\ c \notin conns \union Queued
  /\ \/ wire[c] = NoReply /\ \E e \in {"eof", "failed"} : ClientGoes(c, e)
     \/ seen[c] \in {"broken", "cut"} /\ ClientGoes(c, "failed")
  /\ UNCHANGED <<rigid, pc, stop, peer, resp, status, inbox, copies, conns, spare, temp,
                 orphans, wire, histVars>>

(* "gone": without having sent its request.                                *)
Kill(c) ==
  /\ \/ cl[c] = "wait" /\ ClientGoes(c, "killed")
     \/ cl[c] = "connected" /\ ClientGoes(c, "gone")
  /\ UNCHANGED <<rigid, pc, stop, peer, resp, status, inbox, copies, conns, spare, temp,
                 orphans, wire, histVars>>

ClientStep(c) == Connect(c) \/ SendReq(c) \/ RecvReply(c) \/ RecvEnd(c)

-----------------------------------------------------------------------------
(* What the servers have in common.                                        *)

(* bind fails as long as a command has the socket of an earlier server.    *)
Boot ==
  /\ pc = "off" /\ boots < MaxBoots /\ orphans = {}
  /\ Goto("check") /\ boots' = boots + 1
  /\ UNCHANGED <<rigid, stop, peer, resp, status, inbox, copies, conns, spare, temp, orphans,
                 clVars, seen, execs, command, fails, crashes>>

(* The process is gone; H: what a command it leaves behind belongs to.  A  *)
(* command of the quoted server has the connection open, one of the daemon *)
(* has its output files in that place.                                     *)
ProcessGone(H) ==
  /\ Goto("off") /\ stop' = FALSE /\ peer' = None /\ resp' = NoReply
  /\ spare' = 0 /\ orphans' = orphans \union H
  /\ conns' = IF version = "quoted" /\ mode = "stream" THEN H ELSE {}
  /\ inbox' = IF H = {} THEN <<>> ELSE inbox

Check ==
  /\ pc = "check"
  /\ IF stop
     THEN ProcessGone({})
     ELSE /\ Goto(IF mode = "stream" THEN "accept" ELSE "recv")
          /\ UNCHANGED <<stop, peer, resp, inbox, conns, spare, orphans>>
  /\ UNCHANGED <<rigid, status, copies, temp, clVars, histVars>>

(* signal() in server1 and the daemon restarts accept and recv.  The       *)
(* quoted server has no handlers: a signal is a crash.                     *)
handle_signal ==
  /\ pc # "off" /\ ~stop /\ version # "quoted"
  /\ stop' = TRUE
  /\ UNCHANGED <<rigid, pc, peer, resp, status, inbox, copies, conns, spare, temp, orphans,
                 clVars, histVars>>

Crash ==
  /\ pc # "off"
  /\ ProcessGone(IF pc = "wait" THEN {peer} ELSE {})
  /\ crashes' = crashes + 1
  /\ UNCHANGED <<rigid, status, copies, temp, clVars, seen, execs, command, fails, boots>>

(* A command whose server is gone ends.                                    *)
OrphanEnds(c) ==
  /\ c \in orphans
  /\ orphans' = {} /\ conns' = conns \ {c} /\ inbox' = <<>>
  /\ \E how \in {"ok", "bad"} : command' = [command EXCEPT ![c] = how]
  /\ UNCHANGED <<rigid, pc, stop, peer, resp, status, copies, spare, temp, clVars,
                 seen, execs, fails, crashes, boots>>

Accept ==
  /\ pc = "accept" /\ inbox # <<>> /\ Free > 0
  /\ peer' = Head(inbox) /\ inbox' = Tail(inbox)
  /\ conns' = conns \union {Head(inbox)}
  /\ Goto("recv")
  /\ UNCHANGED <<rigid, stop, resp, status, copies, spare, temp, orphans, clVars,
                 histVars>>

(* No descriptor: the loop goes round.  server1 does not look at the       *)
(* result and hands -1 to recvfrom, which fails.                           *)
AcceptFails ==
  /\ pc = "accept" /\ Free <= 0
  /\ Goto("check")
  /\ UNCHANGED <<rigid, stop, peer, resp, status, inbox, copies, conns, spare, temp, orphans,
                 clVars, histVars>>

(* One recv or recvfrom: c's request, read as far as l.                    *)
ReadsRequest(c, l) ==
  /\ pc = "recv"
  /\ \/ /\ mode = "stream"
        /\ c = peer
        /\ \/ cl[c] \in {"wait", "killed"} /\ l # "empty"
           \/ cl[c] = "gone" /\ l = "empty"
        /\ UNCHANGED copies
     \/ /\ mode = "dgram"
        /\ copies[c] > 0 /\ l = "whole"
        /\ copies' = [copies EXCEPT ![c] = @ - 1]
  /\ seen' = [seen EXCEPT ![c] = l]
  /\ UNCHANGED <<rigid, stop, status, inbox, spare, temp, orphans, clVars,
                 execs, command, fails, crashes, boots>>

Responds(reply) == resp' = reply /\ Goto("send")

(* A slip: the next round starts with the client of this one.              *)
NextRound_KeepsPeer(open) ==
  /\ Goto("check") /\ resp' = NoReply
  /\ conns' = open
  /\ UNCHANGED peer

(* The end of the loop body, its connection closed or not.                 *)
NextRound(open) ==
  /\ Goto("check") /\ peer' = None /\ resp' = NoReply
  /\ conns' = open

Denied == Reply("denied", IF version = "server1" THEN "none" ELSE "1")

(* A slip: the connection is closed as soon as the request has been read.  *)
Auth_ClosesEarly ==
  /\ pc = "auth"
  /\ \/ peer \in Allowed /\ Free > 0 /\ Goto("temp") /\ UNCHANGED resp
     \/ peer \notin Allowed /\ Responds(Denied)
  /\ conns' = conns \ {peer}
  /\ UNCHANGED <<rigid, stop, peer, status, inbox, copies, spare, temp, orphans, clVars,
                 histVars>>

(* The users file is read, and the name compared with its lines.           *)
Auth ==
  /\ pc = "auth"
  /\ \/ peer \in Allowed /\ Free > 0 /\ Goto("temp") /\ UNCHANGED resp
     \/ peer \notin Allowed /\ Responds(Denied)
  /\ UNCHANGED <<rigid, stop, peer, status, inbox, copies, conns, spare, temp, orphans,
                 clVars, histVars>>

(* The file cannot be opened, for want of a descriptor or else: nobody is  *)
(* in it then, nor is anybody allowed by the defaults of config_parser1.   *)
AuthFails ==
  /\ pc = "auth" /\ Responds(Denied)
  /\ IF Free <= 0 THEN UNCHANGED fails ELSE Fail
  /\ UNCHANGED <<rigid, stop, peer, status, inbox, copies, conns, spare, temp, orphans,
                 clVars, seen, execs, command, crashes, boots>>

(* On a connection an empty reply is none, as a datagram it is one.        *)
Sent(reply) == IF mode = "stream" /\ reply.kind = "empty" THEN NoReply ELSE reply

(* send on a connection; a datagram reaches its client only from server1,  *)
(* which alone passes the client's address, and may get lost.  Of two that *)
(* are on the way to a client the first or the second counts.              *)
Transmit(reply) ==
  \/ /\ mode = "stream" \/ version = "server1"
     /\ wire' = [wire EXCEPT ![peer] = Sent(reply)]
  \/ mode = "dgram" /\ UNCHANGED wire

(* On a connection close follows, else the loop goes round.                *)
Replied ==
  \/ mode = "stream" /\ Goto("close") /\ UNCHANGED <<peer, resp, conns>>
  \/ mode = "dgram" /\ NextRound(conns)

Send ==
  /\ pc = "send"
  /\ Transmit(resp) /\ Replied
  /\ UNCHANGED <<rigid, stop, status, inbox, copies, spare, temp, orphans, cl, histVars>>

(* A slip: close(connfd) is left out.                                      *)
Close_Skips ==
  /\ pc = "close"
  /\ NextRound(conns)
  /\ UNCHANGED <<rigid, stop, status, inbox, copies, spare, temp, orphans, clVars, histVars>>

Close ==
  /\ pc = "close"
  /\ NextRound(conns \ {peer})
  /\ UNCHANGED <<rigid, stop, status, inbox, copies, spare, temp, orphans, clVars, histVars>>

-----------------------------------------------------------------------------
(* server1.c.                                                              *)

(* Without a request it goes on to the next one and forgets the            *)
(* connection.                                                             *)
server1_Receive ==
  /\ version = "server1"
  /\ \E c \in Clients, l \in Levels :
       /\ ReadsRequest(c, l)
       /\ IF l \in {"empty", "broken"}
          THEN NextRound(conns)
          ELSE peer' = c /\ Goto("auth") /\ UNCHANGED <<resp, conns>>

(* The templates are not initialised: mkstemp fails, nothing is run, and   *)
(* what is opened is a file of whatever name the bytes make, mostly none.  *)
server1_Execute ==
  /\ version = "server1" /\ pc = "temp"
  /\ \E kind \in {"readerr", "output", "empty"} : Responds(Reply(kind, "none"))
  /\ UNCHANGED <<rigid, stop, peer, status, inbox, copies, conns, spare, temp, orphans,
                 clVars, histVars>>

-----------------------------------------------------------------------------
(* myRPC-server.c and the daemon with rpc_server.c.                        *)

(* Whether what was read of c's request has four quotes: a part of it can  *)
(* if one is in the command itself.                                        *)
FourQuotes(c, l) == l = "whole" \/ (l = "cut" /\ c \in quotes)

(* Slips: two quotes are enough; a request without its quotes is dropped   *)
(* and its connection forgotten.                                           *)
quoted_Receive_TwoQuotes ==
  /\ version = "quoted"
  /\ \E c \in Clients, l \in Levels :
       /\ ReadsRequest(c, l)
       /\ peer' = c /\ UNCHANGED conns
       /\ \/ l \in {"cut", "whole"} /\ Goto("auth") /\ UNCHANGED resp
          \/ l # "whole" /\ Responds(Reply("readerr", "1"))

quoted_Receive_Skips ==
  /\ version = "quoted"
  /\ \E c \in Clients, l \in Levels :
       /\ ReadsRequest(c, l)
       /\ \/ FourQuotes(c, l) /\ peer' = c /\ Goto("auth") /\ UNCHANGED <<resp, conns>>
          \/ l # "whole" /\ NextRound(conns)

(* Four quotes or nothing: a request that was cut short is refused, unless *)
(* it goes as far as a quote in its command.                               *)
quoted_Receive ==
  /\ version = "quoted"
  /\ \E c \in Clients, l \in Levels :
       /\ ReadsRequest(c, l)
       /\ peer' = c /\ UNCHANGED conns
       /\ \/ FourQuotes(c, l) /\ Goto("auth") /\ UNCHANGED resp
          \/ l # "whole" /\ Responds(Reply("readerr", "1"))

(* user:command; the connection is closed at once if recv fails.           *)
daemon_Receive ==
  /\ version = "daemon"
  /\ \E c \in Clients, l \in Levels :
       /\ ReadsRequest(c, l)
       /\ \/ /\ peer' = c /\ UNCHANGED conns
             /\ IF l \in {"cut", "whole"} THEN Goto("auth") /\ UNCHANGED resp
                ELSE Responds(Reply("readerr", "1"))
          \/ l = "empty" /\ NextRound(conns \ {c})

(* Two files, one after the other; when one of them fails, nothing is done *)
(* about the other.  A shortage of descriptors makes them fail too.        *)
MakeTemp ==
  /\ pc = "temp" /\ version \in {"quoted", "daemon"}
  /\ \E made \in 0 .. 2 :
       /\ made <= Free
       /\ temp' = temp + made
       /\ IF made = 2
          THEN Goto("fork") /\ UNCHANGED <<resp, spare, fails>>
          ELSE /\ Responds(Reply("readerr", "1")) /\ spare' = spare + made
               /\ IF Free < 2 THEN fails' = fails + 1 ELSE Fail
  /\ UNCHANGED <<rigid, stop, peer, status, inbox, copies, conns, orphans, clVars,
                 seen, execs, command, crashes, boots>>

(* fork, and /bin/sh runs the command.                                     *)
Fork ==
  /\ pc = "fork" /\ Goto("wait")
  /\ execs' = [execs EXCEPT ![peer] = @ + 1]
  /\ command' = [command EXCEPT ![peer] = "running"]
  /\ UNCHANGED <<rigid, stop, peer, resp, status, inbox, copies, conns, spare, temp, orphans,
                 clVars, seen, fails, crashes, boots>>

(* The quoted server keeps both files open and in place, the daemon closes *)
(* them.                                                                   *)
ForkFails ==
  /\ pc = "fork" /\ Fail
  /\ Responds(Reply("readerr", "1"))
  /\ spare' = IF version = "quoted" THEN spare + 2 ELSE spare
  /\ UNCHANGED <<rigid, stop, peer, status, inbox, copies, conns, temp, orphans, clVars,
                 seen, execs, command, crashes, boots>>

(* waitpid returns.                                                        *)
CommandEnds ==
  /\ pc = "wait" /\ Goto("read")
  /\ status' \in [ok : BOOLEAN, noisy : BOOLEAN]
  /\ command' = [command EXCEPT ![peer] = IF status'.ok THEN "ok" ELSE "bad"]
  /\ UNCHANGED <<rigid, stop, peer, resp, inbox, copies, conns, spare, temp, orphans, clVars,
                 seen, execs, fails, crashes, boots>>

(* A slip: both look at stderr.                                            *)
Code_Noisy == IF ~status.noisy THEN "0" ELSE "1"

(* The code of a reply is the exit status with one, with the other whether *)
(* anything was written to stderr.                                         *)
Code == IF (IF version = "quoted" THEN status.ok ELSE ~status.noisy) THEN "0" ELSE "1"

(* The quoted server sends what it has read, and only then removes the     *)
(* files.                                                                  *)
quoted_ReadOutput ==
  /\ pc = "read" /\ version = "quoted"
  /\ Transmit(Reply("output", Code)) /\ Goto("remove")
  /\ UNCHANGED <<rigid, stop, peer, resp, status, inbox, copies, conns, spare, temp,
                 orphans, cl, histVars>>

(* A slip: the files are not removed.                                      *)
RemoveFiles_Skips ==
  /\ pc = "remove" /\ Replied
  /\ UNCHANGED <<rigid, stop, status, inbox, copies, spare, temp, orphans, clVars, histVars>>

RemoveFiles ==
  /\ pc = "remove" /\ Replied
  /\ temp' = temp - 2
  /\ UNCHANGED <<rigid, stop, status, inbox, copies, spare, orphans, clVars, histVars>>

(* The daemon has removed them before its caller sends the reply.          *)
daemon_ReadOutput ==
  /\ pc = "read" /\ version = "daemon"
  /\ Responds(Reply("output", Code)) /\ temp' = temp - 2
  /\ UNCHANGED <<rigid, stop, peer, status, inbox, copies, conns, spare, orphans, clVars,
                 histVars>>

(* Slips: the command is started again; the user is told it was denied.    *)
ReadOutputFails_Retry ==
  /\ pc = "read" /\ version = "daemon" /\ Fail
  /\ Goto("temp")
  /\ UNCHANGED <<rigid, stop, peer, resp, status, inbox, copies, conns, spare, temp, orphans, clVars,
                 seen, execs, command, crashes, boots>>

ReadOutputFails_Denied ==
  /\ pc = "read" /\ version = "daemon" /\ Fail
  /\ Responds(Reply("denied", "1"))
  /\ UNCHANGED <<rigid, stop, peer, status, inbox, copies, conns, spare, temp, orphans, clVars,
                 seen, execs, command, crashes, boots>>

(* fopen or malloc fails in the daemon, and the files stay.                *)
ReadOutputFails ==
  /\ pc = "read" /\ version = "daemon" /\ Fail
  /\ Responds(Reply("readerr", "1"))
  /\ UNCHANGED <<rigid, stop, peer, status, inbox, copies, conns, spare, temp, orphans, clVars,
                 seen, execs, command, crashes, boots>>

-----------------------------------------------------------------------------
ServerStep ==
  \/ Check \/ Accept \/ AcceptFails
  \/ server1_Receive \/ quoted_Receive \/ daemon_Receive
  \/ Auth \/ AuthFails
  \/ server1_Execute \/ MakeTemp \/ Fork \/ ForkFails \/ CommandEnds
  \/ quoted_ReadOutput \/ RemoveFiles \/ daemon_ReadOutput \/ ReadOutputFails
  \/ Send \/ Close

Next ==
  \/ Boot \/ ServerStep \/ handle_signal \/ Crash
  \/ \E c \in Clients : ClientStep(c) \/ Refused(c) \/ Kill(c) \/ Lose(c) \/ OrphanEnds(c)

(* A running process gets on, and commands end.                            *)
Fairness ==
  /\ WF_vars(ServerStep)
  /\ \A c \in Clients : WF_vars(ClientStep(c)) /\ WF_vars(OrphanEnds(c))

Spec == Init /\ [][Next]_vars /\ Fairness

-----------------------------------------------------------------------------
TypeOK ==
  /\ version \in Versions /\ mode \in {"stream", "dgram"} /\ limit \in Limits
  /\ quotes \in SUBSET Quoting
  /\ pc \in Labels /\ stop \in BOOLEAN
  /\ peer \in IF Idle THEN {None} ELSE Clients
  /\ resp \in Replies /\ status \in [ok : BOOLEAN, noisy : BOOLEAN]
  /\ inbox \in Seq(Clients) /\ copies \in [Clients -> Nat]
  /\ conns \in SUBSET Clients /\ orphans \in SUBSET Clients
  /\ spare \in Nat /\ temp \in Nat
  /\ cl \in [Clients -> {"start", "connected", "wait"} \union ClientEnds]
  /\ wire \in [Clients -> Replies]
  /\ seen \in [Clients -> {"none"} \union Levels]
  /\ execs \in [Clients -> Nat]
  /\ command \in [Clients -> {"none", "running", "ok", "bad"}]
  /\ fails \in Nat /\ crashes \in Nat /\ boots \in Nat

(* A command is started at most once, and in datagram mode at most once    *)
(* for each copy of the request that arrives, whatever fails afterwards    *)
(* (server1.c:109, myRPC-server.c:75, :183, rpc_server.c:54: no error path *)
(* starts over, and nothing tells a second copy from a new request).       *)
AtMostOnce ==
  \A c \in Clients : execs[c] <= IF mode = "stream" THEN 1 ELSE MaxCopies

(* Unlike the other servers the quoted one never runs the first part of a  *)
(* command whose rest was still to come, unless a quote in the command is  *)
(* taken for its end (myRPC-server.c:197-203).                             *)
NeverInPart ==
  version = "quoted" =>
    \A c \in Clients : execs[c] > 0 /\ c \notin quotes => seen[c] = "whole"

(* Code 0 is never sent for a failure: what the server took for the        *)
(* command ran to its end, with exit status 0 if the server is the quoted  *)
(* one; and that was the client's whole command, but for a quote in it     *)
(* there and for a request cut short with the daemon (myRPC-server.c:116,  *)
(* rpc_server.c:103).                                                      *)
CodeZeroMeansDone ==
  \A c \in Clients : wire[c].code = "0" =>
    IF version = "quoted"
    THEN command[c] = "ok" /\ (c \in quotes \/ Takes(c) = "whole")
    ELSE command[c] \in {"ok", "bad"} /\ seen[c] \in {"cut", "whole"}

(* A user of the users file who is told that he is not has met a failure,  *)
(* or a shortage of descriptors: the only one is taken by his connection,  *)
(* or server1 has forgotten some (myRPC-server.c:48-52, server1.c:119).    *)
RefusalExplained ==
  \A c \in Allowed : wire[c].kind = "denied" =>
    \/ fails > 0 \/ limit = 1
    \/ version = "server1" /\ \E d \in Clients : seen[d] \in {"empty", "broken"}

(* A connection is open while its request is handled, or its command has   *)
(* it; server1 alone leaves others open, those of the requests it found    *)
(* empty or without a command (server1.c:111, :119).                       *)
ConnsAccounted ==
  \A c \in conns :
    \/ c = peer \/ c \in orphans
    \/ version = "server1" /\ seen[c] \in {"empty", "broken"}

(* Between requests /tmp holds at most the two files of each failure and   *)
(* each crash, and at most two descriptors of each failure are lost        *)
(* (myRPC-server.c:83, :130, rpc_server.c:61, :69, :91, :107).             *)
LeaksBounded ==
  Idle => temp <= 2 * (fails + crashes) /\ spare <= 2 * fails

(* However many descriptors are lost to temporary files, the last one is   *)
(* not: they are made while a connection is open, so a server in stream    *)
(* mode can still accept (myRPC-server.c:80-86, rpc_server.c:58-64).       *)
AcceptStaysPossible ==
  mode = "stream" /\ version # "server1" => spare < limit

Service == INSTANCE RpcService WITH
  ran <- {c \in Clients : execs[c] > 0},
  answer <- [c \in Clients |->
               IF wire[c].kind = "none" THEN [kind |-> "none", of |-> {}]
               ELSE [kind |-> wire[c].kind,
                     of |-> IF execs[c] > 0 /\ wire[c].kind = "output" THEN {c} ELSE {}]],
  outcome <- [c \in Clients |-> CASE cl[c] \notin ClientEnds -> "waiting"
                                  [] cl[c] = "answered" -> wire[c].kind
                                  [] OTHER -> "unanswered"]

(* In stream mode all three servers keep the safe half of what RpcService  *)
(* promises.  With datagrams a second copy is answered again.              *)
ImplementsService ==
  Service!Init /\ [][mode = "stream" => Service!Next]_Service!vars

(* In stream mode a client that has sent its request ends, except one that *)
(* server1 has forgotten, or that waits behind as many forgotten ones as   *)
(* there are descriptors.                                                  *)
Forgotten == {c \in conns : seen[c] \in {"empty", "broken"} /\ c # peer}
ClientsEnd ==
  \A c \in Clients :
    mode = "stream" /\ cl[c] = "wait" ~>
      \/ cl[c] \in ClientEnds
      \/ version = "server1" /\ (c \in Forgotten \/ Cardinality(Forgotten) >= limit)
=============================================================================
