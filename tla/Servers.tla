------------------------------ MODULE Servers -------------------------------
(***************************************************************************)
(* Several servers of 025final on one machine: main() of server.c from its *)
(* start to its end, with what such processes share: the port, the log     *)
(* file, and the output file in /tmp, whose name is the same for all.  The *)
(* main() of thirdlect/myRPC-server is the same text, 20 lines further     *)
(* down (21 from the loop on): any mix of the two is covered.              *)
(*                                                                         *)
(* The configuration file can be edited between two starts, so each server *)
(* has its socket_type; all have the same port.  Servers crash, and leave  *)
(* the command they wait for behind; commands leave processes in the       *)
(* background.  Both have the server's socket open.  Requests are handled  *)
(* as in Handler, reduced to what touches the output file; the lines a     *)
(* request puts in the log and refused requests are left out.  A server    *)
(* that ended or crashed is not started again: another one of Procs is.    *)
(***************************************************************************)
EXTENDS SysLog

CONSTANTS
  Requests,  \* requests of allowed users; one can come again when answered
  Modes,     \* what the configuration can make of the servers' socket types
  MaxSpins,  \* bound: lines "Accept failed" of one server in the log
  None       \* no request

Starting == "Server starting..."
NoSocket == "Socket creation failed"
NoOption == "setsockopt failed"
NoBind == "Bind failed"
Listens == "Server listening"
NoAccept == "Accept failed"
Stopped == "Server stopped"

ASSUME ServersAssumption ==
  /\ Msgs = {Starting, NoSocket, NoOption, NoBind, Listens, NoAccept, Stopped}
  /\ Modes \subseteq [Procs -> {"stream", "dgram"}]
  /\ None \notin Requests /\ MaxSpins \in Nat

VARIABLES
  mode,     \* socket_type of each server
  pc,       \* where its main() is; a log call comes first
  stop,     \* those whose `stop' is set
  sock,     \* state of sockfd
  jobs,     \* commands nobody waits for: whose socket they have, whose request
  hand,     \* the request being handled
  outfile,  \* whose bytes the output file holds, or NoFile
  writers,  \* requests whose command has the file open
  captured, \* servers whose command has had its output redirected
  out,      \* what each server has read of the file
  won,      \* history: servers that have listened for connections
  left,     \* history: requests in hand in a crash since the file was removed
  with      \* history: what others have handled during the request in hand

NoFile == {None}
fileVars == <<hand, outfile, writers, captured, out, left, with>>
vars == <<logVars, mode, pc, stop, sock, jobs, won, fileVars>>

Labels == {"off", "socket", "bind", "listen", "loop", "accept", "exec", "run",
           "read", "remove", "end", "dead"}
Gone == {"end", "dead"}

Init ==
  /\ SysLogInit
  /\ mode \in Modes
  /\ pc = [p \in Procs |-> "off"] /\ stop = {}
  /\ sock = [p \in Procs |-> "none"]
  /\ jobs = {} /\ hand = [p \in Procs |-> None]
  /\ outfile = NoFile /\ writers = {} /\ captured = {} /\ won = {} /\ left = {}
  /\ out = [p \in Procs |-> NoFile]
  /\ with = [p \in Procs |-> {}]

-----------------------------------------------------------------------------
Goto(p, label) == pc' = [pc EXCEPT ![p] = label]
Socket(p, state) == sock' = [sock EXCEPT ![p] = state]
At(p, label) == pc[p] = label /\ Returned(p)
Silent == UNCHANGED logVars

(* The process of p is gone: the socket is, unless a command still has it. *)
Inherited(p, J) == \E r \in Requests : <<p, r>> \in J
Closes(p, J) == Socket(p, IF Inherited(p, J) THEN sock[p] ELSE "none")

(* The handlers are installed before the first log call.                   *)
Start(p) ==
  /\ At(p, "off") /\ Goto(p, "socket")
  /\ mysyslog(p, Starting)
  /\ UNCHANGED <<mode, stop, sock, jobs, won, fileVars>>

(* socket and setsockopt.                                                  *)
Prepare(p) ==
  /\ At(p, "socket")
  /\ \/ Goto(p, "bind") /\ Socket(p, "open") /\ Silent
     \/ Goto(p, "end") /\ UNCHANGED sock /\ \E e \in {NoSocket, NoOption} : mysyslog(p, e)
  /\ UNCHANGED <<mode, stop, jobs, won, fileVars>>

(* With SO_REUSEADDR only a listening socket is in the way, and nothing is *)
(* in the way of a datagram socket.                                        *)
PortTaken(p) == mode[p] = "stream" /\ \E q \in Procs \ {p} : sock[q] = "listening"

(* A slip: the result is not looked at.                                    *)
Bind_Unchecked(p) ==
  /\ At(p, "bind") /\ Goto(p, "listen") /\ Silent
  /\ IF PortTaken(p) THEN UNCHANGED sock ELSE Socket(p, "bound")
  /\ UNCHANGED <<mode, stop, jobs, won, fileVars>>

Bind(p) ==
  /\ At(p, "bind")
  /\ IF PortTaken(p)
     THEN Goto(p, "end") /\ Socket(p, "none") /\ mysyslog(p, NoBind)
     ELSE Goto(p, "listen") /\ Socket(p, "bound") /\ Silent
  /\ UNCHANGED <<mode, stop, jobs, won, fileVars>>

(* A slip: listen is not called.                                           *)
Listen_Forgotten(p) ==
  /\ At(p, "listen") /\ Goto(p, "loop") /\ mysyslog(p, Listens)
  /\ UNCHANGED <<mode, stop, sock, jobs, won, fileVars>>

(* listen fails if another server listens by now; the line is logged all   *)
(* the same.                                                               *)
Listen(p) ==
  /\ At(p, "listen") /\ Goto(p, "loop") /\ mysyslog(p, Listens)
  /\ IF mode[p] = "dgram" \/ PortTaken(p) THEN UNCHANGED <<sock, won>>
     ELSE Socket(p, "listening") /\ won' = won \union {p}
  /\ UNCHANGED <<mode, stop, jobs, fileVars>>

(* A slip: the end is not logged.                                          *)
Loop_Silent(p) ==
  /\ At(p, "loop") /\ Silent
  /\ IF p \in stop THEN Goto(p, "end") /\ Closes(p, jobs)
     ELSE Goto(p, "accept") /\ UNCHANGED sock
  /\ UNCHANGED <<mode, stop, jobs, won, fileVars>>

(* The loop test, and the end of main().                                   *)
Loop(p) ==
  /\ At(p, "loop")
  /\ IF p \in stop
     THEN Goto(p, "end") /\ Closes(p, jobs) /\ mysyslog(p, Stopped)
     ELSE Goto(p, "accept") /\ UNCHANGED sock /\ Silent
  /\ UNCHANGED <<mode, stop, jobs, won, fileVars>>

Works(p) == sock[p] = IF mode[p] = "stream" THEN "listening" ELSE "bound"
Spins(p) == Cardinality({i \in DOMAIN log : log[i].by = p /\ log[i].msg = NoAccept})

(* A slip: accept is tried again at once.                                  *)
AcceptFails_Retries(p) ==
  /\ At(p, "accept")
  /\ IF mode[p] = "stream" /\ Spins(p) < MaxSpins THEN mysyslog(p, NoAccept) ELSE Silent
  /\ UNCHANGED <<mode, pc, stop, sock, jobs, won, fileVars>>

(* accept fails, always on a socket that does not listen, and now and then *)
(* on one that does; recvfrom does, of which nothing is logged.            *)
AcceptFails(p) ==
  /\ At(p, "accept") /\ Goto(p, "loop")
  /\ IF mode[p] = "stream" /\ Spins(p) < MaxSpins THEN mysyslog(p, NoAccept) ELSE Silent
  /\ UNCHANGED <<mode, stop, sock, jobs, won, fileVars>>

InHand(P) == {hand[q] : q \in P} \ {None}

(* A request arrives and its user is found allowed; one that comes again   *)
(* when nothing is left of the first stands for a new one.                 *)
Take(p, r) ==
  /\ At(p, "accept") /\ Works(p) /\ Goto(p, "exec")
  /\ r \notin InHand(Procs) /\ \A q \in Procs : <<q, r>> \notin jobs
  /\ hand' = [hand EXCEPT ![p] = r]
  /\ with' = [q \in Procs |-> CASE q = p -> InHand(Procs) \union left
                                [] q # p /\ hand[q] # None -> with[q] \union {r}
                                [] OTHER -> with[q]]
  /\ Silent /\ UNCHANGED <<mode, stop, sock, jobs, won, outfile, writers, captured, out, left>>

(* sh empties or creates the file, unless the redirection is lost.         *)
Exec(p) ==
  /\ At(p, "exec") /\ Goto(p, "run")
  /\ \/ /\ outfile' = {hand[p]}
        /\ writers' = writers \union {hand[p]} /\ captured' = captured \union {p}
     \/ UNCHANGED <<outfile, writers, captured>>
  /\ Silent /\ UNCHANGED <<mode, stop, sock, jobs, won, hand, out, left, with>>

(* A command writes more; also one that nobody waits for.                  *)
Writes(r) ==
  /\ r \in writers
  /\ outfile' = outfile \union {r}
  /\ Silent
  /\ UNCHANGED <<mode, pc, stop, sock, jobs, won, hand, writers, captured, out, left, with>>

(* system returns: the command is done, or stays in the background.        *)
CommandEnds(p) ==
  /\ At(p, "run") /\ Goto(p, "read")
  /\ \/ writers' = writers \ {hand[p]} /\ UNCHANGED jobs
     \/ jobs' = jobs \union {<<p, hand[p]>>} /\ UNCHANGED writers
  /\ Silent /\ UNCHANGED <<mode, stop, sock, won, hand, outfile, captured, out, left, with>>

(* A command that nobody waits for ends, and closes what it has open.      *)
JobEnds(p, r) ==
  /\ <<p, r>> \in jobs
  /\ jobs' = jobs \ {<<p, r>>} /\ writers' = writers \ {r}
  /\ IF pc[p] \in Gone THEN Closes(p, jobs') ELSE UNCHANGED sock
  /\ Silent /\ UNCHANGED <<mode, pc, stop, won, hand, outfile, captured, out, left, with>>

(* fopen and fread.                                                        *)
ReadOutput(p) ==
  /\ At(p, "read") /\ Goto(p, "remove")
  /\ out' = [out EXCEPT ![p] = outfile]
  /\ Silent
  /\ UNCHANGED <<mode, stop, sock, jobs, won, hand, outfile, writers, captured, left, with>>

HandsFree(p) ==
  /\ hand' = [hand EXCEPT ![p] = None] /\ out' = [out EXCEPT ![p] = NoFile]
  /\ captured' = captured \ {p} /\ with' = [with EXCEPT ![p] = {}]

(* A slip: the file is not removed.                                        *)
RemoveFiles_Skips(p) ==
  /\ At(p, "remove") /\ Goto(p, "loop") /\ HandsFree(p) /\ left' = {}
  /\ Silent /\ UNCHANGED <<mode, stop, sock, jobs, won, outfile, writers>>

(* After a log call: remove, and the reply.  Other commands that have the  *)
(* file open write on without it.                                          *)
RemoveFiles(p) ==
  /\ At(p, "remove") /\ Goto(p, "loop") /\ HandsFree(p) /\ left' = {}
  /\ outfile' = NoFile /\ writers' = {}
  /\ Silent /\ UNCHANGED <<mode, stop, sock, jobs, won>>

handle_signal(p) ==
  /\ pc[p] \notin {"off"} \union Gone /\ p \notin stop
  /\ stop' = stop \union {p}
  /\ Silent /\ UNCHANGED <<mode, pc, sock, jobs, won, fileVars>>

(* A call of mysyslog is broken off; the command in system() goes on.      *)
Crash(p) ==
  /\ pc[p] \notin {"off"} \union Gone /\ Goto(p, "dead")
  /\ Abort(p)
  /\ jobs' = IF pc[p] = "run" THEN jobs \union {<<p, hand[p]>>} ELSE jobs
  /\ Closes(p, jobs') /\ HandsFree(p)
  /\ left' = left \union ({hand[p]} \ {None})
  /\ UNCHANGED <<mode, stop, won, outfile, writers>>

(* A call of mysyslog goes on, or time does.                               *)
Logging(p) == LogStep(p) /\ UNCHANGED <<mode, pc, stop, sock, jobs, won, fileVars>>
Time == Tick /\ UNCHANGED <<mode, pc, stop, sock, jobs, won, fileVars>>

-----------------------------------------------------------------------------
(* A running process gets on; accept need not fail on a socket that works. *)
ServerStep(p) ==
  \/ Prepare(p) \/ Bind(p) \/ Listen(p) \/ Loop(p) \/ (~Works(p) /\ AcceptFails(p))
  \/ Exec(p) \/ CommandEnds(p) \/ ReadOutput(p) \/ RemoveFiles(p) \/ Logging(p)

Next ==
  \/ \E p \in Procs :
       \/ Start(p) \/ ServerStep(p) \/ AcceptFails(p) \/ handle_signal(p) \/ Crash(p)
       \/ \E r \in Requests : Take(p, r) \/ JobEnds(p, r)
  \/ \E r \in Requests : Writes(r)
  \/ Time

(* That a request arrives is not assumed.                                  *)
Fairness == \A p \in Procs : WF_vars(ServerStep(p))
Spec == Init /\ [][Next]_vars /\ Fairness

-----------------------------------------------------------------------------
(* A server past bind has its port, one that is gone leaves its socket     *)
(* only to commands, and a request is in hand exactly while the label says *)
(* so.                                                                     *)
TypeOK ==
  /\ SysLogTypeOK
  /\ mode \in Modes
  /\ pc \in [Procs -> Labels] /\ stop \in SUBSET Procs
  /\ sock \in [Procs -> {"none", "open", "bound", "listening"}]
  /\ jobs \in SUBSET (Procs \X Requests)
  /\ \A p \in Procs :
       CASE pc[p] \in {"off", "socket"} -> sock[p] = "none"
         [] pc[p] \in Gone -> sock[p] = "none" \/ Inherited(p, jobs)
         [] pc[p] = "bind" -> sock[p] = "open"
         [] OTHER -> sock[p] \in {"bound", "listening"}
  /\ hand \in [Procs -> Requests \union {None}]
  /\ \A p \in Procs : hand[p] # None <=> pc[p] \in {"exec", "run", "read", "remove"}
  /\ outfile \in {NoFile} \union SUBSET Requests
  /\ writers \in SUBSET Requests /\ captured \in SUBSET Procs /\ won \in SUBSET Procs
  /\ out \in [Procs -> {NoFile} \union SUBSET Requests]
  /\ left \in SUBSET Requests /\ with \in [Procs -> SUBSET Requests]

(* The lines of a server, by their numbers, and what they can say: that it *)
(* was started; that it gave up; that it listens, and fails to accept any  *)
(* number of times; that it was stopped.                                   *)
LinesOf(p) == {i \in DOMAIN log : log[i].by = p}
LastOf(i, ls) == i \in ls /\ \A j \in ls : j <= i

Started(ls) == \E a \in ls : ls = {a} /\ log[a].msg = Starting
GaveUp(ls) ==
  \E b \in ls : /\ LastOf(b, ls) /\ log[b].msg \in {NoSocket, NoOption, NoBind}
                /\ Started(ls \ {b})
Serves(ls) ==
  \E b \in ls : /\ log[b].msg = Listens
                /\ Started({i \in ls : i < b})
                /\ \A i \in ls : b < i => log[i].msg = NoAccept
Ended(ls) == \E c \in ls : LastOf(c, ls) /\ log[c].msg = Stopped /\ Serves(ls \ {c})

Story(p) ==
  CASE pc[p] = "off" -> LinesOf(p) = {}
    [] pc[p] \in {"socket", "bind", "listen"} -> Started(LinesOf(p))
    [] pc[p] = "end" -> GaveUp(LinesOf(p)) \/ Ended(LinesOf(p))
    [] pc[p] = "dead" -> Started(LinesOf(p)) \/ Serves(LinesOf(p))
    [] OTHER -> Serves(LinesOf(p))

(* Between two calls, the log of a server no line of which got lost tells  *)
(* how far it came and how it ended, whatever others write in between: who *)
(* gave up or was stopped has a last line that says so, who crashed has    *)
(* none, and `Accept failed' comes only after `Server listening'           *)
(* (server.c:68-127, :252).                                                *)
LogTellsStory == \A p \in Procs : Returned(p) /\ p \notin lost => Story(p)

(* A stream server that has come past listen and does not listen had to    *)
(* leave the port to another, which may be gone since: at least one of the *)
(* servers started at once gets to serve (server.c:102, :111).             *)
SpinnerHadWinner ==
  \A p \in Procs :
    pc[p] \in {"loop", "accept"} /\ ~Works(p) => \E q \in Procs \ {p} : q \in won

(* Two servers that work at once can spoil each other's answers through    *)
(* the output file, but only for requests handled at the same time, and a  *)
(* crash until the file is next removed: what a server has read is the     *)
(* output of nobody else, and with nobody else it is the request's own or, *)
(* if its command was not redirected, none (server.c:158-179).             *)
OverlapExplainsOutput ==
  \A p \in Procs : pc[p] = "remove" =>
    /\ out[p] \ NoFile \subseteq {hand[p]} \union with[p]
    /\ with[p] = {} => out[p] = IF p \in captured THEN {hand[p]} ELSE NoFile

(* A stop request is carried out unless the server crashes, or waits for a *)
(* request on a socket that works; one that spins ends (server.c:118,      *)
(* :125).                                                                  *)
StopOrBlocked ==
  \A p \in Procs : p \in stop ~> pc[p] \in Gone \/ (pc[p] = "accept" /\ Works(p))
=============================================================================
