------------------------------ MODULE Handler ------------------------------
(***************************************************************************)
(* The transport-independent half of 025final/myrpc-server/src/server.c:   *)
(* the loop test, user_allowed, execute_command, the reading and removal   *)
(* of the output file, and the signal handler.  main() repeats this code   *)
(* once in its stream branch and once in its datagram branch; StreamRpc    *)
(* and DgramRpc extend this module and add their sockets.                  *)
(*                                                                         *)
(* The server is one sequential process; `pc' names the system call or     *)
(* block it is about to execute.  One action is one stretch of code        *)
(* between two points where another process can be noticed: the users      *)
(* file, the output file in /tmp, a signal.                                *)
(*                                                                         *)
(* Both mkstemp calls fail with EINVAL, because the template does not end  *)
(* in XXXXXX, and leave the template alone.  The output file therefore     *)
(* has the same name for every request and every server process, and is    *)
(* created by the shell's redirection, not by the server.                  *)
(***************************************************************************)
EXTENDS Integers

CONSTANTS
  Clients,    \* client processes; each sends one request and exits
  Names,      \* the strings that can be read as a user name
  UserOf,     \* [Clients -> Names]: pw_name of the user running the client
  CutNames,   \* [Names -> SUBSET Names]: what a cut-off name can read as
  ShellFate,  \* [Clients -> Fates]: what sh does with the client's command
  Lingers,    \* clients whose commands may leave a process behind ("x &")
  MaxBoots,   \* bound: how often the server is started
  None        \* no client, no name

Fates == {"captured", "uncaptured", "refused"}

ASSUME HandlerAssumption ==
  /\ UserOf \in [Clients -> Names]
  /\ CutNames \in [Names -> SUBSET Names]
  /\ ShellFate \in [Clients -> Fates]
  /\ Lingers \in SUBSET Clients
  /\ MaxBoots \in Nat
  /\ None \notin Clients
  /\ None \notin Names

VARIABLES
  pc,         \* where main() is
  stop,       \* volatile sig_atomic_t stop
  peer,       \* the client being served (connfd / cliaddr)
  req,        \* what strtok made of `buffer'
  resp,       \* `response'
  user_conf,  \* the user parse_config reads from user.conf, now
  outfile,    \* whose bytes /tmp/myRPC_XXXXXX.stdout holds; {}: no such file
  jobs,       \* commands with a live process that no server waits for
  writers,    \* those of them that have the output file open
  boots,      \* starts so far (bounds the model)
  crashed,    \* history: the server process has died without running its end
  execs,      \* history: times a command of each client was started
  okNames,    \* history: users in force since the request in hand was read,
              \* until its command has ended
  late        \* history: requests taken up after `stop' was set

reqVars == <<peer, req, resp>>
jobVars == <<outfile, jobs, writers>>
histVars == <<boots, crashed, execs, okNames, late>>
srvVars == <<pc, stop, reqVars, user_conf, jobVars, histVars>>

-----------------------------------------------------------------------------
(* How much of "user: command" a request holds.  A byte stream may end a   *)
(* read anywhere; a datagram is always Whole.                              *)
NoBytes == 0
NameOnly == 1     \* no command text: strtok(NULL, "") is NULL or blank
CommandCut == 2   \* the whole name and a proper prefix of the command
Whole == 3
Levels == NoBytes .. Whole

NoReq == [name |-> None, level |-> NoBytes]
Requests == [name : Names \union {None}, level : Levels]

(* An answer: what kind it is and, for command output, the clients whose   *)
(* commands wrote the bytes in it.  "empty": strlen(response) is 0.        *)
Kinds == {"none", "denied", "readerr", "empty", "output"}
Reply(kind, of) == [kind |-> kind, of |-> of]
NoReply == Reply("none", {})
Replies == [kind : Kinds, of : SUBSET Clients]
HasBytes(r) == r.kind \in {"denied", "readerr", "output"}

Labels == {"off", "check", "accept", "recvfrom", "recv", "auth", "exec", "running",
           "read", "send", "close", "shutdown"}

(* The iteration is over or has not begun: no request is in hand.          *)
Idle == pc \in {"off", "check", "accept", "recvfrom", "shutdown"}

HandlerInit ==
  /\ pc = "off" /\ stop = FALSE
  /\ peer = None /\ req = NoReq /\ resp = NoReply
  /\ user_conf \in Names
  /\ outfile = {} /\ jobs = {} /\ writers = {}
  /\ boots = 0 /\ crashed = FALSE
  /\ execs = [c \in Clients |-> 0]
  /\ okNames = {} /\ late = 0

-----------------------------------------------------------------------------
(* Slips the definitions below could contain (see the mutation table of    *)
(* PROJECT.json); nothing else uses them.                                  *)
user_allowed_Prefix(name) == name = user_conf \/ name \in CutNames[user_conf]

Check_Ignores(first) ==     \* the flag is not tested
  /\ pc = "check" /\ pc' = first
  /\ UNCHANGED <<stop, reqVars, user_conf, jobVars, histVars>>

Auth_NoReply ==             \* a refusal is not sent
  /\ pc = "auth"
  /\ pc' = IF req.name = user_conf THEN "exec" ELSE "close"
  /\ UNCHANGED <<stop, reqVars, user_conf, jobVars, histVars>>

ReadOutput_NoRemove ==      \* the files are not removed
  /\ pc = "read" /\ pc' = "send"
  /\ resp' = IF outfile = {} THEN Reply("readerr", {}) ELSE Reply("output", outfile)
  /\ UNCHANGED <<stop, peer, req, user_conf, jobVars, histVars>>

ReadOutput_Retry ==         \* a missing file makes the command run again
  /\ pc = "read"
  /\ pc' = IF outfile = {} THEN "exec" ELSE "send"
  /\ resp' = IF outfile = {} THEN resp ELSE Reply("output", outfile)
  /\ outfile' = {} /\ writers' = {}
  /\ UNCHANGED <<stop, peer, req, user_conf, jobs, histVars>>

ReadOutput_Recheck ==       \* the user is checked once more, afterwards
  /\ pc = "read" /\ pc' = "send"
  /\ resp' = IF req.name # user_conf THEN Reply("denied", {})
             ELSE Reply("output", outfile)
  /\ outfile' = {} /\ writers' = {}
  /\ UNCHANGED <<stop, peer, req, user_conf, jobs, histVars>>

JobEnds_KeepsFile(c) ==     \* a process that ends leaves the file open
  /\ c \in jobs
  /\ jobs' = jobs \ {c}
  /\ UNCHANGED <<pc, stop, reqVars, user_conf, outfile, writers, histVars>>

-----------------------------------------------------------------------------
(* user_allowed: user.conf is parsed again for every request, and the name *)
(* is compared with the one user that parse_config returns.                *)
user_allowed(name) == name = user_conf

(* What may come of handing text of this length to system().  A cut        *)
(* command may be a syntax error, or may end before the redirection's      *)
(* operand is meant to; without a command the text is "(null)" or blank,   *)
(* which sh accepts.  "uncaptured": it runs, but the redirection is lost   *)
(* (snprintf truncates it, or a `#' comments it out).                      *)
FatesOf(c, level) ==
  CASE level = Whole      -> {ShellFate[c]}
    [] level = CommandCut -> Fates
    [] OTHER              -> {"captured"}

(* The parsed request, at the moment recv returns it.                      *)
Parsed(name, level) ==
  /\ req' = [name |-> name, level |-> level]
  /\ okNames' = {user_conf}
  /\ pc' = "auth"

(* One more request is taken up; counted once `stop' has been set.         *)
TakesUp == late' = IF stop THEN late + 1 ELSE late

(* A new process: `stop' is zero-initialised, the sockets are set up.      *)
Boot ==
  /\ pc = "off"
  /\ boots < MaxBoots
  /\ pc' = "check" /\ stop' = FALSE
  /\ boots' = boots + 1 /\ late' = 0
  /\ UNCHANGED <<reqVars, user_conf, jobVars, crashed, execs, okNames>>

(* while (!stop).                                                          *)
Check(first) ==
  /\ pc = "check"
  /\ pc' = IF stop THEN "shutdown" ELSE first
  /\ UNCHANGED <<stop, reqVars, user_conf, jobVars, histVars>>

(* if (user_allowed(username)) ... else the refusal is put in `response'.  *)
Auth ==
  /\ pc = "auth"
  /\ \/ /\ user_allowed(req.name)
        /\ pc' = "exec"
        /\ UNCHANGED resp
     \/ /\ ~user_allowed(req.name)
        /\ pc' = "send"
        /\ resp' = Reply("denied", {})
  /\ UNCHANGED <<stop, peer, req, user_conf, jobVars, histVars>>

(* mkstemp twice (both fail), then execute_command up to the point where   *)
(* system() has forked and sh has opened, and truncated, the output file.  *)
Exec ==
  /\ pc = "exec"
  /\ pc' = "running"
  /\ \E fate \in FatesOf(peer, req.level) :
       /\ outfile' = IF fate = "captured" THEN {peer} ELSE outfile
       /\ execs' = IF fate = "refused" THEN execs
                   ELSE [execs EXCEPT ![peer] = @ + 1]
  /\ UNCHANGED <<stop, reqVars, user_conf, jobs, writers, boots, crashed, okNames, late>>

(* The command goes on without a server that waits for it.  Its process    *)
(* inherited the output file and both sockets: nothing is close-on-exec.   *)
LeftRunning ==
  /\ jobs' = jobs \union {peer}
  /\ writers' = writers \union ({peer} \intersect outfile)

(* The shell ends and system() returns; the command may have left a        *)
(* process behind, and so may the first half of a command that was cut     *)
(* ("a &" of "a && b").                                                    *)
CommandEnds ==
  /\ pc = "running"
  /\ pc' = "read"
  /\ \/ UNCHANGED <<jobs, writers>>
     \/ /\ execs[peer] > 0
        /\ peer \in Lingers \/ req.level = CommandCut
        /\ LeftRunning
  /\ okNames' = {}
  /\ UNCHANGED <<stop, reqVars, user_conf, outfile, boots, crashed, execs, late>>

(* fopen, fread into `response', then both files are removed; a process    *)
(* that is left behind keeps writing to a file without a name.             *)
ReadOutput ==
  /\ pc = "read"
  /\ pc' = "send"
  /\ \/ /\ outfile = {}
        /\ resp' = Reply("readerr", {})
     \/ /\ outfile # {}
        /\ resp' \in {Reply("output", outfile), Reply("empty", {})}
  /\ outfile' = {} /\ writers' = {}
  /\ UNCHANGED <<stop, peer, req, user_conf, jobs, histVars>>

HandlerStep == Auth \/ Exec \/ CommandEnds \/ ReadOutput

(* The end of the loop body: its locals die.                               *)
NoRequest ==
  /\ peer' = None /\ req' = NoReq /\ resp' = NoReply
  /\ okNames' = {}

EndIteration ==
  /\ pc' = "check"
  /\ NoRequest

(* handle_signal.  system() ignores SIGINT while the command runs, so a    *)
(* SIGINT that arrives then never reaches the handler.                     *)
handle_signal(sig) ==
  /\ pc # "off" /\ ~stop
  /\ sig = "SIGINT" => pc # "running"
  /\ stop' = TRUE
  /\ UNCHANGED <<pc, reqVars, user_conf, jobVars, histVars>>

(* The process is gone, by exit or by a crash (the caller says which in    *)
(* crashed'); the file system stays, and a command that was running runs   *)
(* on.                                                                     *)
ProcessGone ==
  /\ pc' = "off" /\ stop' = FALSE
  /\ NoRequest
  /\ IF pc = "running" /\ execs[peer] > 0
     THEN LeftRunning
     ELSE UNCHANGED <<jobs, writers>>
  /\ UNCHANGED <<user_conf, outfile, boots, execs, late>>

(* The administrator rewrites user.conf.                                   *)
EditUsers ==
  /\ \E n \in Names \ {user_conf} :
       /\ user_conf' = n
       /\ okNames' = IF okNames = {} THEN {} ELSE okNames \union {n}
  /\ UNCHANGED <<pc, stop, reqVars, jobVars, boots, crashed, execs, late>>

(* A process left behind writes to the output file, or ends.               *)
JobWrites ==
  /\ \E c \in writers : outfile' = outfile \union {c}
  /\ UNCHANGED <<pc, stop, reqVars, user_conf, jobs, writers, histVars>>

JobEnds(c) ==
  /\ c \in jobs
  /\ jobs' = jobs \ {c} /\ writers' = writers \ {c}
  /\ UNCHANGED <<pc, stop, reqVars, user_conf, outfile, histVars>>

HandlerEnv ==
  \/ \E sig \in {"SIGINT", "SIGTERM"} : handle_signal(sig)
  \/ EditUsers
  \/ JobWrites

-----------------------------------------------------------------------------
HandlerTypeOK ==
  /\ pc \in Labels /\ stop \in BOOLEAN
  /\ peer \in IF Idle THEN {None} ELSE Clients
  /\ req \in Requests /\ resp \in Replies
  /\ user_conf \in Names
  /\ outfile \in SUBSET Clients
  /\ jobs \in SUBSET Clients /\ writers \in SUBSET jobs
  /\ boots \in Nat /\ crashed \in BOOLEAN
  /\ execs \in [Clients -> Nat]
  /\ okNames \in SUBSET Names /\ late \in Nat

(* A command that still has text to run runs only under the name of a user *)
(* that user.conf allowed at some time since the request was received; a   *)
(* read that was cut off may shorten the name, but then no command is left *)
(* (server.c:153).                                                         *)
AllowedOnly ==
  pc = "running" /\ req.level >= CommandCut => UserOf[peer] \in okNames

(* Between requests no output file lies in /tmp, until the first crash     *)
(* (server.c:177-179).                                                     *)
TmpCleanUntilCrash == ~crashed /\ Idle => outfile = {}

(* Once the flag is set at most one more request is taken up               *)
(* (server.c:118).                                                         *)
LateAtMostOne == late <= 1
=============================================================================
