# myRPC in TLA+

myRPC runs a shell command on another machine: a client sends `user: command`,
a server checks the user against `user.conf`, runs the command through the
shell and sends the output back. This directory holds TLA+ models of the
programs in all their generations, the TLC runs that check them on small
instances, and theorems proved with TLAPS for instances of any size.

## 1. Inventory

The repository keeps several generations of the same system. Paths are
relative to `src/`.

| part | files | state | operations |
|---|---|---|---|
| server (current) | `025final/myrpc-server/src/server.c` | `stop`, the listening or datagram socket, one connection, `buffer`, `response`, two files in `/tmp` | start-up, the loop in a stream and a datagram version, `user_allowed`, `execute_command`, `handle_signal`, shutdown |
| client (current) | `025final/myRPC-client/src/client.c` | one socket | connect, send, one receive, exit |
| configuration parser (current) | `025final/myrpc-server/src/config_parser.c` | a `Config` built line by line | `parse_config` for `myRPC.conf` (once) and `user.conf` (per request) |
| log library | `025final/libmysyslog/libmysyslog.c` | the log file, shared by all processes | `mysyslog` |
| early server and client | `server1.c`, `client1.c`, `config_parser1.c` beside the above | a list of at most 10 users, connections it has forgotten | the loop with two ways round `close`, commands that never run, a parser with a list of users |
| first server and client | `myRPC-server.c`, `myRPC-client.c`, `server_config.c`, `client_config.c` | configuration, one connection, two temporary files | `"user":"command"` protocol, fork and waitpid, exit status in the reply; two parsers with validators |
| daemon server | `myRPC/server/src/server.c`, `rpc_server.c` | `keep_running`, temporary files | daemonise, handle requests, code from stderr |
| lecture copies | `Кирилл/instance/thirdlect/...` | as above | see below |

Of the lecture copies, `myrpc-server`, `myRPC-client` and `libmysyslog` are the
files of `025final` again. `myRPC-server` has the `main()` of `025final` with
its own `user_allowed` (a file of names) and its own parser. `myrpc-server1`
holds a fourth parser, twice: its `server.c` is a copy of its
`config_parser.c`, so it has no server.

The daemon does not compile (a bracket is missing in `server.c:68`); it is
modelled as if the bracket were there.

How the parts interact. Client and server exchange one request and one reply
over a TCP connection or two datagrams. The server and the shell it starts
share the output file by name, and the shell inherits the server's sockets.
The administrator changes `user.conf` and sends signals while the server runs.
Servers and clients append to one log file. Servers started twice share the
port (`SO_REUSEADDR`), the log and the output file. The servers of all
generations read `/etc/myRPC/myRPC.conf`, each in a style of its own.

What is hard here, and hard to test (the full list, with lines, is `hazards`
in PROJECT.json):

- *Signals.* `signal()` restarts system calls, so a stop request is noticed
  only when `accept` or `recvfrom` returns for another reason. `system()`
  ignores SIGINT while it waits.
- *The output file.* The `mkstemp` templates do not end in `XXXXXX`, both calls
  fail unnoticed, and every request uses one file name that only the shell's
  redirection creates. What keeps answers apart is only that one server serves
  one request at a time and removes the file afterwards; a crash breaks that.
- *Streams.* One `recv` is taken for a request, one for a reply, and an end of
  file for a reply. A name or a command may be cut.
- *Descriptors.* Nothing is close-on-exec: a command left in the background
  holds the connection and the listening socket. `close(connfd)` then ends
  nothing, a stopped server still accepts connections, and a new server cannot
  bind.
- *Datagrams.* Lost, repeated and late datagrams; a client that waits without
  limit; a port that belongs to another client when the reply comes.
- *Permissions over time.* `user.conf` is read for each request and can change
  between the steps of one.
- *Two servers.* `bind` succeeds twice until one of them listens, and the
  result of `listen` is not looked at: the loser logs that it listens and spins.
  Servers that both work read and remove one output file, in two steps.
- *The log.* A line is stamped before it is written, and a line that cannot be
  written is lost silently.
- *Things that run out.* The earlier servers lose descriptors and files when
  something fails; server1 loses a connection for every malformed request.
- *Quotes.* The first client puts the command between quotes without escaping
  those in it, and the server ends it at the next quote.
- *Configuration.* Last line or whole list, blanks or none around `=`, overlong
  names, full arrays, loops that do not end.

What makes each part correct. A command is run at most once per delivered
request, only for a user allowed while the request was handled, and not after
a refusal; a client gets its own answer; a connection is closed on every path;
a stop request drains; every client of a stream server ends. The log tells what
its processes did. What goes wrong in one request does not stop the server from
taking the next. Nobody is allowed whom the configuration does not name.

## 2. Modules

| module | models |
|---|---|
| `Handler` | what the two branches of `main()` share: loop test, parsing, `user_allowed`, `execute_command`, the output file, the signal handler, the end of the process, what commands do that outlive it |
| `StreamRpc` (extends `Handler`) | the stream branch with TCP and the client in stream mode |
| `DgramRpc` (extends `Handler`) | the datagram branch with UDP and the client in datagram mode |
| `SysLog` | `mysyslog`, called by several processes |
| `Servers` (extends `SysLog`) | several servers from start to end on one port, with one log and one output file |
| `EarlyServers` | `server1.c`, `myRPC-server.c` and the daemon, with their clients |
| `ConfigParser` | all configuration parsers, reading one file |
| `RpcService` | the abstract specification of a call over a connection: what callers are promised |
| `DgramService` | the abstract specification of a call over datagrams |
| `MC...` | constants for TLC |
| `StreamRpcProofs`, `DgramRpcProofs`, `ServersProofs`, `EarlyServersProofs`, `ConfigParserProofs` | inductive invariants and theorems |
| `StreamRefinement`, `EarlyServersRefinement` | proofs that `StreamRpc` and `EarlyServers` implement `RpcService` |
| `DgramRefinement` | proof that `DgramRpc` implements `DgramService` |

### Handler

The server is one sequential process; `pc` names the system call or block it is
about to execute.

| `pc` | in server.c |
|---|---|
| `check` | `while (!stop)`, 118 |
| `accept`, `recv` | 124, 132 |
| `recvfrom` | 193 |
| `auth` | `user_allowed`, 153 / 213 |
| `exec`, `running` | `mkstemp`, `snprintf`, `system`, 157-163 |
| `read` | `fopen` to `remove`, 166-179 |
| `send`, `close` | 187, 188 / 246 |
| `shutdown` | 251 |
| `off` | no server process |

Stretches of code between two points where another process can be noticed are
one action. `req` is what `strtok` makes of the buffer: a name, and how much of
the request was read (`NameOnly`, `CommandCut`, `Whole`); what a cut name can
read as is the constant `CutNames`. `resp` is the answer with the set of
clients whose commands wrote the bytes in it; `outfile` is the same for the
file in `/tmp`. `jobs` are commands whose processes outlive the server's wait
(background, or the server died), `writers` those of them with the output file
open. `user_conf` is the name `parse_config` would return now. `execs`,
`okNames`, `late`, `crashed` and `boots` are history.

What the shell does with a whole command is the constant `ShellFate`: it runs
with its output captured, it runs without the redirection (cut off by
`snprintf`, or commented out), or it is refused (syntax error, no process). A
cut command may meet any of the three.

Definitions named `X_Something` are slips of the definition `X`; PROJECT.json
lists which property finds which. Nothing else uses them.

### StreamRpc

`queue` is the accept queue, which holds `Backlog + 1` connections. `conn` says
who holds the server's end of a connection: the queue, the server
(`accepted`), only a command (`held`), nobody (`closed`). `LetGo` is what the
kernel does when descriptors are closed, used by every action that closes some:
a connection ends when nobody holds it, with an end of file or, if request
bytes are unread or still come, perhaps with a reset; when nobody holds the
listening socket the queue is reset. `cl` is where each client is. A client that
is killed leaves its request behind.

`SendReply` and `CloseConn`, `Accept` and `Recv` are separate actions because
the client and the network act in between.

### DgramRpc

`reqs` holds the copies of a request that the network may still deliver, at
most `MaxCopies`, in any order; `Lose` removes one. A port is given to another
client as soon as its owner has ended. `recvfrom` in the client takes anything
that is sent to its port.

### SysLog and Servers

A process is in at most one call of `mysyslog`. `mysyslog(p, msg)` is `fopen`
and `time`; `WriteLine` is `fclose`, which writes the whole line, or `LosesLine`
takes place instead: the disk is full (`MaxLines`) or the file cannot be opened.
A crash breaks a call off (`Abort`). A line carries, beside its time, how many
lines there were when its call began.

`Servers` runs `main()` of any number of servers. `pc` names the next system
call; every action waits for the log call of the one before. The `main()` of
`thirdlect/myRPC-server` is the same text, so the mapping in PROJECT.json names
its lines, and any mix of the two programs is covered.

| `pc` | in thirdlect/myRPC-server/src/server.c |
|---|---|
| `off`, `end`, `dead` | not started; ended; crashed |
| `socket` | 90-111 |
| `bind`, `listen` | 113-127, 129-135 |
| `loop`, `accept` | 138, 144-150 / 214 |
| `exec`, `run` | 177-184 |
| `read`, `remove` | 186-189, 198-209 (the log call of 192 or 195 lies between) |

`sock` is the state of `sockfd`. Two sockets may be bound to the port as long as
none listens (`PortTaken`). `accept` fails always on a socket that does not
listen, and may fail on one that does (`AcceptFails`, twice in `Next`: only the
first kind is sure to happen); both are logged in the same words.

Requests are those of `Handler` reduced to what they do to the output file.
`outfile` is the set of requests whose bytes are in it, `writers` those whose
command has it open, `captured` the servers whose command has had its output
redirected, and `out` what a server has read. `jobs` are commands nobody waits
for, because they went into the background or their server crashed, with the
server whose socket they have open. `with` and `left` are history: which
requests were handled during the one in hand, and which were in hand in a crash
since the file was last removed.

### EarlyServers

A behaviour runs one of three servers (`version`) in one mode. They differ from
the current one in what they do when something is missing, so the model counts
descriptors (`limit`, `conns`, `spare`) and files (`temp`), and `mktemp`, `fork`,
`fopen` and `malloc` may fail.

| action | server1 | quoted (myRPC-server.c) | daemon |
|---|---|---|---|
| `Receive` of each | nothing read or no command: next round, connection kept open | not four quotes: error reply | no colon: error reply |
| `Auth` | "Access denied" | code 1 | code 1 |
| `AuthFails` | no users file: denied | likewise | likewise |
| then | `server1_Execute`: `mkstemp` on uninitialised templates fails, nothing is run | `MakeTemp`, `Fork`, `CommandEnds`; `quoted_ReadOutput` sends the output with the exit status as code, `RemoveFiles` comes after it | `MakeTemp`, `Fork`, `CommandEnds`; `daemon_ReadOutput` removes the files, then sends, with whether stderr is empty as code; or `ReadOutputFails` |
| reply to a datagram | to its sender | on a socket without a peer: lost | likewise |
| a signal | sets `stop` | ends the process: `Crash` | sets `keep_running` |

`copies` counts how often a datagram can still arrive; `Lose` takes one away.
`quotes` are the clients with a quote in their command: the quoted server takes
the text up to it for the command (`Takes`), and a request cut short behind it
has its four quotes all the same (`FourQuotes`). An empty reply cannot be seen
on a connection, but is a datagram like any other (`Sent`).

Facts about these programs that the definitions state and no property repeats:
server1 never runs a command; datagram clients of the other two never get a
reply; the daemon sends code 0 for a failed command that wrote nothing to
stderr; the quoted server runs the first part of a command with a quote in it,
and its code 0 then speaks of that part.

### ConfigParser

One action, `ReadLine(l)`, gives a line to eight parsers at once. A line is what
they tell apart: leading blanks, a comment sign, key, style of `=`, values,
blanks before commas, a comment behind. `cfg[p]` is the structure a program has
filled in so far and how its reading goes (`ok`, `crash`, `hang`, `overrun`).
The operators are named after the files; `Parse` says which program reads users
from the same file. Some of what came to light: `config_parser1.c` never comes
back from a list with commas unless two blanks precede each comma
(`CommaLoopSpins`); `thirdlect/myRPC-server` crashes on a key without value; the
`trim_whitespace` of `server_config.c` keeps the blank behind `=`, so that the
validators refuse the repository's own sample files (finding 6).

### RpcService

`Run`, `Answer`, `End` for each client: a command is started at most once and
before the answer, a refusal goes only to a client whose command was not
started, output consists of what started commands wrote, a client reports the
answer it was sent or none, and every client ends. The mapping is at the end of
`StreamRpc`: a client has `ran` when its command was started, its `answer` is
the reply if that has bytes (an empty one cannot be seen over TCP). The mapping
of `EarlyServers` is the same; there the contents of a reply are always those of
the client's own command, because the files have names of their own. It is
claimed of stream mode only: of a datagram that comes twice the second copy is
answered as well, which no service over a connection does.

### DgramService

The network takes away half of these promises: a command can run once for every
copy of its request, and a client can be sent an answer that is not its own
(finding 4). What is left is promised of each copy. It is taken up once, one at
a time; one that is taken up (`hand`, `stage`) is answered unless the server
crashes; the answer is a refusal exactly if the command was not handed to the
shell for this copy; output consists of what started commands wrote, until the
first crash of what the own command wrote; and what a client ends with was sent
and has not been lost. The mapping is at the end of `DgramRpc`: `hand` is `peer`,
`stage` follows from `pc` and `resp`, and an answer is a datagram without its
port.

## 3. Runs

| run | instance | result |
|---|---|---|
| `stream` | 2 clients, 1 start, backlog 1, a name that can be cut to another, a command that lingers; 199,524 states | all invariants hold, `ImplementsService` (the steps of `RpcService`), `ClientsEnd` (its liveness), `StopDrains` |
| `stream_stop` | as `stream`, one user | `StopEnds` is violated: finding 1 |
| `stream_output` | as `stream`, one user, 2 starts | `OwnOutput` is violated: finding 2 |
| `stream_received` | as `stream`, one user | `ReceivedMeansSent` is violated: finding 3 |
| `dgram` | 2 clients on one port, 2 copies, 1 start; 368,673 states | all invariants hold, `ImplementsService` (`DgramService`), `StopDrains`, `TakenUpIsAnswered` |
| `dgram_answer` | 2 clients, 2 ports, 1 copy, 1 start | `OwnAnswer` is violated: finding 4 |
| `servers_log` | 2 servers, both in stream, both in datagram or one in each mode, a log of 6 lines, no requests; 1,021,945 states | `LogTellsStory`, `DisorderIsOverlap` |
| `servers_output` | the same servers, 3 requests that can come again, nothing in the log; 392,445 states | all invariants hold, `StopOrBlocked` |
| `early_servers` | each of the 3 servers in 2 modes with 1 to 3 descriptors, 2 clients, one of them allowed and perhaps with a quote in its command, 2 copies, 2 starts, 1 failure; 841,761 states | all invariants hold, `ImplementsService` (safety), `ClientsEnd` |
| `config_parsers` | files of up to 3 lines of 32 kinds, 3 users in an array; 33,825 states | all invariants hold |
| `config_users` | as `config_parsers` | `ListedIsAllowed` is violated: finding 5 |
| `config_sample` | as `config_parsers` | `SampleIsAccepted` is violated: finding 6 |

Why these bounds are enough. The server holds one request at a time, so a
conflict needs two clients: one in hand and one waiting, or one served and one
whose answer is spoiled. With backlog 1 both wait in the queue. Two copies give
the duplicate; one port forces, two ports allow that a client is given a port
again. Two names suffice because `user_conf` holds one. Both kinds of `ShellFate`
that leave the file as it was occur: a whole command whose redirection is lost,
and a cut command that is refused.

The runs `stream` and `dgram` have one start, because with two the liveness
properties take TLC too long. What a second server could break is what
it finds: a connection, a socket, a file or a process of the first. These are
there for one server too (a process in the background, a crash), and the
theorems of section 4 prove every safety property and both refinements for any
number of starts. Only the liveness properties are thus checked for one start
alone. `stream_output`, which has two, shows that restarts matter: what it finds
takes a second server.

Of `servers_log`: six lines are what two servers write that start, listen and
stop (or fail to accept once, `MaxSpins`), so the disk is full, and lines are
lost, exactly in the longer histories, and in a crash. Two values of the clock
tell two calls apart.

Of `servers_output`: two servers suffice for one to lose the port and for two
commands to meet in one file, the one between reading and removing of the other.
The third request comes after a crash or beside a command that stayed in the
background; a request that comes again meets the leavings of the first time. The
log is a disk that is full from the start: it has a run of its own, and both
together are too many states.

Of `early_servers`: one descriptor is taken by the connection alone, with two
the second temporary file fails for lack of one, with three all goes well.
Connections that are forgotten and one failure then bring each server to its
limit. Two starts let a server meet the orphaned command of another. Two copies
are a duplicate. The client with the quote is the one that is allowed, since
only its command is run.

Of `config_parsers`: the kinds of line take every branch of every parser and
contain the repository's sample lines; the properties relate at most two lines
and a setting before or after them. The array of three is full after two lines.

`CHECK_DEADLOCK FALSE` is set because the system may stop: all clients have
ended and the server waits in `accept` or `recvfrom`, or is off for good; all
servers have ended and time has come to its bound; the file has been read.

Fairness. A server that can take a step takes one (one weak fairness condition:
the process is sequential). `accept` may fail for a while but not for ever, so
`Accept` is strongly fair. TCP delivers sent bytes, `connect` returns, commands
end; for a command that never ends no client behind it would be served, which
is how the server is written. Starts, crashes, signals, edits of `user.conf`
and killed clients are never assumed to happen. Of UDP nothing is assumed. In
`EarlyServers` likewise: the server, each client and each command it left behind
get on. In `Servers` each server gets on, with its log calls; that requests
arrive is not assumed, so `StopOrBlocked` allows a server to wait for one.

### Findings

1. A stop request that finds the server in `accept` does not end it until one
   more client connects (`signal` restarts `accept`); the comments at
   server.c:19 and 57 promise an orderly end.
2. After a crash a client can be sent the output of another client's command,
   because the "temporary files" of server.c:156 are one fixed name.
3. A client whose server died reports that the response was received
   (client.c:170).
4. A datagram client can be sent the answer to another client's request
   (server.c:245).
5. Of several `user` lines in `user.conf` only the last counts
   (config_parser.c:67), so of the two users in the repository's own file one
   is refused; server.c:27 speaks of a list of allowed users.
6. The validators refuse a socket type with a blank before it, which the parsers
   keep (server_config.c:9), and so the repository's own samples for these two
   programs (`Серверный конфиг`, line 5, `Клиентский конфиг`, line 6:
   `socket_type = stream`).

## 4. Proofs

All theorems hold for any values of the constants that satisfy the `ASSUME`s of
their module, which give types, and for `ConfigParser` also say which words end
and begin in which, and that cutting to 15 or 31 characters leaves `stream` and
`dgram` alone. There are no other assumptions.

| theorem | property |
|---|---|
| `StreamRpcProofs` `TypeCorrect` | `TypeOK` |
| `RunsOnce` | `AtMostOnce` |
| `RunsForAllowed` | `AllowedOnly` |
| `RefusedNotRun` | `DeniedNeverRan` |
| `OutputIsOwn` | `OwnOutputUntilCrash` |
| `NoFileLeft` | `TmpCleanUntilCrash` |
| `ConnectionsAccounted` | `NoConnLeak` |
| `OneLateRequest` | `LateAtMostOne` |
| `EofIsAnAnswer` | `EofIsEmptyUntilCrash` |
| `StreamRefinement` `Implements` | `ImplementsService` |
| `DgramRpcProofs` `TypeCorrect` | `TypeOK` |
| `RunsOncePerCopy` | `OncePerCopy` |
| `RunsForAllowed` | `AllowedOnly` |
| `OutputIsOwn`, `NoFileLeft` | `OwnOutputUntilCrash`, `TmpCleanUntilCrash` |
| `OneLateRequest` | `LateAtMostOne` |
| `DgramRefinement` `DgramImplements` | `ImplementsService` |
| `ServersProofs` `TypesKept` | `TypeOK` |
| `LogOrdered` | `DisorderIsOverlap` |
| `SpinnerLostToAnother` | `SpinnerHadWinner` |
| `OutputExplained` | `OverlapExplainsOutput` |
| `LogTold` | `LogTellsStory` |
| `EarlyServersProofs` `TypeCorrect` | `TypeOK` |
| `RunsOnce` | `AtMostOnce` |
| `NothingInPart` | `NeverInPart` |
| `CodeTellsTruth` | `CodeZeroMeansDone` |
| `RefusalsExplained` | `RefusalExplained` |
| `ConnectionsAccounted` | `ConnsAccounted` |
| `LeaksCounted`, `CanAccept` | `LeaksBounded`, `AcceptStaysPossible` |
| `EarlyServersRefinement` `EarlyImplements` | `ImplementsService` |
| `ConfigParserProofs` `ConfigTypes` | `TypeOK` |
| `ConfigNamed` | `OnlyNamed` |
| `ConfigNobodyLost` | `NobodyLost` |
| `ConfigSpaced` | no property of a run: the last `socket_type` line spaced means both validators refuse |
| `ConfigStyles` | `StylesAgree` |

Hardly any of these properties is inductive; each module's `IInv` is the
conjunction of parts by subject, and each part has a lemma with one step per
action.

*Stream.* `AtMostOnce` needs that the client in hand has had nothing run before
`exec`, which needs that a client in the queue has not, and that a client is in
the queue once and not also in hand: that is `ServeInv` on top of `HoldInv`.
`AllowedOnly` needs the name followed from `auth` on (`AllowInv`).
`OwnOutputUntilCrash` needs that the file is absent outside `running` and `read`
(`OutInv`). `EofIsEmptyUntilCrash` needs who holds a connection that has not
ended, and that a process left behind belongs to a started command (`EofInv`,
`RanInv`). `VisibleStep` reduces the properties about served clients to the three
kinds of step that concern them.

*Datagrams.* A command can run once for each copy of its request that arrives,
so `OncePerCopy` is strengthened to a balance: starts, copies on their way and
the copy in hand are together at most `MaxCopies` (`CopyInv`). It rests on the
finiteness of the set of copies.

The refinement to `DgramService` needs one invariant more, that what lies ready
at `sendto` is an answer and names other commands only if it is output
(`SendInv`); that the answer is the own one follows from `OutInv`, that its
authors have run from `RanInv`. `RecvFrom` maps to `Take`, `Exec` to `Run`,
`SendTo` to `Answer`, and each client's steps to `Ask`, `Report` and `GiveUp`.
Two datagrams that differ in their port are one answer, so losing one of them
can be no step of `DgramService` (`GivenLess`).

*Servers.* `DisorderIsOverlap` compares lines of the file; it needs the same of
the calls in progress (a call that was stamped before a line already in the
file had begun before that line was written). `SpinnerHadWinner` needs that a
server that listens has won, so that whoever took the port is among the winners
even when it is gone (`SpinInv`). `OverlapExplainsOutput` needs that what is in
the file, or is writing to it, belongs to a request in hand or to one that a
crash left (`FileInv`); that `with` is mutual, of two requests in hand each is in
the other's set, and contains what crashes have left; and that a request that
shared the file with nobody finds in it what its own command put there
(`AloneInv`). `left` cannot be dropped: a command that a crash has left writes on
into whatever file it has open until the file is removed.

`LogTellsStory` speaks of a server between two calls of `mysyslog`, and of all
its lines in the order of the file. During a call the line to come is in no
file yet, so the invariant also says of a call in progress that its line fits
the lines there are (`Coming`, `StoryInv`); a crash breaks the call off, and
the server is then one that lost a line, or it had none in progress. A step of
another server adds a line that is not among one's own (`SameLog`,
`StoryStays`); the end of a call adds the last (`LineAdded`, `StoryWritten`),
or the server is one that lost a line and of which nothing is claimed. `accept`
may fail anywhere in the loop, so `Accept failed` says nothing of whether
`listen` had succeeded, and the property does not claim that it does. The
property is stated with the numbers of the lines rather than with subsequences,
which keeps induction over data out of the proof.

*Earlier servers.* `AtMostOnce` needs two arguments. On a connection a client is
in the queue once and is served once (`QueueInv`); with datagrams starts, copies
on their way and the copy in hand are together at most `MaxCopies`, the balance
used for `DgramRpc` (`CopyInv`). `LeaksBounded` becomes inductive by adding the
two files of the command in hand, which are there until `RemoveFiles` although
the reply may have been sent (`SpareInv`). `AcceptStaysPossible` follows because
files are made while the connection is open, whose descriptor is one of `limit`.
`NeverInPart` and the second half of `CodeZeroMeansDone` say what has been read of
a request whose command runs (`PartInv`): with four quotes in it and none in the
command, all. The first half follows the command from `fork` to the reply
(`CommandInv`). `RefusalExplained` needs that a server that is short of a
descriptor at `auth` has met a failure, has one alone, or has forgotten a
connection (`RefusalInv`, with `HeldInv` for who holds them). The refinement, in
stream mode, needs in addition that nobody is answered twice (`AnswerInv`).

*Parsers.* `ParseLine` says of one line, for each parser, what it keeps and whom
it can add. `OnlyNamed` becomes inductive with the fact that `config_parser`
never fills the array and reads every file to its end (`NamedInv`), so that its
default is the only way to be allowed without a line. What a cut name reads as
(`Cut16`, `Cut32`) is any word.

Three more theorems about the parsers compare what has been read with what was
filled in, so each invariant carries the fact along the file line by line, and
its proof is one lemma about one line. `NobodyLost`: `InArray` says that the name
a line lists is in the array as long as the array has room, which survives
because `AddUsers` only appends (`AddUsersKeeps`). `ConfigSpaced`, the general
form of finding 6: `BlankKept` says that after a line with a spaced socket type
that is the last for its key, the type of both validated configurations begins
with a blank; `BlankLine` that no later unread line or line for another key
changes it. `StylesAgree`: `SameMeaning` adds that all readers of the style are
still reading, and `SettingLine` says what one line of the style means to any of
them.

In the refinements of streams and earlier servers initial states and steps map
to those of `RpcService`: the start of a command to `Run`, the sending of a
reply to `Answer` unless it is empty, the last step of a client to `End`,
everything else to no step.

Only model-checked is what rests on fairness: `StopDrains`, `TakenUpIsAnswered`,
`ClientsEnd` (of both modules that have one) and `StopOrBlocked`. Every invariant
and every safety property of a passing run is a theorem. `TmpCleanUntilCrash` and
`LateAtMostOne` are properties of `Handler`; TLC checks them with the streams, and
for datagrams they are proved only.

## 5. What is abstracted

- Contents of commands and replies, except whose output they are; lengths,
  except that a request or redirection can be cut.
- `user.conf` in `Handler`: the one name `parse_config` returns. What files give
  which name is the subject of `ConfigParser`.
- Lines of configuration are classes of lines; blank lines, lines longer than a
  buffer and files without a last newline are left out.
- A request that carries a second command or another user's name on purpose:
  clients are those of the repository. A quote in a command of the first client
  is in `EarlyServers`, since that client sends it.
- Log messages are names; levels and drivers, which only change the text of a
  line, are left out. In `Servers` the lines of requests are left out as well,
  so that the log stays short enough to check; that such a call takes place
  between reading and removing the output file is kept, as two steps.
- In `Servers` `fopen` and `fread` of the output file are one step: a command that
  writes between them is one that writes before.
- In `EarlyServers` which quote of a command is taken for its end, and what the
  part before it does: it is a part, and is handled like any command.
- Failures of `socket` and `setsockopt` end the current server at once; they are
  in `Servers` for what is logged of them.

## 6. Not modelled

- *The command lines of the clients.* `getopt` and its messages; the programs
  talk to nobody before they are parsed.
- *The terminator one byte past `response`* for output of 1024 bytes or more
  (server.c:169; likewise `buffer`, which client.c never fills). What that byte
  holds is the compiler's choice of stack layout, of which the source says
  nothing.
- *SIGINT during `system()`.* It is ignored while the command runs, while
  SIGTERM sets the flag. A signal that has no effect is a step not taken; that
  its sender is told nothing is in no claim of the repository.
- *A datagram client that waits for ever* for a lost reply: client.c sets no time
  limit. The models contain such clients; no property promises that they end.
- *Ports out of range or privileged*, addresses, and a failing `inet_pton`: each
  ends a program before it shares anything. What the parsers and validators make
  of numbers is in `ConfigParser`.
- *Makefiles, packages, objects and executables*: no behaviour of their own.
