---------------------------- MODULE ConfigParser ----------------------------
(***************************************************************************)
(* The configuration parsers of the repository, each named after its file  *)
(* or its program, reading one and the same file: fgets by fgets, one      *)
(* step of Next is the body of every parser's loop.  Reading one file with *)
(* all of them shows which files mean the same to whom.                    *)
(*                                                                         *)
(* A line is abstracted to what the parsers tell apart: blanks before the  *)
(* text, a comment sign in front, the word before `=', the style of the    *)
(* `=', the words after it with commas between them, a comment after them. *)
(* Files are text files whose lines fit into the buffers of the parsers    *)
(* and end in a newline; words have more than one character.  Blank lines, *)
(* which mean nothing to any of them, are left out.  A file that cannot be *)
(* opened reads as an empty one.                                           *)
(***************************************************************************)
EXTENDS Integers, Sequences, Functions

CONSTANTS
  Words,      \* the words a line can hold
  Number,     \* [Words -> Int]: what atoi makes of a word, 0 if no number
  Cut16,      \* [Words -> Words]: the word's first 15 characters
  Cut32,      \* [Words -> Words]: the word's first 31 characters
  PortLike,   \* the words that end in "port"
  StreamLike, \* the words that begin with "stream"
  DgramLike,  \* the words that begin with "dgram"
  Addresses,  \* the words that are IP addresses
  MaxUsers,   \* MAX_USERS
  Lines,      \* the lines files are made of
  MaxLines    \* bound: lines in a file

Keys == {"port", "socket_type", "user", "users", "max_connections", "log_path",
         "server_ip", "timeout_ms", "root", "stream", "dgram", "127.0.0.1"}

Line == [lead : BOOLEAN,     \* blanks before the text
         hash : BOOLEAN,     \* the text begins with `#'
         key  : Words,       \* its first word
         eq   : {"none", "tight", "spaced"},  \* k, k=v, k = v
         vals : Seq(Words),  \* the words after `='
         gap  : 0 .. 2,      \* blanks before each comma between them
         note : BOOLEAN]     \* a short comment after them

ASSUME ConfigAssumption ==
  /\ Keys \subseteq Words
  /\ Number \in [Words -> Int]
  /\ Cut16 \in [Words -> Words] /\ Cut32 \in [Words -> Words]
  /\ \A w \in {"stream", "dgram"} : Cut16[w] = w /\ Cut32[w] = w
  /\ PortLike \subseteq Words /\ "port" \in PortLike /\ "socket_type" \notin PortLike
  /\ StreamLike \subseteq Words /\ "stream" \in StreamLike /\ "dgram" \notin StreamLike
  /\ DgramLike \subseteq Words /\ "dgram" \in DgramLike
  /\ Addresses \subseteq Words
  /\ MaxUsers \in Nat \ {0} /\ MaxLines \in Nat
  /\ Lines \subseteq Line
  /\ \A l \in Lines :
       /\ l.eq = "none" => l.vals = <<>>
       /\ l.key \in PortLike /\ l.eq = "spaced" => l.vals # <<>>

(* A string that is kept: a blank at its edge or not, its words, and       *)
(* whether the comment behind them belongs to it.                          *)
Texts == [blank : BOOLEAN, words : Seq(Words), note : BOOLEAN]
Plain(w) == [blank |-> FALSE, words |-> <<w>>, note |-> FALSE]
Empty == [blank |-> FALSE, words |-> <<>>, note |-> FALSE]

(* What the parsers fill in, with the fields of all their structures; end  *)
(* is how reading goes: it can crash, never come back, or write past a     *)
(* field.                                                                  *)
Ends == {"ok", "crash", "hang", "overrun"}
Configs == [port : Int, type : Texts, user : Texts, users : Seq(Texts),
            limit : Int, place : Texts, end : Ends]

Ports == 1 .. 65535  \* what a configuration may ask for, where it is checked

Defaults(port, user, limit, place) ==
  [port |-> port, type |-> Plain("stream"), user |-> user, users |-> <<>>,
   limit |-> limit, place |-> place, end |-> "ok"]

-----------------------------------------------------------------------------
(* Slips the definitions below could contain (see the mutation table of    *)
(* PROJECT.json); nothing else uses them.                                  *)
Value_Untrimmed(l) ==       \* the blank behind `=' stays
  [blank |-> l.eq = "spaced", words |-> l.vals, note |-> l.note]

Items_First(t) == <<t>>     \* the list is not taken apart

AddUsers_NoBound(c, items) == [c EXCEPT !.users = @ \o items]

config_parser_Comments(c, l) ==  \* `#' is not looked for
  CASE l.key = "port" -> [c EXCEPT !.port = IF l.vals = <<>> THEN @ ELSE Number[l.vals[1]]]
    [] l.key = "user" -> [c EXCEPT !.user.words = l.vals]
    [] OTHER          -> c

-----------------------------------------------------------------------------
(* The value of a line with the blanks around it removed; strtok gives     *)
(* NULL for a value without a character.                                   *)
Value(l) == [blank |-> FALSE, words |-> l.vals, note |-> l.note]
HasValue(l) == l.eq # "none" /\ (l.vals # <<>> \/ l.note)

atoi(t) == IF t.words = <<>> THEN 0 ELSE Number[t.words[1]]

(* A string cut to the length of its field.                                *)
strncpy(t, cut) ==
  IF t.words # <<>> /\ cut[t.words[1]] # t.words[1]
  THEN [t EXCEPT !.words = <<cut[t.words[1]]>>, !.note = FALSE]
  ELSE t

(* strtok(value, ",") up to its end, each piece trimmed and cut.           *)
Items(t) ==
  IF t.words = <<>> THEN <<t>>
  ELSE [i \in 1 .. Len(t.words) |->
          strncpy([blank |-> FALSE, words |-> <<t.words[i]>>,
                   note |-> t.note /\ i = Len(t.words)], Cut32)]

(* Users are added until the array is full; the rest is dropped.           *)
AddUsers(c, items) ==
  LET n == Len(c.users) + Len(items)
  IN [c EXCEPT !.users = [i \in 1 .. (IF n < MaxUsers THEN n ELSE MaxUsers) |->
                            IF i <= Len(c.users) THEN c.users[i]
                            ELSE items[i - Len(c.users)]]]

-----------------------------------------------------------------------------
(* 025final/myrpc-server/src/config_parser.c                               *)
config_parser(c, l) ==
  IF l.hash \/ ~HasValue(l) THEN c
  ELSE CASE l.key = "port"        -> [c EXCEPT !.port = atoi(Value(l))]
         [] l.key = "socket_type" -> [c EXCEPT !.type = strncpy(Value(l), Cut32)]
         [] l.key = "user"        -> [c EXCEPT !.user = strncpy(Value(l), Cut32)]
         [] OTHER                 -> c

(* config_parser1.c removes one blank before each comma, whenever it       *)
(* trims.  Where there is none to remove strchr finds the same comma again *)
(* and again.  A comment is trimmed once, a value twice: with its line and *)
(* by itself.                                                              *)
CommaLoopSpins(l) ==
  Len(l.vals) > 1 /\ l.gap < (IF l.hash THEN 1 ELSE 2)

config_parser1(c, l) ==
  IF CommaLoopSpins(l) THEN [c EXCEPT !.end = "hang"]
  ELSE IF ~l.hash /\ l.key = "users" /\ HasValue(l) THEN AddUsers(c, Items(Value(l)))
  ELSE config_parser(c, l)

(* thirdlect/myRPC-server/src/config_parser.c: nothing is trimmed, so only *)
(* a key without blanks is recognised; strcpy into 16 characters; a key    *)
(* without a value hands NULL to atoi or strcpy.                           *)
lecture(c, l) ==
  LET bare == l.eq = "tight" \/ (l.eq = "none" /\ ~l.note)
      wide == l.vals # <<>> /\ Cut16[l.vals[1]] # l.vals[1]
  IN IF l.lead \/ l.hash \/ ~bare \/ l.key \notin {"port", "socket_type"} THEN c
     ELSE IF ~HasValue(l) THEN [c EXCEPT !.end = "crash"]
     ELSE IF l.key = "port" THEN [c EXCEPT !.port = atoi(Value(l))]
     ELSE [c EXCEPT !.type = Value(l), !.end = IF wide THEN "overrun" ELSE @]

(* thirdlect/myrpc-server1/src/config_parser.c: a line without a value,    *)
(* and the key of a line it does not know, are user names.                 *)
lecture1(c, l) ==
  LET rest == [blank |-> l.eq = "spaced", words |-> <<l.key>>,
               note |-> l.eq = "none" /\ l.note]
      add_user(t) == AddUsers(c, <<strncpy(t, Cut32)>>)
  IN IF l.hash THEN c
     ELSE IF ~HasValue(l) THEN add_user(rest)
     ELSE CASE l.key = "port"              -> [c EXCEPT !.port = atoi(Value(l))]
            [] l.key = "socket_type"       -> [c EXCEPT !.type = strncpy(Value(l), Cut32)]
            [] l.key \in {"user", "users"} -> AddUsers(c, Items(Value(l)))
            [] OTHER                       -> add_user(Plain(l.key))

(* myRPC-server.c looks for its patterns anywhere in the line, comments    *)
(* included.  (Behind "port =" it skips a character whatever it is, so     *)
(* ConfigAssumption has no such line that ends there.)                     *)
quoted(c, l) ==
  IF l.eq # "spaced" THEN c
  ELSE IF l.key \in PortLike THEN [c EXCEPT !.port = atoi(Value(l))]
  ELSE IF l.key # "socket_type" \/ l.vals = <<>> THEN c
  ELSE IF l.vals[1] \in StreamLike THEN [c EXCEPT !.type = Plain("stream")]
  ELSE IF l.vals[1] \in DgramLike THEN [c EXCEPT !.type = Plain("dgram")]
  ELSE c

(* myRPC/server/src/rpc_server.c: as before, but a comment sign in the     *)
(* first column counts, and the type may stand anywhere behind its key.    *)
daemon(c, l) ==
  IF (l.hash /\ ~l.lead) \/ l.eq # "spaced" THEN c
  ELSE IF l.key \in PortLike THEN [c EXCEPT !.port = atoi(Value(l))]
  ELSE IF l.key # "socket_type" THEN c
  ELSE IF Range(l.vals) \intersect StreamLike # {} THEN [c EXCEPT !.type = Plain("stream")]
  ELSE IF Range(l.vals) \intersect DgramLike # {} THEN [c EXCEPT !.type = Plain("dgram")]
  ELSE c

(* is_user_allowed of rpc_server.c: a whole line is a name.  The same loop *)
(* stands in two other servers.                                            *)
is_user_allowed(c, l) ==
  IF l.lead \/ l.hash \/ l.eq # "none" \/ l.note THEN c
  ELSE [c EXCEPT !.users = Append(@, Plain(l.key))]

lecture_user_allowed(c, l) == is_user_allowed(c, l)
quoted_is_user_allowed(c, l) == is_user_allowed(c, l)

(* server_config.c and client_config.c cut comments off anywhere.  Their   *)
(* trim_whitespace moves its own pointer over leading blanks and leaves    *)
(* the string as it was: an indented key is unknown, a value after "= "    *)
(* keeps its blank.                                                        *)
Kept(l) == [blank |-> l.eq = "spaced", words |-> l.vals, note |-> FALSE]
Unread(l) ==
  l.hash \/ l.lead \/ l.eq = "none" \/ (l.eq = "tight" /\ l.vals = <<>>)

server_config(c, l) ==
  IF Unread(l) THEN c
  ELSE CASE l.key = "port"            -> [c EXCEPT !.port = atoi(Kept(l))]
         [] l.key = "socket_type"     -> [c EXCEPT !.type = strncpy(Kept(l), Cut16)]
         [] l.key = "max_connections" -> [c EXCEPT !.limit = atoi(Kept(l))]
         [] l.key = "log_path"        -> [c EXCEPT !.place = Kept(l)]
         [] OTHER                     -> c

client_config(c, l) ==
  IF Unread(l) THEN c
  ELSE CASE l.key = "server_ip"   -> [c EXCEPT !.place = strncpy(Kept(l), Cut16)]
         [] l.key = "port"        -> [c EXCEPT !.port = atoi(Kept(l))]
         [] l.key = "socket_type" -> [c EXCEPT !.type = strncpy(Kept(l), Cut16)]
         [] l.key = "timeout_ms"  -> [c EXCEPT !.limit = atoi(Kept(l))]
         [] OTHER                 -> c

validate_server_config(c) ==
  /\ c.port \in Ports
  /\ c.type \in {Plain("stream"), Plain("dgram")}
  /\ c.limit >= 1

validate_client_config(c) ==
  /\ c.place \in {Plain(a) : a \in Addresses}
  /\ c.port \in Ports
  /\ c.type \in {Plain("stream"), Plain("dgram")}
  /\ c.limit >= 0

-----------------------------------------------------------------------------
VARIABLES
  file,   \* the lines read so far
  cfg     \* what each program has made of them

vars == <<file, cfg>>

Parsers == {"config_parser", "config_parser1", "lecture", "lecture1", "quoted",
            "daemon", "server_config", "client_config"}

(* What the structures hold before the first line is read.                 *)
Default(p) ==
  CASE p = "config_parser" -> Defaults(0, Plain("root"), 0, Empty)
    [] p \in {"config_parser1", "lecture", "lecture1"} -> Defaults(0, Empty, 0, Empty)
    [] p \in {"quoted", "daemon"} -> Defaults(1234, Empty, 0, Empty)
    [] p = "server_config" -> Defaults(8080, Empty, 10, Empty)
    [] p = "client_config" -> Defaults(8080, Empty, 5000, Plain("127.0.0.1"))

(* The body of the loop of each; the three servers that keep their users   *)
(* in a file of names read it in a loop of its own.                        *)
Parse(p, c, l) ==
  CASE p = "config_parser"  -> config_parser(c, l)
    [] p = "config_parser1" -> config_parser1(c, l)
    [] p = "lecture"        -> lecture(lecture_user_allowed(c, l), l)
    [] p = "lecture1"       -> lecture1(c, l)
    [] p = "quoted"         -> quoted(quoted_is_user_allowed(c, l), l)
    [] p = "daemon"         -> daemon(is_user_allowed(c, l), l)
    [] p = "server_config"  -> server_config(c, l)
    [] p = "client_config"  -> client_config(c, l)

Init ==
  /\ file = <<>>
  /\ cfg = [p \in Parsers |-> Default(p)]

(* fgets returns one more line; who has crashed or spins reads no more.    *)
ReadLine(l) ==
  /\ Len(file) < MaxLines
  /\ file' = Append(file, l)
  /\ cfg' = [p \in Parsers |-> IF cfg[p].end \in {"crash", "hang"} THEN cfg[p]
                               ELSE Parse(p, cfg[p], l)]

Next == \E l \in Lines : ReadLine(l)

Spec == Init /\ [][Next]_vars

(* user_allowed of each server, for what it has read.                      *)
Allows(p, n) ==
  \/ p \in {"config_parser", "config_parser1"} /\ cfg[p].user = Plain(n)
  \/ Plain(n) \in Range(cfg[p].users)

-----------------------------------------------------------------------------
Arrays == {"config_parser1", "lecture1"}
FilesOfNames == {"lecture", "quoted", "daemon"}

TypeOK ==
  /\ file \in Seq(Lines) /\ Len(file) <= MaxLines
  /\ cfg \in [Parsers -> Configs]
  /\ \A p \in Arrays : Len(cfg[p].users) <= MaxUsers

(* Who is allowed is named: as a value of a line for users, whole or cut   *)
(* to 31 characters, or, where a line can be a name, as a line.  Comments  *)
(* name nobody.  Only config_parser has a default, which holds as long as  *)
(* no line names a user (config_parser.c:29, :46, :67).                    *)
NamedBy(p, l, n) ==
  /\ ~l.hash
  /\ \/ /\ l.key \in {"user", "users"} /\ p \notin FilesOfNames
        /\ n \in {Cut32[l.vals[i]] : i \in 1 .. Len(l.vals)}
     \/ /\ p \in FilesOfNames /\ n = l.key
        /\ l.eq = "none"
     \/ p = "lecture1" /\ n = Cut32[l.key]

OnlyNamed ==
  \A p \in Parsers, n \in Words :
    Allows(p, n) =>
      \/ p = "config_parser" /\ n = "root"
         /\ \A i \in 1 .. Len(file) : file[i].hash \/ file[i].key # "user" \/ ~HasValue(file[i])
      \/ \E i \in 1 .. Len(file) : NamedBy(p, file[i], n)

(* As long as the array is not full, everybody in a list of users is       *)
(* allowed, wherever the line stands (config_parser1.c:73,                 *)
(* myrpc-server1/src/config_parser.c:87).                                  *)
NobodyLost ==
  \A p \in Arrays : cfg[p].end = "ok" /\ Len(cfg[p].users) < MaxUsers =>
    \A i \in 1 .. Len(file) :
      file[i].key = "users" /\ ~file[i].hash /\ ~file[i].note =>
        \A j \in 1 .. Len(file[i].vals) : Allows(p, Cut32[file[i].vals[j]])

(* A file in the style of serv.conf, "port = 8080", means the same port    *)
(* and type to the five parsers that read that style; one with "port=8080" *)
(* means the same to five others.  No style suits all of them.             *)
Setting(l, eq) ==
  \/ l.hash /\ ~l.lead /\ l.eq = "none"
  \/ /\ ~l.hash /\ ~l.lead /\ ~l.note /\ l.eq = eq /\ Len(l.vals) = 1
     /\ l.key = "port" \/ (l.key = "socket_type" /\ l.vals[1] \in {"stream", "dgram"})

Readers(eq) ==
  {"config_parser", "config_parser1", "lecture1"} \union
    IF eq = "spaced" THEN {"quoted", "daemon"} ELSE {"lecture", "server_config"}

StylesAgree ==
  \A eq \in {"spaced", "tight"} :
    (\A i \in 1 .. Len(file) : Setting(file[i], eq)) =>
      \A p, q \in Readers(eq) :
        /\ cfg[p].type = cfg[q].type
        /\ (\E i \in 1 .. Len(file) : file[i].key = "port" /\ ~file[i].hash) =>
             cfg[p].port = cfg[q].port

(* The repository offers two files as samples, with lines "key = value":   *)
(* the programs they are for accept any file of such lines whose values    *)
(* are in order (they lie beside server_config.c and client_config.c).     *)
SampleLine(l) ==
  \/ l.hash /\ l.eq = "none"
  \/ /\ ~l.hash /\ ~l.lead /\ ~l.note /\ l.eq = "spaced" /\ Len(l.vals) = 1
     /\ \/ l.key \in {"port", "max_connections", "timeout_ms"} /\ Number[l.vals[1]] \in Ports
        \/ l.key = "socket_type" /\ l.vals[1] \in {"stream", "dgram"}
        \/ l.key = "server_ip" /\ l.vals[1] \in Addresses
        \/ l.key = "log_path"

SampleIsAccepted ==
  (\A i \in 1 .. Len(file) : SampleLine(file[i])) =>
    /\ validate_server_config(cfg["server_config"])
    /\ validate_client_config(cfg["client_config"])

(* server.c:27 speaks of a list of allowed users, and user.conf has a line *)
(* for each of two: whoever has such a line is allowed.                    *)
ListedIsAllowed ==
  \A i \in 1 .. Len(file) :
    file[i].key = "user" /\ ~file[i].hash /\ ~file[i].note /\ Len(file[i].vals) = 1 =>
      Allows("config_parser", Cut32[file[i].vals[1]])
=============================================================================
