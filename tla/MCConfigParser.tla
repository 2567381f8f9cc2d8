--------------------------- MODULE MCConfigParser ---------------------------
(***************************************************************************)
(* An instance of ConfigParser for TLC: files of up to MaxLines lines from *)
(* a set that has every branch of every parser, and the lines of the       *)
(* sample files of the repository.                                         *)
(***************************************************************************)
EXTENDS ConfigParser

MCWords == Keys \union {"user1", "longlong", "long", "report", "8080", "70000",
                        "stream_of_bytes_x", "stream_of_bytes", "hello"}

MCNumber == [w \in Words |-> CASE w = "8080" -> 8080 [] w = "70000" -> 70000
                               [] w = "127.0.0.1" -> 127 [] OTHER -> 0]

(* "longlong" stands for a name of more than 31 characters.                *)
MCCut32 == [w \in Words |-> IF w = "longlong" THEN "long" ELSE w]
MCCut16 == [w \in Words |-> CASE w = "longlong" -> "long"
                              [] w = "stream_of_bytes_x" -> "stream_of_bytes"
                              [] OTHER -> w]

Bare(k) == [lead |-> FALSE, hash |-> FALSE, key |-> k, eq |-> "none",
            vals |-> <<>>, gap |-> 0, note |-> FALSE]
Set(k, eq, vs) == [Bare(k) EXCEPT !.eq = eq, !.vals = vs]

MCLines ==
  { Set("port", "spaced", <<"8080">>), Set("port", "tight", <<"8080">>),
    Set("port", "tight", <<"70000">>), Set("report", "spaced", <<"70000">>),
    [Set("port", "spaced", <<"70000">>) EXCEPT !.hash = TRUE],
    [Set("port", "spaced", <<"70000">>) EXCEPT !.hash = TRUE, !.lead = TRUE],
    [Set("port", "tight", <<"70000">>) EXCEPT !.lead = TRUE],
    Set("socket_type", "spaced", <<"stream">>), Set("socket_type", "spaced", <<"dgram">>),
    Set("socket_type", "tight", <<"dgram">>), Set("socket_type", "tight", <<"stream_of_bytes_x">>),
    Set("socket_type", "spaced", <<"stream_of_bytes">>),
    [Set("socket_type", "tight", <<"dgram">>) EXCEPT !.note = TRUE],
    Set("user", "tight", <<"user">>), Set("user", "tight", <<"root">>),
    Set("user", "spaced", <<"longlong">>), [Set("user", "tight", <<"user1">>) EXCEPT !.hash = TRUE],
    [Bare("hello") EXCEPT !.hash = TRUE], Bare("user1"), Bare("root"), Bare("port"),
    Set("user", "tight", <<>>), [Set("user", "spaced", <<>>) EXCEPT !.note = TRUE],
    Set("users", "tight", <<"user", "user1">>),
    [Set("users", "spaced", <<"user1", "longlong">>) EXCEPT !.gap = 2],
    [Set("users", "tight", <<"root", "user">>) EXCEPT !.hash = TRUE, !.gap = 1],
    Set("max_connections", "tight", <<"8080">>), Set("max_connections", "tight", <<"hello">>),
    Set("log_path", "spaced", <<"hello">>), Set("server_ip", "spaced", <<"127.0.0.1">>),
    Set("server_ip", "tight", <<"127.0.0.1">>), Set("timeout_ms", "spaced", <<"8080">>) }
=============================================================================
