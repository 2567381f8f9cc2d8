---------------------------- MODULE DgramService ----------------------------
(***************************************************************************)
(* What myRPC promises its callers in datagram mode.  A network that loses *)
(* and repeats datagrams leaves less to promise than RpcService: a command *)
(* may be run once for every copy of its request, and the answer a client  *)
(* gets need not be its own.  But every copy is taken up once, by itself;  *)
(* one that is taken up is answered unless the server crashes; the answer  *)
(* is a refusal exactly if the command was not handed to the shell for it; *)
(* output is that of commands which were run, and until the first crash    *)
(* that of the request's own; and what a client ends with was sent.        *)
(***************************************************************************)
EXTENDS Integers

CONSTANTS Clients, None, MaxCopies

VARIABLES
  copies,   \* copies of requests that can still be taken up
  hand,     \* whose request is being served, or None
  stage,    \* how far: "taken" up, or handed to the shell ("ran")
  runs,     \* how often each client's command was started
  crashed,  \* the server has crashed once
  answers,  \* the answers given and not lost
  outcome   \* what each client ended with

vars == <<copies, hand, stage, runs, crashed, answers, outcome>>

Bodies == {b \in [kind : {"denied", "readerr", "empty", "output"}, of : SUBSET Clients] :
             b.kind = "output" <=> b.of # {}}

Init ==
  /\ copies = {} /\ hand = None /\ stage = "none"
  /\ runs = [c \in Clients |-> 0]
  /\ crashed = FALSE /\ answers = {}
  /\ outcome = [c \in Clients |-> "new"]

Ask(c) ==
  /\ outcome[c] = "new"
  /\ copies' = copies \union ({c} \X (1 .. MaxCopies))
  /\ outcome' = [outcome EXCEPT ![c] = "waiting"]
  /\ UNCHANGED <<hand, stage, runs, crashed, answers>>

Take ==
  /\ hand = None
  /\ \E q \in copies : hand' = q[1] /\ copies' = copies \ {q}
  /\ stage' = "taken"
  /\ UNCHANGED <<runs, crashed, answers, outcome>>

(* The shell may refuse to start what it is given.                         *)
Run ==
  /\ stage = "taken" /\ stage' = "ran"
  /\ runs' \in {runs, [runs EXCEPT ![hand] = @ + 1]}
  /\ UNCHANGED <<copies, hand, crashed, answers, outcome>>

Answer ==
  /\ hand # None
  /\ \E b \in Bodies :
       /\ b.kind = "denied" <=> stage = "taken"
       /\ \A d \in b.of : runs[d] > 0
       /\ ~crashed => b.of \subseteq {hand}
       /\ answers' = answers \union {[to |-> hand, body |-> b]}
  /\ hand' = None /\ stage' = "none"
  /\ UNCHANGED <<copies, runs, crashed, outcome>>

Crash ==
  /\ hand' = None /\ stage' = "none" /\ crashed' = TRUE
  /\ UNCHANGED <<copies, runs, answers, outcome>>

Lose ==
  /\ \/ \E q \in copies : copies' = copies \ {q} /\ UNCHANGED answers
     \/ \E a \in answers : answers' = answers \ {a} /\ UNCHANGED copies
  /\ UNCHANGED <<hand, stage, runs, crashed, outcome>>

(* A client that asked takes any answer, of which a copy may remain.       *)
Report(c) ==
  /\ outcome[c] = "waiting"
  /\ \E a \in answers :
       /\ outcome' = [outcome EXCEPT ![c] = a.body.kind]
       /\ answers' \in {answers, answers \ {a}}
  /\ UNCHANGED <<copies, hand, stage, runs, crashed>>

GiveUp(c) ==
  /\ outcome[c] \in {"new", "waiting"}
  /\ outcome' = [outcome EXCEPT ![c] = "unanswered"]
  /\ UNCHANGED <<copies, hand, stage, runs, crashed, answers>>

Next ==
  \/ Take \/ Run \/ Answer \/ Crash \/ Lose
  \/ \E c \in Clients : Ask(c) \/ Report(c) \/ GiveUp(c)

Spec == Init /\ [][Next]_vars
=============================================================================
