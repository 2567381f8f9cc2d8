----------------------------- MODULE RpcService -----------------------------
(***************************************************************************)
(* What myRPC promises its callers, whatever the transport does: a command *)
(* is run at most once and only before its caller is answered; a caller    *)
(* that was refused has not had its command run; command output that is    *)
(* sent back was written by commands that were run; what a client reports  *)
(* is the answer that was given to that client; every client ends.  A      *)
(* client may end without an answer, and a command may have been run for   *)
(* a client that got none.                                                 *)
(***************************************************************************)
CONSTANTS Clients, None

VARIABLES
  ran,      \* clients whose command has been started
  answer,   \* the answer sent to each client
  outcome   \* what each client ended with

vars == <<ran, answer, outcome>>

NoAnswer == [kind |-> "none", of |-> {}]
Answers == [kind : {"denied", "readerr", "output"}, of : SUBSET Clients]

Init ==
  /\ ran = {}
  /\ answer = [c \in Clients |-> NoAnswer]
  /\ outcome = [c \in Clients |-> "waiting"]

Run(c) ==
  /\ c \notin ran
  /\ answer[c] = NoAnswer
  /\ ran' = ran \union {c}
  /\ UNCHANGED <<answer, outcome>>

Answer(c) ==
  /\ answer[c] = NoAnswer
  /\ \E a \in Answers :
       /\ a.kind = "denied" => c \notin ran
       /\ a.of \subseteq ran
       /\ answer' = [answer EXCEPT ![c] = a]
  /\ UNCHANGED <<ran, outcome>>

(* A client that reports an answer reports the one it was sent.            *)
End(c) ==
  /\ outcome[c] = "waiting"
  /\ \/ outcome' = [outcome EXCEPT ![c] = "unanswered"]
     \/ /\ answer[c] # NoAnswer
        /\ outcome' = [outcome EXCEPT ![c] = answer[c].kind]
  /\ UNCHANGED <<ran, answer>>

Next == \E c \in Clients : Run(c) \/ Answer(c) \/ End(c)

Spec == Init /\ [][Next]_vars /\ \A c \in Clients : WF_vars(End(c))
=============================================================================
