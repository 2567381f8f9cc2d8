------------------------------- MODULE SysLog -------------------------------
(***************************************************************************)
(* libmysyslog.c: mysyslog opens the log file for appending, reads the     *)
(* clock, formats a line and closes the file, which is when the line is    *)
(* written, by one write.  Several processes use one file, and nobody      *)
(* looks at the result of a call.                                          *)
(*                                                                         *)
(* A process makes one call at a time.  Modules with processes extend this *)
(* one, begin a call with mysyslog and wait until Returned.                *)
(***************************************************************************)
EXTENDS Integers, Sequences, FiniteSets

CONSTANTS
  Procs,    \* the processes
  Msgs,     \* what they have to say
  MaxLines, \* lines until the disk is full
  MaxTime,  \* bound: the clock
  MaxLost   \* bound: processes that lose lines although there is room

ASSUME SysLogAssumption == MaxLines \in Nat /\ MaxTime \in Nat /\ MaxLost \in Nat

VARIABLES
  clock,  \* the time of day, which does not go back
  log,    \* the lines of the file
  call,   \* the call each process is in
  lost    \* history: processes with a line that was not written

logVars == <<clock, log, call, lost>>

(* `after': how many lines the file had when the call began.               *)
Line == [by : Procs, msg : Msgs, time : Nat, after : Nat]
Call == [msg : Msgs, time : Nat, after : Nat]
NoCall == [msg |-> "none"]

SysLogInit ==
  /\ clock = 0 /\ log = <<>> /\ lost = {}
  /\ call = [p \in Procs |-> NoCall]

-----------------------------------------------------------------------------
Returned(p) == call[p] = NoCall

(* A slip: the time is kept from the first call.                           *)
mysyslog_Once(p, msg) ==
  LET mine == {i \in DOMAIN log : log[i].by = p}
      first == CHOOSE i \in mine : \A j \in mine : i <= j
  IN  /\ call' = [call EXCEPT ![p] =
                    [msg |-> msg, after |-> Len(log),
                     time |-> IF mine = {} THEN clock ELSE log[first].time]]
      /\ UNCHANGED <<clock, log, lost>>

(* fopen and time.                                                         *)
mysyslog(p, msg) ==
  /\ call' = [call EXCEPT ![p] = [msg |-> msg, time |-> clock, after |-> Len(log)]]
  /\ UNCHANGED <<clock, log, lost>>

(* The file could not be opened, or cannot be written.                     *)
LosesLine(p) ==
  /\ ~Returned(p)
  /\ Len(log) = MaxLines \/ p \in lost \/ Cardinality(lost) < MaxLost
  /\ call' = [call EXCEPT ![p] = NoCall]
  /\ lost' = lost \union {p}
  /\ UNCHANGED <<clock, log>>

(* fprintf and fclose.                                                     *)
WriteLine(p) ==
  /\ ~Returned(p) /\ Len(log) < MaxLines
  /\ log' = Append(log, [by |-> p, msg |-> call[p].msg, time |-> call[p].time,
                         after |-> call[p].after])
  /\ call' = [call EXCEPT ![p] = NoCall]
  /\ UNCHANGED <<clock, lost>>

(* The process is gone, and with it what it had to say.                    *)
Abort(p) ==
  /\ call' = [call EXCEPT ![p] = NoCall]
  /\ lost' = IF Returned(p) THEN lost ELSE lost \union {p}
  /\ UNCHANGED <<clock, log>>

LogStep(p) == LosesLine(p) \/ WriteLine(p)

Tick ==
  /\ clock < MaxTime /\ clock' = clock + 1
  /\ UNCHANGED <<log, call, lost>>

-----------------------------------------------------------------------------
SysLogTypeOK ==
  /\ clock \in Nat /\ log \in Seq(Line)
  /\ call \in [Procs -> Call \union {NoCall}] /\ lost \in SUBSET Procs

(* Lines lie in the file in another order than their time stamps only if   *)
(* the calls overlapped: the one that was stamped first had begun before   *)
(* the other line was written.  Who calls after another call has returned  *)
(* comes after it in the file, and not with an earlier time                *)
(* (libmysyslog.c:9, :14, :34).                                            *)
DisorderIsOverlap ==
  \A i, j \in DOMAIN log :
    i < j /\ log[j].time < log[i].time => log[j].after < i
=============================================================================
