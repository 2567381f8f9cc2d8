--------------------------- MODULE ServersProofs ----------------------------
(***************************************************************************)
(* Proofs about Servers, for any number of servers and requests, any       *)
(* socket types, and logs of any length.                                   *)
(***************************************************************************)
EXTENDS Servers, TLAPS

Busy == {"exec", "run", "read", "remove"}

(* The file holds output of requests in hand, or left by a crash, and only *)
(* their commands write to it, and only if it is there.                    *)
FileInv ==
  /\ outfile # {} /\ outfile \ NoFile \subseteq InHand(Procs) \union left
  /\ writers \subseteq InHand(Procs) \union left
  /\ writers # {} => outfile # NoFile

(* `with' has at least what others handle now, and what crashes have left. *)
(* A request that has been alone so far finds no file but its own, and     *)
(* nobody else writes.                                                     *)
Undisturbed(p) ==
  /\ outfile = IF p \in captured THEN {hand[p]} ELSE NoFile
  /\ writers \subseteq IF p \in captured THEN {hand[p]} ELSE {}

AloneInv ==
  /\ \A p \in captured : pc[p] \in Busy
  /\ \A p, q \in Procs : p # q /\ hand[p] # None /\ hand[q] # None => hand[q] \in with[p]
  /\ \A p \in Procs : hand[p] # None => left \subseteq with[p]
  /\ \A p \in Procs : hand[p] # None /\ with[p] = {} => Undisturbed(p)

(* The log: no time is in the future, and a call that has its time but not *)
(* yet its line began before every later time was written.                 *)
LogInv ==
  /\ \A i \in DOMAIN log : log[i].time <= clock
  /\ \A p \in Procs : call[p] # NoCall =>
       /\ call[p].time <= clock /\ call[p].after <= Len(log)
       /\ \A i \in DOMAIN log : call[p].time < log[i].time => call[p].after < i
  /\ DisorderIsOverlap

SpinInv ==
  \A p \in Procs :
    /\ sock[p] = "listening" => p \in won
    /\ pc[p] = "listen" => sock[p] = "bound"
    /\ pc[p] \in {"loop", "accept"} \union Busy /\ ~Works(p) =>
         \E q \in Procs \ {p} : q \in won

IInv == TypeOK /\ FileInv /\ AloneInv /\ OverlapExplainsOutput /\ LogInv /\ SpinInv

-----------------------------------------------------------------------------
(* The log.                                                                *)

LEMMA LogBegins == Init => SysLogTypeOK /\ LogInv
BY DEF Init, SysLogInit, SysLogTypeOK, LogInv, DisorderIsOverlap, NoCall

LEMMA CallLog ==
  ASSUME SysLogTypeOK, LogInv, NEW p \in Procs, NEW m \in Msgs, mysyslog(p, m)
  PROVE  SysLogTypeOK' /\ LogInv'
<1>1. /\ call \in [Procs -> Call \union {NoCall}] /\ log \in Seq(Line)
      /\ clock \in Nat /\ lost \in SUBSET Procs /\ Len(log) \in Nat
  BY DEF SysLogTypeOK
<1>2. /\ call' = [call EXCEPT ![p] = [msg |-> m, time |-> clock, after |-> Len(log)]]
      /\ log' = log /\ clock' = clock /\ lost' = lost
  BY DEF mysyslog
<1>3. SysLogTypeOK'
  BY <1>1, <1>2 DEF SysLogTypeOK, Call
<1>4. \A i \in DOMAIN log : log[i].time <= clock /\ log[i].time \in Nat
  <2>1. \A i \in DOMAIN log : log[i] \in Line
    BY <1>1
  <2>2. QED
    BY <2>1 DEF LogInv, Line
<1>5. ASSUME NEW q \in Procs, call'[q] # NoCall
      PROVE  /\ call'[q].time <= clock /\ call'[q].after <= Len(log)
             /\ \A i \in DOMAIN log : call'[q].time < log[i].time => call'[q].after < i
  <2>1. CASE q = p
    <3>1. call'[q].time = clock /\ call'[q].after = Len(log)
      BY <1>1, <1>2, <2>1
    <3>2. QED
      BY <1>1, <1>4, <3>1
  <2>2. CASE q # p
    BY <1>1, <1>2, <1>5, <2>2 DEF LogInv
  <2>3. QED
    BY <2>1, <2>2
<1>6. QED
  BY <1>2, <1>3, <1>5 DEF LogInv, DisorderIsOverlap

LEMMA StepLog ==
  ASSUME SysLogTypeOK, LogInv, NEW p \in Procs, LogStep(p)
  PROVE  SysLogTypeOK' /\ LogInv'
<1>1. /\ call \in [Procs -> Call \union {NoCall}] /\ log \in Seq(Line)
      /\ clock \in Nat /\ lost \in SUBSET Procs /\ Len(log) \in Nat
  BY DEF SysLogTypeOK
<1>2. /\ call' = [call EXCEPT ![p] = NoCall] /\ clock' = clock /\ call[p] # NoCall
      /\ lost' \in SUBSET Procs
  BY <1>1 DEF LogStep, LosesLine, WriteLine, Returned
<1>3. call' \in [Procs -> Call \union {NoCall}]
  BY <1>1, <1>2
<1>4. CASE LosesLine(p)
  <2>1. log' = log
    BY <1>4 DEF LosesLine
  <2>2. QED
    BY <1>1, <1>2, <1>3, <2>1 DEF SysLogTypeOK, LogInv, DisorderIsOverlap
<1>5. CASE WriteLine(p)
  <2> DEFINE line == [by |-> p, msg |-> call[p].msg, time |-> call[p].time,
                      after |-> call[p].after]
             n == Len(log) + 1
  <2>1. log' = Append(log, line)
    BY <1>5 DEF WriteLine
  <2>2. call[p] \in Call
    BY <1>1, <1>2
  <2>3. /\ line \in Line /\ line.time = call[p].time /\ line.after = call[p].after
        /\ line.time \in Nat /\ line.after \in Nat
    BY <2>2 DEF Call, Line
  <2> HIDE DEF line
  <2>4. /\ log' \in Seq(Line) /\ DOMAIN log' = 1 .. n /\ DOMAIN log = 1 .. Len(log)
        /\ log'[n] = line /\ \A i \in 1 .. Len(log) : log'[i] = log[i]
    BY <1>1, <2>1, <2>3
  <2>5. SysLogTypeOK'
    BY <1>1, <1>2, <1>3, <2>4 DEF SysLogTypeOK
  <2>6. /\ line.time <= clock
        /\ \A i \in DOMAIN log : line.time < log[i].time => line.after < i
    BY <1>2, <2>3 DEF LogInv
  <2>7. \A i \in DOMAIN log' : log'[i].time <= clock
    BY <1>1, <2>4, <2>6 DEF LogInv
  <2>8. ASSUME NEW q \in Procs, call'[q] # NoCall
        PROVE  /\ call'[q].time <= clock' /\ call'[q].after <= Len(log')
               /\ \A i \in DOMAIN log' : call'[q].time < log'[i].time => call'[q].after < i
    <3>1. q # p /\ call'[q] = call[q]
      BY <1>1, <1>2, <2>8
    <3>2. /\ call[q].time <= clock /\ call[q].after <= Len(log)
          /\ \A i \in DOMAIN log : call[q].time < log[i].time => call[q].after < i
      BY <2>8, <3>1 DEF LogInv
    <3>3. call[q] \in Call
      BY <1>1, <2>8, <3>1
    <3>4. call[q].after \in Nat /\ call[q].time \in Nat
      BY <3>3 DEF Call
    <3>5. call[q].after < n /\ Len(log') = n
      BY <1>1, <2>1, <3>2, <3>4
    <3>6. ASSUME NEW i \in DOMAIN log', call'[q].time < log'[i].time
          PROVE  call'[q].after < i
      BY <1>1, <2>4, <3>1, <3>2, <3>5, <3>6
    <3>7. QED
      BY <1>1, <1>2, <3>1, <3>2, <3>4, <3>5, <3>6
  <2>9. ASSUME NEW i \in DOMAIN log', NEW j \in DOMAIN log', i < j, log'[j].time < log'[i].time
        PROVE  log'[j].after < i
    <3>1. i \in DOMAIN log /\ log'[i] = log[i]
      BY <1>1, <2>4, <2>9
    <3>2. CASE j = n
      BY <2>3, <2>4, <2>6, <2>9, <3>1, <3>2
    <3>3. CASE j # n
      <4>1. j \in DOMAIN log /\ log'[j] = log[j]
        BY <1>1, <2>4, <3>3
      <4>2. QED
        BY <2>9, <3>1, <4>1 DEF LogInv, DisorderIsOverlap
    <3>4. QED
      BY <3>2, <3>3
  <2>10. DisorderIsOverlap'
    BY <2>9 DEF DisorderIsOverlap
  <2>11. LogInv'
    <3>1. \A i \in DOMAIN log' : log'[i].time <= clock'
      BY <1>2, <2>7
    <3>2. \A q \in Procs : call'[q] # NoCall =>
            /\ call'[q].time <= clock' /\ call'[q].after <= Len(log')
            /\ \A i \in DOMAIN log' : call'[q].time < log'[i].time => call'[q].after < i
      BY <2>8
    <3>3. QED
      BY <2>10, <3>1, <3>2 DEF LogInv
  <2>12. QED
    BY <2>5, <2>11
<1>6. QED
  BY <1>4, <1>5 DEF LogStep

LEMMA AbortLog ==
  ASSUME SysLogTypeOK, LogInv, NEW p \in Procs, Abort(p)
  PROVE  SysLogTypeOK' /\ LogInv'
<1>1. /\ call \in [Procs -> Call \union {NoCall}] /\ log \in Seq(Line)
      /\ clock \in Nat /\ lost \in SUBSET Procs
  BY DEF SysLogTypeOK
<1>2. /\ call' = [call EXCEPT ![p] = NoCall] /\ clock' = clock /\ log' = log
      /\ lost' \in SUBSET Procs
  BY <1>1 DEF Abort
<1>3. call' \in [Procs -> Call \union {NoCall}]
  BY <1>1, <1>2
<1>4. QED
  BY <1>1, <1>2, <1>3 DEF SysLogTypeOK, LogInv, DisorderIsOverlap

LEMMA TickLog ==
  ASSUME SysLogTypeOK, LogInv, Tick
  PROVE  SysLogTypeOK' /\ LogInv'
<1>1. /\ clock \in Nat /\ clock' = clock + 1 /\ UNCHANGED <<log, call, lost>>
      /\ call \in [Procs -> Call \union {NoCall}] /\ log \in Seq(Line)
  BY DEF SysLogTypeOK, Tick
<1>2. SysLogTypeOK'
  BY <1>1 DEF SysLogTypeOK
<1>3. ASSUME NEW i \in DOMAIN log
      PROVE  log[i].time <= clock'
  <2>1. log[i] \in Line
    BY <1>1
  <2>2. QED
    BY <1>1, <2>1 DEF LogInv, Line
<1>4. ASSUME NEW p \in Procs, call[p] # NoCall
      PROVE  call[p].time <= clock'
  <2>1. call[p] \in Call
    BY <1>1, <1>4
  <2>2. QED
    BY <1>1, <1>4, <2>1 DEF LogInv, Call
<1>5. QED
  BY <1>1, <1>2, <1>3, <1>4 DEF LogInv, DisorderIsOverlap

LEMMA SilentLog ==
  ASSUME SysLogTypeOK, LogInv, UNCHANGED logVars
  PROVE  SysLogTypeOK' /\ LogInv'
BY DEF SysLogTypeOK, LogInv, DisorderIsOverlap, logVars

(* Every step of a server makes one call, takes one on, or none.           *)
LEMMA LogKept ==
  ASSUME SysLogTypeOK, LogInv, [Next]_vars
  PROVE  SysLogTypeOK' /\ LogInv'
<1>1. \A m \in {Starting, NoSocket, NoOption, NoBind, Listens, NoAccept, Stopped} : m \in Msgs
  BY ServersAssumption
<1>2. ASSUME NEW p \in Procs,
             \/ \E m \in {Starting, NoSocket, NoOption, NoBind, Listens, NoAccept, Stopped} :
                  mysyslog(p, m)
             \/ LogStep(p) \/ UNCHANGED logVars
      PROVE  SysLogTypeOK' /\ LogInv'
  BY <1>1, <1>2, CallLog, StepLog, SilentLog
<1>3. CASE Time
  BY <1>3, TickLog DEF Time
<1>4. CASE UNCHANGED vars
  BY <1>4, SilentLog DEF vars
<1>5. ASSUME NEW p \in Procs, Start(p) \/ ServerStep(p) \/ AcceptFails(p)
      PROVE  SysLogTypeOK' /\ LogInv'
  <2>1. \/ \E m \in {Starting, NoSocket, NoOption, NoBind, Listens, NoAccept, Stopped} :
             mysyslog(p, m)
        \/ LogStep(p) \/ UNCHANGED logVars
    BY <1>5 DEF Start, ServerStep, Prepare, Bind, Listen, Loop, AcceptFails, Exec, CommandEnds,
                ReadOutput, RemoveFiles, Logging, Silent
  <2>2. QED
    BY <1>2, <2>1
<1>6. ASSUME NEW p \in Procs, handle_signal(p) \/ \E r \in Requests : Take(p, r) \/ JobEnds(p, r)
      PROVE  SysLogTypeOK' /\ LogInv'
  BY <1>6, SilentLog DEF handle_signal, Take, JobEnds, Silent
<1>7. ASSUME NEW r \in Requests, Writes(r)
      PROVE  SysLogTypeOK' /\ LogInv'
  BY <1>7, SilentLog DEF Writes, Silent
<1>8. ASSUME NEW p \in Procs, Crash(p)
      PROVE  SysLogTypeOK' /\ LogInv'
  BY <1>8, AbortLog DEF Crash
<1>9. QED
  BY <1>3, <1>4, <1>5, <1>6, <1>7, <1>8 DEF Next

(* Lines lie in the file out of the order of their times only if their     *)
(* calls overlapped.                                                       *)
THEOREM LogOrdered == Spec => []DisorderIsOverlap
<1>1. Init => SysLogTypeOK /\ LogInv
  BY LogBegins
<1>2. SysLogTypeOK /\ LogInv /\ [Next]_vars => (SysLogTypeOK /\ LogInv)'
  BY LogKept
<1>3. LogInv => DisorderIsOverlap
  BY DEF LogInv
<1>4. QED
  BY <1>1, <1>2, <1>3, PTL DEF Spec

-----------------------------------------------------------------------------
(* The servers.                                                            *)

LEMMA Begins == Init => IInv
<1> SUFFICES ASSUME Init PROVE IInv
  OBVIOUS
<1>1. SysLogTypeOK /\ LogInv
  BY LogBegins
<1>2. TypeOK
  BY <1>1, ServersAssumption DEF Init, TypeOK, Labels, Gone, NoFile
<1>3. FileInv /\ AloneInv /\ SpinInv /\ OverlapExplainsOutput
  BY DEF Init, FileInv, AloneInv, SpinInv, OverlapExplainsOutput, NoFile, Busy
<1>4. QED
  BY <1>1, <1>2, <1>3 DEF IInv

(* Where only control moves.                                               *)
Moves(p) ==
  \/ Start(p) \/ Prepare(p) \/ Bind(p) \/ Listen(p) \/ Loop(p) \/ AcceptFails(p)
  \/ Logging(p) \/ handle_signal(p)

LEMMA MovesAside ==
  ASSUME NEW p \in Procs, Moves(p)
  PROVE  UNCHANGED <<mode, jobs, fileVars>>
BY DEF Moves, Start, Prepare, Bind, Listen, Loop, AcceptFails, Logging, handle_signal

LEMMA TypeMoves ==
  ASSUME TypeOK, SpinInv, SysLogTypeOK', NEW p \in Procs, Moves(p)
  PROVE  TypeOK'
<1> USE DEF TypeOK, Labels, Gone, Goto, Socket, At
<1>1. UNCHANGED <<mode, jobs, hand, outfile, writers, captured, out, left, with>>
  BY MovesAside DEF fileVars
<1>2. CASE Start(p)
  BY <1>1, <1>2 DEF Start
<1>3. CASE Prepare(p)
  BY <1>1, <1>3 DEF Prepare
<1>4. CASE Bind(p)
  BY <1>1, <1>4 DEF Bind
<1>5. CASE Listen(p)
  BY <1>1, <1>5 DEF Listen
<1>6. CASE Loop(p)
  BY <1>1, <1>6 DEF Loop, Closes
<1>7. CASE AcceptFails(p)
  BY <1>1, <1>7 DEF AcceptFails
<1>8. CASE Logging(p)
  BY <1>1, <1>8 DEF Logging
<1>9. CASE handle_signal(p)
  BY <1>1, <1>9 DEF handle_signal
<1>10. QED
  BY <1>2, <1>3, <1>4, <1>5, <1>6, <1>7, <1>8, <1>9 DEF Moves

(* Commands that stay, or go, where nothing else is at stake.              *)
LEMMA InheritedMore ==
  ASSUME NEW p \in Procs, NEW J, NEW j
  PROVE  Inherited(p, J) => Inherited(p, J \union {j})
BY DEF Inherited

LEMMA InheritedOthers ==
  ASSUME NEW p \in Procs, NEW q \in Procs \ {p}, NEW J, NEW r
  PROVE  Inherited(q, J \ {<<p, r>>}) <=> Inherited(q, J)
BY DEF Inherited

LEMMA TypeTake ==
  ASSUME TypeOK, SysLogTypeOK', NEW p \in Procs, NEW r \in Requests, Take(p, r)
  PROVE  TypeOK'
<1> USE DEF TypeOK, Labels, Gone
<1>1. with' \in [Procs -> SUBSET Requests]
  BY DEF Take, InHand
<1>2. hand' = [hand EXCEPT ![p] = r] /\ r # None
  BY ServersAssumption DEF Take
<1>3. pc' = [pc EXCEPT ![p] = "exec"] /\ pc[p] = "accept"
  BY DEF Take, At, Goto
<1>4. UNCHANGED <<mode, stop, sock, jobs, won, outfile, writers, captured, out, left>>
  BY DEF Take
<1>5. QED
  BY <1>1, <1>2, <1>3, <1>4

LEMMA TypeHandles ==
  ASSUME TypeOK, FileInv, SysLogTypeOK', NEW p \in Procs,
         Exec(p) \/ CommandEnds(p) \/ ReadOutput(p) \/ RemoveFiles(p)
  PROVE  TypeOK'
<1> USE DEF TypeOK, Labels, Gone, At, Goto
<1>1. CASE Exec(p)
  BY <1>1 DEF Exec
<1>2. CASE CommandEnds(p)
  <2>1. /\ pc[p] = "run" /\ pc' = [pc EXCEPT ![p] = "read"]
        /\ UNCHANGED <<mode, stop, sock, won, hand, outfile, captured, out, left, with>>
        /\ hand[p] \in Requests
    BY <1>2 DEF CommandEnds
  <2>2. writers' \in SUBSET Requests /\ jobs' \in SUBSET (Procs \X Requests)
    BY <1>2, <2>1 DEF CommandEnds
  <2>3. \A q \in Procs : Inherited(q, jobs) => Inherited(q, jobs')
    <3>1. jobs' = jobs \/ jobs' = jobs \union {<<p, hand[p]>>}
      BY <1>2 DEF CommandEnds
    <3>2. CASE jobs' = jobs
      BY <3>2
    <3>3. CASE jobs' = jobs \union {<<p, hand[p]>>}
      BY <3>3, InheritedMore
    <3>4. QED
      BY <3>1, <3>2, <3>3
  <2>4. QED
    BY <2>1, <2>2, <2>3
<1>3. CASE ReadOutput(p)
  BY <1>3 DEF ReadOutput
<1>4. CASE RemoveFiles(p)
  BY <1>4, ServersAssumption DEF RemoveFiles, HandsFree
<1>5. QED
  BY <1>1, <1>2, <1>3, <1>4

LEMMA TypeWrites ==
  ASSUME TypeOK, FileInv, SysLogTypeOK', NEW r \in Requests, Writes(r)
  PROVE  TypeOK'
<1>1. outfile \in SUBSET Requests
  BY DEF Writes, FileInv, TypeOK
<1>2. QED
  BY <1>1 DEF Writes, TypeOK

LEMMA TypeJobEnds ==
  ASSUME TypeOK, SysLogTypeOK', NEW p \in Procs, NEW r \in Requests, JobEnds(p, r)
  PROVE  TypeOK'
<1>1. /\ jobs' = jobs \ {<<p, r>>} /\ writers' = writers \ {r}
      /\ UNCHANGED <<mode, pc, stop, won, hand, outfile, captured, out, left, with>>
  BY DEF JobEnds
<1>2. \A q \in Procs \ {p} : sock'[q] = sock[q]
  BY DEF JobEnds, Closes, Socket, TypeOK
<1>3. /\ pc[p] \notin Gone => sock' = sock
      /\ pc[p] \in Gone => sock'[p] = IF Inherited(p, jobs') THEN sock[p] ELSE "none"
      /\ sock' \in [Procs -> {"none", "open", "bound", "listening"}]
  BY DEF JobEnds, Closes, Socket, TypeOK
<1>4. \A q \in Procs \ {p} : Inherited(q, jobs') <=> Inherited(q, jobs)
  BY <1>1, InheritedOthers
<1>5. jobs' \in SUBSET (Procs \X Requests) /\ writers' \in SUBSET Requests
  BY <1>1 DEF TypeOK
<1>6. ASSUME NEW q \in Procs
      PROVE  CASE pc[q] \in {"off", "socket"} -> sock'[q] = "none"
               [] pc[q] \in Gone -> sock'[q] = "none" \/ Inherited(q, jobs')
               [] pc[q] = "bind" -> sock'[q] = "open"
               [] OTHER -> sock'[q] \in {"bound", "listening"}
  BY <1>2, <1>3, <1>4 DEF TypeOK, Gone
<1>7. QED
  BY <1>1, <1>3, <1>5, <1>6 DEF TypeOK

LEMMA TypeCrash ==
  ASSUME TypeOK, SysLogTypeOK', NEW p \in Procs, Crash(p)
  PROVE  TypeOK'
<1> USE DEF TypeOK, Labels, Gone, Goto
<1>1. /\ pc' = [pc EXCEPT ![p] = "dead"] /\ HandsFree(p)
      /\ UNCHANGED <<mode, stop, won, outfile, writers>>
      /\ left' = left \union ({hand[p]} \ {None})
  BY DEF Crash
<1>2. jobs' \in SUBSET (Procs \X Requests)
  <2>1. pc[p] = "run" => hand[p] \in Requests
    OBVIOUS
  <2>2. QED
    BY <2>1 DEF Crash
<1>3. \A q \in Procs : Inherited(q, jobs) => Inherited(q, jobs')
  BY InheritedMore DEF Crash
<1>4. /\ \A q \in Procs \ {p} : sock'[q] = sock[q]
      /\ sock'[p] = IF Inherited(p, jobs') THEN sock[p] ELSE "none"
      /\ sock' \in [Procs -> {"none", "open", "bound", "listening"}]
  BY DEF Crash, Closes, Socket
<1>5. /\ hand' = [hand EXCEPT ![p] = None] /\ out' = [out EXCEPT ![p] = NoFile]
      /\ captured' = captured \ {p} /\ with' = [with EXCEPT ![p] = {}]
  BY <1>1 DEF HandsFree
<1>6. left' \in SUBSET Requests
  BY <1>1
<1>7. QED
  BY <1>1, <1>2, <1>3, <1>4, <1>5, <1>6

LEMMA TypeKept ==
  ASSUME TypeOK, FileInv, SpinInv, SysLogTypeOK', [Next]_vars
  PROVE  TypeOK'
<1>1. CASE UNCHANGED vars
  BY <1>1 DEF vars, fileVars, TypeOK
<1>2. CASE Time
  BY <1>2 DEF Time, fileVars, TypeOK
<1>3. QED
  BY <1>1, <1>2, TypeMoves, TypeTake, TypeHandles, TypeWrites, TypeJobEnds, TypeCrash
     DEF Next, ServerStep, Moves

(* Control moves leave the requests in hand where they are.                *)
LEMMA MovesHand ==
  ASSUME TypeOK, NEW p \in Procs, Moves(p)
  PROVE  /\ pc' = pc \/ (pc[p] \notin Busy /\ \E l \in Labels \ Busy : pc' = [pc EXCEPT ![p] = l])
         /\ UNCHANGED fileVars
<1>1. UNCHANGED fileVars
  BY MovesAside
<1>2. CASE Logging(p) \/ handle_signal(p)
  BY <1>1, <1>2 DEF Logging, handle_signal
<1>3. CASE Start(p) \/ Prepare(p) \/ Bind(p) \/ Listen(p) \/ Loop(p) \/ AcceptFails(p)
  BY <1>1, <1>3 DEF Start, Prepare, Bind, Listen, Loop, AcceptFails, At, Goto, Labels, Busy
<1>4. QED
  BY <1>2, <1>3 DEF Moves

SharedInv == FileInv /\ AloneInv /\ OverlapExplainsOutput

LEMMA HandKept ==
  ASSUME TypeOK, SharedInv, UNCHANGED fileVars, NEW p \in Procs,
         pc' = pc \/ (pc[p] \notin Busy /\ \E l \in Labels \ Busy : pc' = [pc EXCEPT ![p] = l])
  PROVE  SharedInv'
<1> USE DEF SharedInv
<1>1. UNCHANGED <<hand, outfile, writers, captured, out, left, with>>
  BY DEF fileVars
<1>2. \A q \in Procs : pc[q] = pc'[q] \/ (pc[q] \notin Busy /\ pc'[q] \notin Busy)
  BY DEF TypeOK
<1>3. captured \subseteq Procs
  BY DEF TypeOK
<1>4. FileInv'
  BY <1>1 DEF FileInv, InHand
<1>5. AloneInv'
  BY <1>1, <1>2, <1>3 DEF AloneInv, Undisturbed
<1>6. OverlapExplainsOutput'
  BY <1>1, <1>2 DEF OverlapExplainsOutput, Busy
<1>7. QED
  BY <1>4, <1>5, <1>6

LEMMA TakeShared ==
  ASSUME TypeOK, SharedInv, NEW p \in Procs, NEW r \in Requests, Take(p, r)
  PROVE  SharedInv'
<1> USE DEF SharedInv
<1>1. /\ hand' = [hand EXCEPT ![p] = r] /\ hand \in [Procs -> Requests \union {None}]
      /\ pc[p] = "accept" /\ pc' = [pc EXCEPT ![p] = "exec"] /\ pc \in [Procs -> Labels]
      /\ UNCHANGED <<outfile, writers, captured, out, left>>
      /\ hand[p] = None /\ r # None /\ captured \subseteq Procs
  BY ServersAssumption DEF Take, At, Goto, TypeOK
<1>2. /\ with'[p] = InHand(Procs) \union left
      /\ \A q \in Procs \ {p} : with'[q] = IF hand[q] # None THEN with[q] \union {r} ELSE with[q]
  BY DEF Take
<1>3. InHand(Procs)' = InHand(Procs) \union {r}
  BY <1>1 DEF InHand
<1>4. FileInv'
  BY <1>1, <1>3 DEF FileInv
<1>5. \A q \in captured' : pc'[q] \in Busy
  BY <1>1 DEF AloneInv, Busy
<1>6. ASSUME NEW q \in Procs, NEW s \in Procs, q # s, hand'[q] # None, hand'[s] # None
      PROVE  hand'[s] \in with'[q]
  <2>1. CASE q = p
    BY <1>1, <1>2, <1>6, <2>1 DEF InHand
  <2>2. CASE s = p
    BY <1>1, <1>2, <1>6, <2>2
  <2>3. CASE q # p /\ s # p
    BY <1>1, <1>2, <1>6, <2>3 DEF AloneInv
  <2>4. QED
    BY <2>1, <2>2, <2>3
<1>7. \A q \in Procs : hand'[q] # None => left' \subseteq with'[q]
  BY <1>1, <1>2 DEF AloneInv
<1>8. ASSUME NEW q \in Procs, hand'[q] # None, with'[q] = {}
      PROVE  Undisturbed(q)'
  <2>1. q = p
    BY <1>1, <1>2, <1>8
  <2>2. InHand(Procs) \union left = {}
    BY <1>2, <1>8, <2>1
  <2>3. outfile = NoFile /\ writers = {}
    BY <2>2 DEF FileInv, NoFile
  <2>4. p \notin captured
    BY <1>1 DEF AloneInv, Busy
  <2>5. QED
    BY <1>1, <2>1, <2>3, <2>4 DEF Undisturbed
<1>9. AloneInv'
  BY <1>5, <1>6, <1>7, <1>8 DEF AloneInv
<1>10. OverlapExplainsOutput'
  <2> SUFFICES ASSUME NEW q \in Procs, pc'[q] = "remove"
               PROVE  /\ out'[q] \ NoFile \subseteq {hand'[q]} \union with'[q]
                      /\ with'[q] = {} => out'[q] = IF q \in captured' THEN {hand'[q]} ELSE NoFile
    BY DEF OverlapExplainsOutput
  <2>1. q # p /\ pc[q] = "remove" /\ hand'[q] = hand[q] /\ hand[q] # None
    BY <1>1 DEF TypeOK
  <2>2. with'[q] = with[q] \union {r}
    BY <1>2, <2>1
  <2>3. QED
    BY <1>1, <2>1, <2>2 DEF OverlapExplainsOutput
<1>11. QED
  BY <1>4, <1>9, <1>10

LEMMA ExecShared ==
  ASSUME TypeOK, SharedInv, NEW p \in Procs, Exec(p)
  PROVE  SharedInv'
<1> USE DEF SharedInv
<1>1. /\ UNCHANGED <<hand, with, out, left>> /\ hand \in [Procs -> Requests \union {None}]
      /\ pc[p] = "exec" /\ pc' = [pc EXCEPT ![p] = "run"] /\ pc \in [Procs -> Labels]
      /\ hand[p] # None /\ hand[p] \in Requests /\ captured \subseteq Procs
  BY DEF Exec, At, Goto, TypeOK
<1>2. InHand(Procs)' = InHand(Procs) /\ hand[p] \in InHand(Procs)
  BY <1>1 DEF InHand
<1>3. \A q \in Procs : pc'[q] \in Busy <=> pc[q] \in Busy
  BY <1>1 DEF Busy
<1>4. \A q \in Procs : pc'[q] = "remove" => pc[q] = "remove" /\ q # p
  BY <1>1
<1>5. CASE UNCHANGED <<outfile, writers, captured>>
  BY <1>1, <1>2, <1>3, <1>4, <1>5 DEF FileInv, AloneInv, OverlapExplainsOutput, Undisturbed
<1>6. CASE /\ outfile' = {hand[p]} /\ writers' = writers \union {hand[p]}
           /\ captured' = captured \union {p}
  <2>1. outfile' # NoFile
    BY <1>1, <1>6 DEF NoFile
  <2>2. FileInv'
    BY <1>1, <1>2, <1>6, <2>1 DEF FileInv
  <2>3. \A q \in captured' : pc'[q] \in Busy
    BY <1>1, <1>3, <1>6 DEF AloneInv, Busy
  <2>4. ASSUME NEW q \in Procs, hand[q] # None, with[q] = {}
        PROVE  q = p /\ writers \subseteq {hand[p]}
    BY <1>1, <2>4 DEF AloneInv, Undisturbed
  <2>5. AloneInv'
    BY <1>1, <1>6, <2>3, <2>4 DEF AloneInv, Undisturbed
  <2>6. OverlapExplainsOutput'
    BY <1>1, <1>4, <1>6 DEF OverlapExplainsOutput
  <2>7. QED
    BY <2>2, <2>5, <2>6
<1>7. QED
  BY <1>5, <1>6 DEF Exec

LEMMA WritesShared ==
  ASSUME TypeOK, SharedInv, NEW r \in Requests, Writes(r)
  PROVE  SharedInv'
<1> USE DEF SharedInv
<1>1. /\ UNCHANGED <<hand, with, pc, writers, captured, out, left>>
      /\ outfile # NoFile /\ r \in writers /\ r # None
      /\ outfile' = outfile \union {r} /\ r \in InHand(Procs) \union left
  BY ServersAssumption DEF Writes, FileInv
<1>2. InHand(Procs)' = InHand(Procs)
  BY <1>1 DEF InHand
<1>3. FileInv'
  BY <1>1, <1>2 DEF FileInv, NoFile
<1>4. ASSUME NEW q \in Procs, hand[q] # None, with[q] = {}
      PROVE  r = hand[q] /\ q \in captured /\ outfile = {hand[q]}
  BY <1>1, <1>4 DEF AloneInv, Undisturbed
<1>5. AloneInv'
  BY <1>1, <1>4 DEF AloneInv, Undisturbed
<1>6. OverlapExplainsOutput'
  BY <1>1 DEF OverlapExplainsOutput
<1>7. QED
  BY <1>3, <1>5, <1>6

(* Who has the file open closes it.                                        *)
LEMMA ClosedShared ==
  ASSUME TypeOK, SharedInv, writers' \subseteq writers,
         UNCHANGED <<hand, with, outfile, captured, out, left>>,
         pc' = pc \/ \E p \in Procs : pc[p] = "run" /\ pc' = [pc EXCEPT ![p] = "read"]
  PROVE  SharedInv'
<1> USE DEF SharedInv
<1>1. \A q \in Procs : /\ pc[q] \in Busy => pc'[q] \in Busy
                       /\ pc'[q] = "remove" => pc[q] = "remove"
  BY DEF TypeOK, Busy
<1>2. captured \subseteq Procs
  BY DEF TypeOK
<1>3. InHand(Procs)' = InHand(Procs)
  BY DEF InHand
<1>4. FileInv'
  BY <1>3 DEF FileInv
<1>5. AloneInv'
  BY <1>1, <1>2 DEF AloneInv, Undisturbed
<1>6. OverlapExplainsOutput'
  BY <1>1 DEF OverlapExplainsOutput
<1>7. QED
  BY <1>4, <1>5, <1>6

LEMMA ReadShared ==
  ASSUME TypeOK, SharedInv, NEW p \in Procs, ReadOutput(p)
  PROVE  SharedInv'
<1> USE DEF SharedInv
<1>1. /\ UNCHANGED <<hand, with, outfile, writers, captured, left>>
      /\ out' = [out EXCEPT ![p] = outfile] /\ DOMAIN out = Procs
      /\ pc[p] = "read" /\ pc' = [pc EXCEPT ![p] = "remove"] /\ pc \in [Procs -> Labels]
      /\ hand[p] # None /\ captured \subseteq Procs
  BY DEF ReadOutput, At, Goto, TypeOK
<1>2. FileInv'
  BY <1>1 DEF FileInv, InHand
<1>3. AloneInv'
  BY <1>1 DEF AloneInv, Undisturbed, Busy
<1>4. InHand(Procs) \union left \subseteq {hand[p]} \union with[p]
  BY <1>1 DEF InHand, AloneInv
<1>5. OverlapExplainsOutput'
  <2>1. \A q \in Procs \ {p} : pc'[q] = "remove" => pc[q] = "remove" /\ out'[q] = out[q]
    BY <1>1
  <2>2. /\ out'[p] \ NoFile \subseteq {hand[p]} \union with[p]
        /\ with[p] = {} => out'[p] = IF p \in captured THEN {hand[p]} ELSE NoFile
    BY <1>1, <1>4 DEF FileInv, AloneInv, Undisturbed
  <2>3. QED
    BY <1>1, <2>1, <2>2 DEF OverlapExplainsOutput
<1>6. QED
  BY <1>2, <1>3, <1>5

(* A server lets go of its request: with the file, or in a crash.          *)
LEMMA DropShared ==
  ASSUME TypeOK, SharedInv, NEW p \in Procs, HandsFree(p), NEW l \in Labels \ Busy,
         pc' = [pc EXCEPT ![p] = l],
         \/ outfile' = NoFile /\ writers' = {} /\ left' = {} /\ hand[p] # None
         \/ UNCHANGED <<outfile, writers>> /\ left' = left \union ({hand[p]} \ {None})
  PROVE  SharedInv'
<1> USE DEF SharedInv
<1>1. /\ hand' = [hand EXCEPT ![p] = None] /\ hand \in [Procs -> Requests \union {None}]
      /\ with' = [with EXCEPT ![p] = {}] /\ with \in [Procs -> SUBSET Requests]
      /\ out' = [out EXCEPT ![p] = NoFile] /\ DOMAIN out = Procs
      /\ captured' = captured \ {p} /\ captured \subseteq Procs /\ pc \in [Procs -> Labels]
  BY DEF HandsFree, TypeOK
<1>2. InHand(Procs) \subseteq InHand(Procs)' \union {hand[p]}
  BY <1>1 DEF InHand
<1>3. FileInv'
  <2>1. CASE outfile' = NoFile /\ writers' = {}
    BY <2>1 DEF FileInv, NoFile
  <2>2. CASE UNCHANGED <<outfile, writers>> /\ left' = left \union ({hand[p]} \ {None})
    <3>1. InHand(Procs) \union left \subseteq InHand(Procs)' \union left'
      BY <1>1, <2>2 DEF InHand
    <3>2. QED
      BY <2>2, <3>1 DEF FileInv
  <2>3. QED
    BY <2>1, <2>2
<1>4. \A q \in captured' : pc'[q] \in Busy
  BY <1>1 DEF AloneInv
<1>5. \A q, s \in Procs : q # s /\ hand'[q] # None /\ hand'[s] # None => hand'[s] \in with'[q]
  BY <1>1 DEF AloneInv
<1>6. \A q \in Procs : hand'[q] # None => q # p /\ hand[q] # None /\ with'[q] = with[q]
  BY <1>1
<1>7. \A q \in Procs : hand'[q] # None => left' \subseteq with'[q]
  BY <1>1, <1>6 DEF AloneInv
<1>8. ASSUME NEW q \in Procs, hand'[q] # None, with'[q] = {}
      PROVE  Undisturbed(q)'
  <2>1. q # p /\ hand[q] # None /\ with[q] = {}
    BY <1>6, <1>8
  <2>2. hand[p] = None
    BY <2>1 DEF AloneInv
  <2>3. UNCHANGED <<outfile, writers>> /\ Undisturbed(q)
    BY <2>1, <2>2 DEF AloneInv
  <2>4. (q \in captured' <=> q \in captured) /\ hand'[q] = hand[q]
    BY <1>1, <2>1
  <2>5. QED
    BY <2>3, <2>4 DEF Undisturbed
<1>9. AloneInv'
  BY <1>4, <1>5, <1>7, <1>8 DEF AloneInv
<1>10. OverlapExplainsOutput'
  <2>1. \A q \in Procs : pc'[q] = "remove" =>
          /\ pc[q] = "remove" /\ out'[q] = out[q] /\ hand'[q] = hand[q]
          /\ with'[q] = with[q] /\ (q \in captured' <=> q \in captured)
    BY <1>1 DEF Busy
  <2>2. QED
    BY <2>1 DEF OverlapExplainsOutput
<1>11. QED
  BY <1>3, <1>9, <1>10

LEMMA SharedKept ==
  ASSUME TypeOK, SharedInv, [Next]_vars
  PROVE  SharedInv'
<1>1. CASE UNCHANGED <<pc, fileVars>>
  BY <1>1 DEF SharedInv, FileInv, AloneInv, OverlapExplainsOutput, Undisturbed, fileVars, InHand
<1>2. CASE Time
  BY <1>1, <1>2 DEF Time
<1>3. CASE UNCHANGED vars
  BY <1>1, <1>3 DEF vars
<1>4. ASSUME NEW p \in Procs, Moves(p)
      PROVE  SharedInv'
  BY <1>4, MovesHand, HandKept
<1>5. ASSUME NEW p \in Procs, CommandEnds(p)
      PROVE  SharedInv'
  <2>1. /\ writers' \subseteq writers /\ UNCHANGED <<hand, with, outfile, captured, out, left>>
        /\ pc[p] = "run" /\ pc' = [pc EXCEPT ![p] = "read"]
    BY <1>5 DEF CommandEnds, At, Goto
  <2>2. QED
    BY <2>1, ClosedShared
<1>6. ASSUME NEW p \in Procs, NEW r \in Requests, JobEnds(p, r)
      PROVE  SharedInv'
  <2>1. /\ writers' \subseteq writers /\ UNCHANGED <<pc, hand, with, outfile, captured, out, left>>
    BY <1>6 DEF JobEnds
  <2>2. QED
    BY <2>1, ClosedShared
<1>7. ASSUME NEW p \in Procs, RemoveFiles(p)
      PROVE  SharedInv'
  <2>1. /\ HandsFree(p) /\ pc' = [pc EXCEPT ![p] = "loop"] /\ hand[p] # None
        /\ outfile' = NoFile /\ writers' = {} /\ left' = {}
    BY <1>7 DEF RemoveFiles, At, Goto, TypeOK
  <2>2. "loop" \in Labels \ Busy
    BY DEF Labels, Busy
  <2>3. QED
    BY <2>1, <2>2, DropShared
<1>8. ASSUME NEW p \in Procs, Crash(p)
      PROVE  SharedInv'
  <2>1. /\ HandsFree(p) /\ pc' = [pc EXCEPT ![p] = "dead"]
        /\ UNCHANGED <<outfile, writers>> /\ left' = left \union ({hand[p]} \ {None})
    BY <1>8 DEF Crash, Goto
  <2>2. "dead" \in Labels \ Busy
    BY DEF Labels, Busy
  <2>3. QED
    BY <2>1, <2>2, DropShared
<1>9. QED
  BY <1>2, <1>3, <1>4, <1>5, <1>6, <1>7, <1>8, ExecShared, WritesShared, ReadShared, TakeShared
     DEF Next, ServerStep, Moves

LEMMA SpinKept ==
  ASSUME TypeOK, SpinInv, [Next]_vars
  PROVE  SpinInv'
<1> USE DEF At, Goto, Socket, Works, Busy
<1>0. /\ pc \in [Procs -> Labels] /\ sock \in [Procs -> {"none", "open", "bound", "listening"}]
      /\ won \subseteq Procs
  BY DEF TypeOK
<1>1. CASE UNCHANGED <<mode, pc, sock, won>>
  BY <1>1 DEF SpinInv
<1>2. CASE Time \/ UNCHANGED vars
  BY <1>1, <1>2 DEF Time, vars
<1>3. ASSUME \/ \E p \in Procs : Logging(p) \/ handle_signal(p)
             \/ \E r \in Requests : Writes(r)
      PROVE  SpinInv'
  BY <1>1, <1>3 DEF Writes, Logging, handle_signal
<1>4. ASSUME NEW p \in Procs, UNCHANGED <<mode, sock, won>>, NEW l \in Labels \ {"listen"},
             pc' = [pc EXCEPT ![p] = l],
             pc[p] \in {"loop", "accept"} \union Busy \/ l \in {"socket", "end"}
      PROVE  SpinInv'
  BY <1>0, <1>4 DEF SpinInv
<1>5. ASSUME NEW p \in Procs, \/ Exec(p) \/ CommandEnds(p) \/ ReadOutput(p) \/ RemoveFiles(p)
                              \/ AcceptFails(p) \/ \E r \in Requests : Take(p, r)
      PROVE  SpinInv'
  <2>1. PICK l \in {"run", "read", "remove", "loop", "exec"} : pc' = [pc EXCEPT ![p] = l]
    BY <1>5 DEF Exec, CommandEnds, ReadOutput, RemoveFiles, AcceptFails, Take
  <2>2. UNCHANGED <<mode, sock, won>> /\ pc[p] \in {"accept"} \union Busy
    BY <1>5 DEF Exec, CommandEnds, ReadOutput, RemoveFiles, AcceptFails, Take
  <2>3. QED
    BY <1>4, <2>1, <2>2 DEF Labels
<1>6. ASSUME NEW p \in Procs, Start(p)
      PROVE  SpinInv'
  <2>1. pc' = [pc EXCEPT ![p] = "socket"] /\ UNCHANGED <<mode, sock, won>>
    BY <1>6 DEF Start
  <2>2. QED
    BY <1>4, <2>1 DEF Labels
<1>7. ASSUME NEW p \in Procs, Prepare(p) \/ Bind(p)
      PROVE  SpinInv'
  <2>1. PICK l \in {"bind", "listen", "end"}, k \in {"none", "open", "bound"} :
           /\ pc' = [pc EXCEPT ![p] = l] /\ sock' = [sock EXCEPT ![p] = k]
           /\ l = "listen" => k = "bound"
    <3>1. sock[p] \in {"none", "open"} /\ sock = [sock EXCEPT ![p] = sock[p]]
      BY <1>0, <1>7 DEF Prepare, Bind, TypeOK, Gone
    <3>2. CASE Prepare(p)
      BY <3>1, <3>2 DEF Prepare
    <3>3. CASE Bind(p)
      BY <3>3 DEF Bind
    <3>4. QED
      BY <1>7, <3>2, <3>3
  <2>2. UNCHANGED <<mode, won>>
    BY <1>7 DEF Prepare, Bind
  <2>3. QED
    BY <1>0, <2>1, <2>2 DEF SpinInv
<1>8. ASSUME NEW p \in Procs, Listen(p)
      PROVE  SpinInv'
  <2>1. /\ pc' = [pc EXCEPT ![p] = "loop"] /\ mode' = mode /\ sock[p] = "bound"
        /\ pc[p] = "listen"
    BY <1>8 DEF Listen, SpinInv
  <2>2. CASE UNCHANGED <<sock, won>> /\ (mode[p] = "dgram" \/ PortTaken(p))
    <3>1. PortTaken(p) => \E q \in Procs \ {p} : q \in won
      BY DEF PortTaken, SpinInv
    <3>2. mode[p] # "stream" \/ \E q \in Procs \ {p} : q \in won
      BY <2>2, <3>1
    <3>3. QED
      BY <1>0, <2>1, <2>2, <3>2 DEF SpinInv
  <2>3. CASE sock' = [sock EXCEPT ![p] = "listening"] /\ won' = won \union {p} /\ mode[p] # "dgram"
    <3>1. mode[p] = "stream"
      BY <2>3, ServersAssumption DEF TypeOK
    <3>2. QED
      BY <1>0, <2>1, <2>3, <3>1 DEF SpinInv
  <2>4. QED
    BY <1>8, <2>2, <2>3 DEF Listen
(* A server that is gone keeps its socket or loses it.                     *)
<1>9. ASSUME NEW p \in Procs, UNCHANGED <<mode, won>>, NEW l \in Gone, pc' = [pc EXCEPT ![p] = l],
             NEW J, Closes(p, J) \/ UNCHANGED sock
      PROVE  SpinInv'
  <2>1. /\ \A q \in Procs \ {p} : sock'[q] = sock[q] /\ pc'[q] = pc[q]
        /\ sock'[p] \in {sock[p], "none"} /\ pc'[p] = l
    BY <1>0, <1>9 DEF Closes
  <2>2. QED
    BY <1>0, <1>9, <2>1 DEF SpinInv, Gone
<1>10. ASSUME NEW p \in Procs, Loop(p)
       PROVE  SpinInv'
  <2>1. CASE pc' = [pc EXCEPT ![p] = "accept"] /\ UNCHANGED <<mode, sock, won>> /\ pc[p] = "loop"
    BY <1>4, <2>1 DEF Labels
  <2>2. CASE pc' = [pc EXCEPT ![p] = "end"] /\ Closes(p, jobs) /\ UNCHANGED <<mode, won>>
    BY <1>9, <2>2 DEF Gone
  <2>3. QED
    BY <1>10, <2>1, <2>2 DEF Loop
<1>11. ASSUME NEW p \in Procs, Crash(p)
       PROVE  SpinInv'
  <2>1. pc' = [pc EXCEPT ![p] = "dead"] /\ Closes(p, jobs') /\ UNCHANGED <<mode, won>>
    BY <1>11 DEF Crash
  <2>2. QED
    BY <1>9, <2>1 DEF Gone
<1>12. ASSUME NEW p \in Procs, NEW r \in Requests, JobEnds(p, r)
       PROVE  SpinInv'
  <2>1. UNCHANGED <<mode, pc, won>> /\ pc = [pc EXCEPT ![p] = pc[p]]
    BY <1>0, <1>12 DEF JobEnds
  <2>2. CASE UNCHANGED sock
    BY <1>1, <2>1, <2>2
  <2>3. CASE pc[p] \in Gone /\ Closes(p, jobs')
    BY <1>9, <2>1, <2>3
  <2>4. QED
    BY <1>12, <2>2, <2>3 DEF JobEnds
<1>13. QED
  BY <1>2, <1>3, <1>5, <1>6, <1>7, <1>8, <1>10, <1>11, <1>12 DEF Next, ServerStep

-----------------------------------------------------------------------------
LEMMA Invariance == Spec => []IInv
<1>1. IInv /\ [Next]_vars => IInv'
  <2> SUFFICES ASSUME IInv, [Next]_vars PROVE IInv'
    OBVIOUS
  <2>1. TypeOK /\ FileInv /\ SharedInv /\ LogInv /\ SpinInv /\ SysLogTypeOK
    BY DEF IInv, TypeOK, SharedInv
  <2>2. SysLogTypeOK' /\ LogInv'
    BY <2>1, LogKept
  <2>3. TypeOK'
    BY <2>1, <2>2, TypeKept
  <2>4. SharedInv'
    BY <2>1, SharedKept
  <2>5. SpinInv'
    BY <2>1, SpinKept
  <2>6. QED
    BY <2>2, <2>3, <2>4, <2>5 DEF IInv, SharedInv
<1>2. QED
  BY <1>1, Begins, PTL DEF Spec

(* The types, and which socket and which request a server has where.       *)
THEOREM TypesKept == Spec => []TypeOK
<1>1. IInv => TypeOK
  BY DEF IInv
<1>2. QED
  BY <1>1, Invariance, PTL

(* A stream server that is past listen and does not listen left the port   *)
(* to another.                                                             *)
THEOREM SpinnerLostToAnother == Spec => []SpinnerHadWinner
<1>1. IInv => SpinnerHadWinner
  BY DEF IInv, SpinInv, SpinnerHadWinner
<1>2. QED
  BY <1>1, Invariance, PTL

(* What a server has read from the output file is the output of its own    *)
(* request, or of those handled in the meantime or left by a crash since   *)
(* the file was last removed; without such, it is exactly its own.         *)
THEOREM OutputExplained == Spec => []OverlapExplainsOutput
<1>1. IInv => OverlapExplainsOutput
  BY DEF IInv
<1>2. QED
  BY <1>1, Invariance, PTL

-----------------------------------------------------------------------------
(* What the log says of each server.  For the induction: of a call that is *)
(* under way, the line fits the lines before.                              *)
Coming(p) ==
  LET m == call[p].msg
  IN  \/ m = Starting /\ pc[p] = "socket" /\ LinesOf(p) = {}
      \/ m \in {NoSocket, NoOption, NoBind} /\ pc[p] = "end" /\ Started(LinesOf(p))
      \/ m = Listens /\ pc[p] = "loop" /\ Started(LinesOf(p))
      \/ m = NoAccept /\ pc[p] = "loop" /\ Serves(LinesOf(p))
      \/ m = Stopped /\ pc[p] = "end" /\ Serves(LinesOf(p))

StoryOf(p) ==
  p \notin lost =>
    /\ Returned(p) => Story(p)
    /\ ~Returned(p) => Coming(p)

StoryInv == \A p \in Procs : StoryOf(p)

(* What is in the log says the same as long as nothing is added.           *)
LEMMA SameLog ==
  ASSUME log' = log, NEW p \in Procs
  PROVE  /\ LinesOf(p)' = LinesOf(p)
         /\ Started(LinesOf(p))' <=> Started(LinesOf(p))
         /\ GaveUp(LinesOf(p))' <=> GaveUp(LinesOf(p))
         /\ Serves(LinesOf(p))' <=> Serves(LinesOf(p))
         /\ Ended(LinesOf(p))' <=> Ended(LinesOf(p))
<1>1. LinesOf(p)' = LinesOf(p)
  BY DEF LinesOf
<1> DEFINE ls == LinesOf(p)
<1>2. Started(LinesOf(p))' <=> Started(LinesOf(p))
  BY <1>1 DEF Started
<1>3. GaveUp(LinesOf(p))' <=> GaveUp(LinesOf(p))
  BY <1>1 DEF GaveUp, Started, LastOf
<1>4. Serves(LinesOf(p))' <=> Serves(LinesOf(p))
  BY <1>1 DEF Serves, Started
<1>5. Ended(LinesOf(p))' <=> Ended(LinesOf(p))
  BY <1>1 DEF Ended, Serves, Started, LastOf
<1>6. QED
  BY <1>1, <1>2, <1>3, <1>4, <1>5

Serving == {"loop", "accept"} \union Busy

(* Between calls.                                                          *)
LEMMA StoryStays ==
  ASSUME TypeOK, NEW p \in Procs, StoryOf(p), log' = log, call'[p] = call[p],
         p \in lost => p \in lost',
         \/ pc'[p] = pc[p]
         \/ Returned(p) /\ pc[p] \in Serving /\ pc'[p] \in Serving
         \/ Returned(p) /\ pc[p] \in {"socket", "bind"} /\ pc'[p] \in {"bind", "listen"}
         \/ Returned(p) /\ pc[p] \notin {"off"} \union Gone /\ pc'[p] = "dead"
  PROVE  StoryOf(p)'
<1>1. SUFFICES ASSUME p \notin lost
               PROVE  /\ Returned(p)' => Story(p)'
                      /\ ~Returned(p)' => Coming(p)'
  BY DEF StoryOf
<1>2. /\ Returned(p) => Story(p)
      /\ ~Returned(p) => Coming(p)
  BY <1>1 DEF StoryOf
<1>3. Returned(p)' <=> Returned(p)
  BY DEF Returned
<1>4. CASE Returned(p)
  <2>1. pc[p] \in Labels
    BY DEF TypeOK
  <2>2. Story(p)'
    BY <1>2, <1>4, <2>1, SameLog DEF Story, Serving, Busy, Labels, Gone
  <2>3. QED
    BY <1>3, <1>4, <2>2
<1>5. CASE ~Returned(p)
  <2>1. Coming(p)'
    BY <1>2, <1>5, SameLog DEF Coming
  <2>2. QED
    BY <1>3, <1>5, <2>1
<1>6. QED
  BY <1>4, <1>5

(* A call begins.                                                          *)
LEMMA StoryCall ==
  ASSUME TypeOK, NEW p \in Procs, StoryOf(p), Returned(p),
         NEW m \in {Starting, NoSocket, NoOption, NoBind, Listens, NoAccept, Stopped},
         mysyslog(p, m),
         \/ m = Starting /\ pc[p] = "off" /\ pc'[p] = "socket"
         \/ /\ m \in {NoSocket, NoOption, NoBind}
            /\ pc[p] \in {"socket", "bind"} /\ pc'[p] = "end"
         \/ m = Listens /\ pc[p] = "listen" /\ pc'[p] = "loop"
         \/ m = NoAccept /\ pc[p] = "accept" /\ pc'[p] = "loop"
         \/ m = Stopped /\ pc[p] = "loop" /\ pc'[p] = "end"
  PROVE  StoryOf(p)'
<1>1. log' = log /\ lost' = lost /\ call'[p].msg = m
  BY DEF mysyslog, TypeOK, SysLogTypeOK
<1>2. ~Returned(p)'
  <2>1. m # "none"
    BY DEF Starting, NoSocket, NoOption, NoBind, Listens, NoAccept, Stopped
  <2>2. NoCall.msg = "none"
    BY DEF NoCall
  <2>3. QED
    BY <1>1, <2>1, <2>2 DEF Returned
<1>3. SUFFICES ASSUME p \notin lost PROVE Coming(p)'
  BY <1>1, <1>2 DEF StoryOf
<1>4. Story(p)
  BY <1>3 DEF StoryOf
<1>5. QED
  BY <1>1, <1>4, SameLog
     DEF Coming, Story, Starting, NoSocket, NoOption, NoBind, Listens, NoAccept, Stopped

(* A line is written: for others nothing changes; for its server it goes   *)
(* on as the call has it.                                                  *)
LEMMA LineAdded ==
  ASSUME SysLogTypeOK, NEW p \in Procs, WriteLine(p)
  PROVE  /\ call[p] \in Call /\ Len(log) + 1 \in Nat
         /\ LinesOf(p)' = LinesOf(p) \union {Len(log) + 1}
         /\ \A q \in Procs \ {p} : LinesOf(q)' = LinesOf(q) /\ call'[q] = call[q]
         /\ \A q \in Procs : \A i \in LinesOf(q) :
              i \in Nat /\ i < Len(log) + 1 /\ log'[i] = log[i]
         /\ log'[Len(log) + 1].msg = call[p].msg
         /\ call'[p] = NoCall /\ lost' = lost
<1> DEFINE line == [by |-> p, msg |-> call[p].msg, time |-> call[p].time,
                    after |-> call[p].after]
           n == Len(log) + 1
<1>1. /\ log' = Append(log, line) /\ call' = [call EXCEPT ![p] = NoCall] /\ lost' = lost
      /\ call[p] # NoCall
  BY DEF WriteLine, Returned
<1>2. /\ log \in Seq(Line) /\ Len(log) \in Nat /\ DOMAIN log = 1 .. Len(log)
      /\ call \in [Procs -> Call \union {NoCall}]
  BY DEF SysLogTypeOK
<1>3. call[p] \in Call
  BY <1>1, <1>2
<1>4. line \in Line /\ line.by = p /\ line.msg = call[p].msg
  BY <1>3 DEF Call, Line
<1> HIDE DEF line
<1>5. /\ DOMAIN log' = 1 .. n /\ log'[n] = line
      /\ \A i \in 1 .. Len(log) : log'[i] = log[i]
  BY <1>1, <1>2, <1>4
<1>6. \A q \in Procs : \A i \in LinesOf(q) : i \in Nat /\ i < n /\ log'[i] = log[i]
  BY <1>2, <1>5 DEF LinesOf
<1>7. LinesOf(p)' = LinesOf(p) \union {n}
  BY <1>2, <1>4, <1>5 DEF LinesOf
<1>8. \A q \in Procs \ {p} : LinesOf(q)' = LinesOf(q)
  BY <1>2, <1>4, <1>5 DEF LinesOf
<1>9. n \in Nat /\ call'[p] = NoCall /\ \A q \in Procs \ {p} : call'[q] = call[q]
  BY <1>1, <1>2
<1>10. log'[n].msg = call[p].msg
  BY <1>4, <1>5
<1>11. QED
  BY <1>1, <1>3, <1>6, <1>7, <1>8, <1>9, <1>10

LEMMA StoryWritten ==
  ASSUME TypeOK, NEW p \in Procs, WriteLine(p), pc' = pc,
         \A q \in Procs : StoryOf(q), NEW q \in Procs
  PROVE  StoryOf(q)'
<1>0. PICK ls, n, m : ls = LinesOf(p) /\ n = Len(log) + 1 /\ m = call[p].msg
  OBVIOUS
<1>1. /\ n \in Nat /\ LinesOf(p)' = ls \union {n} /\ log'[n].msg = m
      /\ \A i \in ls : i \in Nat /\ i < n /\ log'[i] = log[i]
      /\ Returned(p)' /\ lost' = lost /\ ~Returned(p)
  BY <1>0, LineAdded DEF TypeOK, Returned, WriteLine
<1>2. CASE q # p
  <2>1. /\ LinesOf(q)' = LinesOf(q) /\ call'[q] = call[q]
        /\ \A i \in LinesOf(q) : log'[i] = log[i]
    BY <1>2, LineAdded DEF TypeOK
  <2>2. Started(LinesOf(q))' <=> Started(LinesOf(q))
    BY <2>1 DEF Started
  <2>3. GaveUp(LinesOf(q))' <=> GaveUp(LinesOf(q))
    BY <2>1 DEF GaveUp, Started, LastOf
  <2>4. Serves(LinesOf(q))' <=> Serves(LinesOf(q))
    BY <2>1 DEF Serves, Started
  <2>5. Ended(LinesOf(q))' <=> Ended(LinesOf(q))
    BY <2>1 DEF Ended, Serves, Started, LastOf
  <2>7. Returned(q)' <=> Returned(q)
    BY <2>1 DEF Returned
  <2>8. Story(q)' <=> Story(q)
    BY <2>1, <2>2, <2>3, <2>4, <2>5 DEF Story
  <2>9. Coming(q)' <=> Coming(q)
    BY <2>1, <2>2, <2>4 DEF Coming
  <2>10. QED
    BY <1>1, <2>7, <2>8, <2>9 DEF StoryOf
<1>3. CASE q = p
  <2>1. SUFFICES ASSUME p \notin lost
                 PROVE  Story(p)'
    BY <1>1, <1>3 DEF StoryOf
  <2>2. Coming(p)
    BY <1>1, <2>1 DEF StoryOf
  <2>3. PICK new : new = ls \union {n}
    OBVIOUS
  <2>4. LinesOf(p)' = new /\ n \in new /\ LastOf(n, new) /\ new \ {n} = ls
    BY <1>1, <2>3 DEF LastOf
  <2>5. Started(ls) => Started(ls)'
    BY <1>1 DEF Started
  <2>6. Serves(ls) => Serves(ls)'
    <3>1. SUFFICES ASSUME NEW b \in ls, log[b].msg = Listens, Started({i \in ls : i < b}),
                          \A i \in ls : b < i => log[i].msg = NoAccept
                   PROVE  Serves(ls)'
      BY DEF Serves
    <3>2. PICK a \in {i \in ls : i < b} : {i \in ls : i < b} = {a} /\ log[a].msg = Starting
      BY <3>1 DEF Started
    <3>3. Started({i \in ls : i < b})'
      BY <1>1, <3>2 DEF Started
    <3>4. QED
      BY <1>1, <3>1, <3>3 DEF Serves
  <2>7. CASE m = Starting /\ pc[p] = "socket" /\ ls = {}
    <3>1. Started(new)'
      BY <1>1, <2>3, <2>4, <2>7 DEF Started
    <3>2. QED
      BY <2>4, <2>7, <3>1 DEF Story
  <2>8. CASE m \in {NoSocket, NoOption, NoBind} /\ pc[p] = "end" /\ Started(ls)
    <3>1. GaveUp(new)'
      BY <1>1, <2>4, <2>5, <2>8 DEF GaveUp, LastOf
    <3>2. QED
      BY <2>4, <2>8, <3>1 DEF Story
  <2>9. CASE m = Listens /\ pc[p] = "loop" /\ Started(ls)
    <3>1. {i \in new : i < n} = ls /\ \A i \in new : ~(n < i)
      BY <1>1, <2>3
    <3>2. Serves(new)'
      BY <1>1, <2>4, <2>5, <2>9, <3>1 DEF Serves
    <3>3. QED
      BY <2>4, <2>9, <3>2 DEF Story
  <2>10. CASE m = NoAccept /\ pc[p] = "loop" /\ Serves(ls)
    <3>1. PICK b \in ls : /\ log[b].msg = Listens /\ Started({i \in ls : i < b})
                          /\ \A i \in ls : b < i => log[i].msg = NoAccept
      BY <2>10 DEF Serves
    <3>2. {i \in new : i < b} = {i \in ls : i < b}
      BY <1>1, <2>3
    <3>3. PICK a \in {i \in ls : i < b} : {i \in ls : i < b} = {a} /\ log[a].msg = Starting
      BY <3>1 DEF Started
    <3>4. Started({i \in new : i < b})'
      BY <1>1, <3>2, <3>3 DEF Started
    <3>5. \A i \in new : b < i => log'[i].msg = NoAccept
      BY <1>1, <2>3, <2>10, <3>1
    <3>6. Serves(new)'
      BY <1>1, <2>3, <3>1, <3>4, <3>5 DEF Serves
    <3>7. QED
      BY <2>4, <2>10, <3>6 DEF Story
  <2>11. CASE m = Stopped /\ pc[p] = "end" /\ Serves(ls)
    <3>1. Ended(new)'
      BY <1>1, <2>4, <2>6, <2>11 DEF Ended, LastOf
    <3>2. QED
      BY <2>4, <2>11, <3>1 DEF Story
  <2>12. QED
    BY <1>0, <2>2, <2>7, <2>8, <2>9, <2>10, <2>11 DEF Coming
<1>4. QED
  BY <1>2, <1>3

LEMMA StoryKept ==
  TypeOK /\ StoryInv /\ [Next]_vars => StoryInv'
<1> SUFFICES ASSUME TypeOK, StoryInv, [Next]_vars PROVE StoryInv'
  OBVIOUS
<1>1. /\ pc \in [Procs -> Labels] /\ call \in [Procs -> Call \union {NoCall}]
      /\ \A q \in Procs : StoryOf(q)
  BY DEF TypeOK, SysLogTypeOK, StoryInv
<1>2. ASSUME UNCHANGED <<pc, log, call, lost>>
      PROVE  StoryInv'
  BY <1>1, <1>2, StoryStays DEF StoryInv
<1>3. CASE Time \/ UNCHANGED vars
  <2>1. UNCHANGED <<pc, log, call, lost>>
    BY <1>3 DEF Time, Tick, vars, logVars
  <2>2. QED
    BY <1>2, <2>1
<1>4. ASSUME NEW r \in Requests, \/ Writes(r)
                                \/ \E p \in Procs : handle_signal(p) \/ JobEnds(p, r)
      PROVE  StoryInv'
  <2>1. UNCHANGED <<pc, log, call, lost>>
    BY <1>4 DEF Writes, handle_signal, JobEnds, Silent, logVars
  <2>2. QED
    BY <1>2, <2>1
<1>5. ASSUME NEW p \in Procs, Logging(p)
      PROVE  StoryInv'
  <2>1. UNCHANGED pc
    BY <1>5 DEF Logging
  <2>2. CASE WriteLine(p)
    BY <1>1, <2>1, <2>2, StoryWritten DEF StoryInv
  <2>3. CASE LosesLine(p)
    <3>1. /\ log' = log /\ lost' = lost \union {p}
          /\ \A q \in Procs \ {p} : call'[q] = call[q]
      BY <1>1, <2>3 DEF LosesLine
    <3>2. StoryOf(p)'
      BY <3>1 DEF StoryOf
    <3>3. \A q \in Procs \ {p} : StoryOf(q)'
      BY <1>1, <2>1, <3>1, StoryStays
    <3>4. QED
      BY <3>2, <3>3 DEF StoryInv
  <2>4. QED
    BY <1>5, <2>2, <2>3 DEF Logging, LogStep
(* The others, whatever one server does.                                   *)
<1>6. ASSUME NEW p \in Procs, log' = log, lost \subseteq lost',
             \A q \in Procs \ {p} : pc'[q] = pc[q] /\ call'[q] = call[q],
             StoryOf(p)'
      PROVE  StoryInv'
  <2>1. \A q \in Procs \ {p} : StoryOf(q)'
    BY <1>1, <1>6, StoryStays
  <2>2. QED
    BY <1>6, <2>1 DEF StoryInv
<1>7. ASSUME NEW p \in Procs, Returned(p), UNCHANGED <<log, call, lost>>,
             NEW l \in Labels, pc' = [pc EXCEPT ![p] = l],
             \/ pc[p] \in Serving /\ l \in Serving
             \/ pc[p] \in {"socket", "bind"} /\ l \in {"bind", "listen"}
      PROVE  StoryInv'
  <2>1. StoryOf(p)'
    BY <1>1, <1>7, StoryStays
  <2>2. QED
    BY <1>1, <1>6, <1>7, <2>1
<1>8. ASSUME NEW p \in Procs, Returned(p),
             NEW m \in {Starting, NoSocket, NoOption, NoBind, Listens, NoAccept, Stopped},
             mysyslog(p, m), NEW l \in Labels, pc' = [pc EXCEPT ![p] = l],
             \/ m = Starting /\ pc[p] = "off" /\ l = "socket"
             \/ m \in {NoSocket, NoOption, NoBind} /\ pc[p] \in {"socket", "bind"} /\ l = "end"
             \/ m = Listens /\ pc[p] = "listen" /\ l = "loop"
             \/ m = NoAccept /\ pc[p] = "accept" /\ l = "loop"
             \/ m = Stopped /\ pc[p] = "loop" /\ l = "end"
      PROVE  StoryInv'
  <2>1. /\ log' = log /\ lost' = lost
        /\ \A q \in Procs \ {p} : pc'[q] = pc[q] /\ call'[q] = call[q]
        /\ pc'[p] = l
    BY <1>1, <1>8 DEF mysyslog
  <2>3. StoryOf(p)'
    BY <1>1, <1>8, <2>1, StoryCall
  <2>4. QED
    BY <1>6, <2>1, <2>3
<1> USE DEF At, Goto, Silent, logVars, Labels
<1>9. ASSUME NEW p \in Procs, Start(p)
      PROVE  StoryInv'
  BY <1>8, <1>9 DEF Start
<1>10. ASSUME NEW p \in Procs, Prepare(p)
       PROVE  StoryInv'
  <2>1. pc[p] = "socket" /\ Returned(p)
    BY <1>10 DEF Prepare
  <2>2. CASE pc' = [pc EXCEPT ![p] = "bind"] /\ UNCHANGED <<log, call, lost>>
    BY <1>7, <2>1, <2>2
  <2>3. CASE pc' = [pc EXCEPT ![p] = "end"] /\ \E e \in {NoSocket, NoOption} : mysyslog(p, e)
    BY <1>8, <2>1, <2>3
  <2>4. QED
    BY <1>10, <2>2, <2>3 DEF Prepare
<1>11. ASSUME NEW p \in Procs, Bind(p)
       PROVE  StoryInv'
  <2>1. pc[p] = "bind" /\ Returned(p)
    BY <1>11 DEF Bind
  <2>2. CASE pc' = [pc EXCEPT ![p] = "listen"] /\ UNCHANGED <<log, call, lost>>
    BY <1>7, <2>1, <2>2
  <2>3. CASE pc' = [pc EXCEPT ![p] = "end"] /\ mysyslog(p, NoBind)
    BY <1>8, <2>1, <2>3
  <2>4. QED
    BY <1>11, <2>2, <2>3 DEF Bind
<1>12. ASSUME NEW p \in Procs, Listen(p)
       PROVE  StoryInv'
  <2>1. /\ pc[p] = "listen" /\ Returned(p) /\ mysyslog(p, Listens)
        /\ pc' = [pc EXCEPT ![p] = "loop"]
    BY <1>12 DEF Listen
  <2>2. QED
    BY <1>8, <2>1
<1>13. ASSUME NEW p \in Procs, Loop(p)
       PROVE  StoryInv'
  <2>1. pc[p] = "loop" /\ Returned(p)
    BY <1>13 DEF Loop
  <2>2. CASE pc' = [pc EXCEPT ![p] = "accept"] /\ UNCHANGED <<log, call, lost>>
    BY <1>7, <2>1, <2>2 DEF Serving
  <2>3. CASE pc' = [pc EXCEPT ![p] = "end"] /\ mysyslog(p, Stopped)
    BY <1>8, <2>1, <2>3
  <2>4. QED
    BY <1>13, <2>2, <2>3 DEF Loop
<1>14. ASSUME NEW p \in Procs, AcceptFails(p)
       PROVE  StoryInv'
  <2>1. pc[p] = "accept" /\ Returned(p) /\ pc' = [pc EXCEPT ![p] = "loop"]
    BY <1>14 DEF AcceptFails
  <2>2. CASE mysyslog(p, NoAccept)
    BY <1>8, <2>1, <2>2
  <2>3. CASE UNCHANGED <<log, call, lost>>
    BY <1>7, <2>1, <2>3 DEF Serving
  <2>4. QED
    BY <1>14, <2>2, <2>3 DEF AcceptFails
<1>15. ASSUME NEW p \in Procs, \/ Exec(p) \/ CommandEnds(p) \/ ReadOutput(p) \/ RemoveFiles(p)
                               \/ \E r \in Requests : Take(p, r)
       PROVE  StoryInv'
  <2>1. /\ Returned(p) /\ UNCHANGED <<log, call, lost>> /\ pc[p] \in Serving
    BY <1>15 DEF Exec, CommandEnds, ReadOutput, RemoveFiles, Take, Serving, Busy
  <2>2. PICK l \in Serving : pc' = [pc EXCEPT ![p] = l]
    BY <1>15 DEF Exec, CommandEnds, ReadOutput, RemoveFiles, Take, Serving, Busy
  <2>3. l \in Labels
    BY <2>2 DEF Serving, Busy
  <2>4. QED
    BY <1>7, <2>1, <2>2, <2>3
<1>16. ASSUME NEW p \in Procs, Crash(p)
       PROVE  StoryInv'
  <2>1. /\ log' = log /\ lost \subseteq lost' /\ pc' = [pc EXCEPT ![p] = "dead"]
        /\ call' = [call EXCEPT ![p] = NoCall] /\ pc[p] \notin {"off"} \union Gone
        /\ Returned(p) \/ p \in lost'
    BY <1>16 DEF Crash, Abort
  <2>2. /\ pc'[p] = "dead" /\ call'[p] = NoCall
        /\ \A q \in Procs \ {p} : pc'[q] = pc[q] /\ call'[q] = call[q]
    BY <1>1, <2>1
  <2>3. CASE Returned(p)
    <3>1. call'[p] = call[p]
      BY <2>2, <2>3 DEF Returned
    <3>2. StoryOf(p)'
      BY <1>1, <2>1, <2>2, <2>3, <3>1, StoryStays
    <3>3. QED
      BY <1>6, <2>1, <2>2, <3>2
  <2>4. CASE p \in lost'
    <3>1. StoryOf(p)'
      BY <2>4 DEF StoryOf
    <3>2. QED
      BY <1>6, <2>1, <2>2, <3>1
  <2>5. QED
    BY <2>1, <2>3, <2>4
<1>17. CASE \E p \in Procs : handle_signal(p)
  <2>1. UNCHANGED <<pc, log, call, lost>>
    BY <1>17 DEF handle_signal
  <2>2. QED
    BY <1>2, <2>1
<1>18. QED
  BY <1>3, <1>4, <1>5, <1>9, <1>10, <1>11, <1>12, <1>13, <1>14, <1>15, <1>16, <1>17
     DEF Next, ServerStep

(* As long as none of its lines got lost, the log tells of each server how *)
(* far it came and how it ended, whatever the others write in between and  *)
(* whoever crashes (server.c:68-127, :252).                                *)
THEOREM LogTold == Spec => []LogTellsStory
<1>1. Init => StoryInv
  <2> SUFFICES ASSUME Init PROVE StoryInv
    OBVIOUS
  <2>1. \A p \in Procs : pc[p] = "off" /\ LinesOf(p) = {} /\ Returned(p)
    BY DEF Init, SysLogInit, LinesOf, Returned
  <2>2. QED
    BY <2>1 DEF Init, StoryInv, StoryOf, Story
<1>2. IInv /\ StoryInv /\ [Next]_vars => StoryInv'
  BY StoryKept DEF IInv
<1>3. StoryInv => LogTellsStory
  BY DEF StoryInv, StoryOf, LogTellsStory
<1>4. QED
  BY <1>1, <1>2, <1>3, Invariance, PTL DEF Spec
=============================================================================
