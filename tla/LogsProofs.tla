----------------------------- MODULE LogsProofs -----------------------------
(***************************************************************************)
(* Proofs of the safety properties of Logs, for any set of goroutines, any *)
(* number of launches, pipes and lines, and any buffer.  What Logs needs   *)
(* of Core is the invariant of module CoreProofs.                          *)
(***************************************************************************)
EXTENDS Logs, CoreProofs

(* A goroutine that holds a line has scanned one that the child wrote, and *)
(* only a launched child writes.                                           *)
LinesWritten == \A c \in Captures :
  /\ read[c] <= emitted[c]
  /\ os[c[1]] = "unborn" => emitted[c] = 0
  /\ cap[c] \in {"check", "send", "classify"} => read[c] >= 1

(* What waits of a pipe was written before the line its goroutine is about *)
(* to send.                                                                *)
QueueBehind == \A i \in DOMAIN logsChan :
  cap[logsChan[i][1]] \in {"check", "send"} => logsChan[i][2] < read[logsChan[i][1]]

(* A line is late once: its goroutine does not pass the check again.       *)
LateOnce == \A c \in Captures :
  late[c] = 0 \/ (late[c] = 1 /\ c[1] \in cancelled /\ cap[c] # "send")

(* Before the first launch and after a Stop, but never else, is there no   *)
(* logger.                                                                 *)
LoggerGiven == logger = "nil" => born = 0 \/ cancelled # {}

(* The inductive invariant: LateLinesBounded needs what the goroutine does *)
(* next, ChannelFaithful the line it holds, PanicNeedsStop when the logger *)
(* may be missing and that nobody holds a line before the first launch.    *)
LogsInv == /\ LogsTypeOK /\ IInv
           /\ LinesWritten /\ QueueBehind /\ LateOnce /\ LoggerGiven
           /\ ChannelFaithful /\ PanicNeedsStop

LEMMA InitLogsInv == LogsInit => LogsInv
<1> SUFFICES ASSUME LogsInit PROVE LogsInv
  OBVIOUS
<1>1. IInv
  BY InitIInv DEF LogsInit
<1>2. LogsTypeOK
  BY <1>1, LogsAssumption DEF LogsInit, LogsTypeOK, IInv
<1>3. LinesWritten /\ LateOnce
  BY DEF LogsInit, LinesWritten, LateOnce
<1>4. QueueBehind /\ ChannelFaithful
  BY LogsAssumption DEF LogsInit, QueueBehind, ChannelFaithful
<1>5. LoggerGiven
  BY DEF LogsInit, Init, LoggerGiven
<1>6. PanicNeedsStop
  BY DEF LogsInit, PanicNeedsStop, Crashed
<1> QED BY <1>1, <1>2, <1>3, <1>4, <1>5, <1>6 DEF LogsInv

-----------------------------------------------------------------------------
(* What the methods of Core, and the death of a child, may change of all   *)
(* that the goroutines rely on.                                            *)
LEMMA CoreStepFacts ==
  ASSUME IInv, LoggerGiven, [Next]_vars
  PROVE  /\ IInv'
         /\ LoggerGiven'
         /\ cancelled \subseteq cancelled'
         /\ \A p \in Procs : os'[p] = "unborn" => os[p] = "unborn"
<1>1. IInv'
  BY NextIInv
<1>2. ASSUME NEW t \in Threads, NEW from, NEW to,
             \/ Prepare(t, from, to) \/ PrepareFails(t, from, to)
             \/ LaunchRefused(t, from, to) \/ LaunchFails(t, from, to)
             \/ Launch(t, from, to) \/ StopCore(t, from, to)
      PROVE  /\ LoggerGiven' /\ cancelled \subseteq cancelled'
             /\ \A p \in Procs : os'[p] = "unborn" => os[p] = "unborn"
  <2>1. CASE Prepare(t, from, to) \/ PrepareFails(t, from, to) \/ LaunchRefused(t, from, to)
    BY <2>1 DEF Prepare, PrepareFails, LaunchRefused, LoggerGiven
  <2>2. CASE LaunchFails(t, from, to)
    BY <2>2 DEF LaunchFails, NewLogger, LoggerGiven
  <2>3. CASE Launch(t, from, to)
    <3>1. LoggerGiven' /\ cancelled' = cancelled
      BY <2>3 DEF Launch, NewLogger, LoggerGiven
    <3>2. \A p \in Procs : os'[p] = "unborn" => os[p] = "unborn"
      BY <2>3 DEF Launch, IInv, TypeOK
    <3> QED BY <3>1, <3>2
  <2>4. CASE StopCore(t, from, to)
    <3>1. LoggerGiven' /\ cancelled \subseteq cancelled'
      BY <2>4 DEF StopCore, LoggerGiven
    <3>2. \A p \in Procs : os'[p] = "unborn" => os[p] = "unborn"
      BY <2>4 DEF StopCore, IInv, TypeOK
    <3> QED BY <3>1, <3>2
  <2> QED BY <1>2, <2>1, <2>2, <2>3, <2>4
<1>3. CASE \E t \in Threads : Start(t) \/ Stop(t) \/ Restart(t)
  <2>1. PICK t \in Threads : Start(t) \/ Stop(t) \/ Restart(t)
    BY <1>3
  <2>2. CASE RestartBegin(t) \/ RestartEnd(t)
    BY <2>2, <1>1 DEF RestartBegin, RestartEnd, LoggerGiven
  <2>3. CASE ~(RestartBegin(t) \/ RestartEnd(t))
    <3>1. \E from, to \in {"idle", "launch", "stop", "prepare", "relaunch", "end"} :
            \/ Prepare(t, from, to) \/ PrepareFails(t, from, to)
            \/ LaunchRefused(t, from, to) \/ LaunchFails(t, from, to)
            \/ Launch(t, from, to) \/ StopCore(t, from, to)
      BY <2>1, <2>3 DEF Start, Stop, Restart
    <3> QED BY <3>1, <1>1, <1>2
  <2> QED BY <2>2, <2>3
<1>4. CASE \E p \in Procs : Exit(p) \/ Reap(p)
  BY <1>1, <1>4 DEF Exit, Reap, LoggerGiven, IInv, TypeOK
<1>5. CASE UNCHANGED vars
  BY <1>1, <1>5 DEF vars, LoggerGiven
<1> QED BY <1>3, <1>4, <1>5 DEF Next

(* A step of Core that leaves the goroutines alone; cmd.Wait may also take *)
(* unread lines away.                                                      *)
LEMMA CoreKeepsLogsInv ==
  ASSUME LogsInv, [Next]_vars, ~Crashed,
         UNCHANGED <<read, cap, late, logsChan>>,
         emitted' \in [Captures -> 0..MaxLines],
         \A c \in Captures : emitted'[c] \in read[c]..emitted[c]
  PROVE  LogsInv'
<1>1. /\ IInv' /\ LoggerGiven' /\ cancelled \subseteq cancelled'
      /\ \A p \in Procs : os'[p] = "unborn" => os[p] = "unborn"
  BY CoreStepFacts DEF LogsInv
<1>2. LogsTypeOK'
  BY <1>1 DEF LogsInv, LogsTypeOK, IInv
<1>3. LinesWritten'
  <2> SUFFICES ASSUME NEW c \in Captures
               PROVE  /\ read[c] <= emitted'[c]
                      /\ os'[c[1]] = "unborn" => emitted'[c] = 0
                      /\ cap[c] \in {"check", "send", "classify"} => read[c] >= 1
    BY DEF LinesWritten
  <2>1. c[1] \in Procs /\ read[c] \in 0..MaxLines /\ emitted[c] \in 0..MaxLines
    BY DEF Captures, LogsInv, LogsTypeOK
  <2>2. read[c] <= emitted'[c] /\ emitted'[c] <= emitted[c] /\ emitted'[c] \in 0..MaxLines
    BY <2>1, LogsAssumption
  <2> QED BY <1>1, <2>1, <2>2, LogsAssumption DEF LogsInv, LinesWritten
<1>4. LateOnce'
  BY <1>1 DEF LogsInv, LateOnce
<1>5. QueueBehind' /\ ChannelFaithful'
  BY DEF LogsInv, QueueBehind, ChannelFaithful
<1>6. PanicNeedsStop'
  BY DEF PanicNeedsStop, Crashed
<1> QED BY <1>1, <1>2, <1>3, <1>4, <1>5, <1>6 DEF LogsInv

LEMMA QuietCore == IInv /\ UNCHANGED vars => IInv' /\ TypeOK'
<1> SUFFICES ASSUME IInv, UNCHANGED vars PROVE IInv'
  BY DEF IInv
<1> QED BY NextIInv

LEMMA EmitStep ==
  ASSUME LogsInv, NEW c \in Captures, Emit(c)
  PROVE  LogsInv'
<1>1. IInv' /\ TypeOK'
  BY QuietCore DEF LogsInv, Emit
<1>2. /\ emitted[c] \in 0..MaxLines /\ emitted[c] + 1 \in 0..MaxLines
      /\ emitted' = [emitted EXCEPT ![c] = emitted[c] + 1]
  BY LogsAssumption DEF LogsInv, LogsTypeOK, Emit
<1>3. LogsTypeOK'
  BY <1>1, <1>2 DEF LogsInv, LogsTypeOK, Emit
<1>4. LinesWritten'
  BY <1>2, LogsAssumption DEF LogsInv, LogsTypeOK, LinesWritten, Emit, vars
<1>5. LateOnce' /\ LoggerGiven' /\ QueueBehind' /\ ChannelFaithful'
  BY DEF LogsInv, LateOnce, LoggerGiven, QueueBehind, ChannelFaithful, Emit, vars
<1>6. PanicNeedsStop'
  BY DEF LogsInv, PanicNeedsStop, Crashed, Emit
<1> QED BY <1>1, <1>3, <1>4, <1>5, <1>6 DEF LogsInv

LEMMA ScanStep ==
  ASSUME LogsInv, NEW c \in Captures, Scan(c)
  PROVE  LogsInv'
<1>1. IInv' /\ TypeOK'
  BY QuietCore DEF LogsInv, Scan
<1>2. /\ read[c] \in 0..MaxLines /\ emitted[c] \in 0..MaxLines /\ read[c] < emitted[c]
      /\ read' = [read EXCEPT ![c] = read[c] + 1]
      /\ cap[c] = "scan" /\ cap' = [cap EXCEPT ![c] = "check"]
      /\ UNCHANGED <<vars, emitted, late, logsChan>>
  BY DEF LogsInv, LogsTypeOK, Scan, Move
<1>3. read[c] + 1 \in 0..MaxLines
  BY <1>2, LogsAssumption
<1>4. LogsTypeOK'
  BY <1>1, <1>2, <1>3 DEF LogsInv, LogsTypeOK
<1>5. LinesWritten'
  BY <1>2, <1>3, LogsAssumption DEF LogsInv, LogsTypeOK, LinesWritten, vars
<1>6. LateOnce' /\ LoggerGiven'
  BY <1>2 DEF LogsInv, LogsTypeOK, LateOnce, LoggerGiven, vars
<1>7. QueueBehind' /\ ChannelFaithful'
  <2>1. \A i \in DOMAIN logsChan : /\ logsChan[i][1] \in Captures
                                   /\ logsChan[i][2] \in Nat
                                   /\ read[logsChan[i][1]] \in Nat
    <3>1. /\ logsChan \in Seq(Captures \X (1..MaxLines)) /\ read \in [Captures -> 0..MaxLines]
          /\ MaxLines \in Nat
      BY LogsAssumption DEF LogsInv, LogsTypeOK
    <3>2. \A i \in DOMAIN logsChan : logsChan[i] \in Captures \X (1..MaxLines)
      BY <3>1
    <3> QED BY <3>1, <3>2
  <2>2. \A i \in DOMAIN logsChan : logsChan[i][2] <= read[logsChan[i][1]]
    BY DEF LogsInv, ChannelFaithful
  <2>3. \A d \in Captures : /\ read'[d] = IF d = c THEN read[c] + 1 ELSE read[d]
                            /\ cap'[d] = IF d = c THEN "check" ELSE cap[d]
    <3>1. DOMAIN cap = Captures /\ DOMAIN read = Captures
      BY DEF LogsInv, LogsTypeOK
    <3>2. read' = [read EXCEPT ![c] = read[c] + 1] /\ cap' = [cap EXCEPT ![c] = "check"]
      BY <1>2
    <3> QED BY <3>1, <3>2
  <2>4. logsChan' = logsChan
    BY <1>2
  <2>5. QueueBehind'
    <3>1. QueueBehind
      BY DEF LogsInv
    <3>2. read[c] \in Nat
      BY <1>2, LogsAssumption
    <3> SUFFICES ASSUME NEW i \in DOMAIN logsChan, cap'[logsChan[i][1]] \in {"check", "send"}
                 PROVE  logsChan[i][2] < read'[logsChan[i][1]]
      BY <2>4 DEF QueueBehind
    <3>3. /\ logsChan[i][1] \in Captures /\ logsChan[i][2] \in Nat
          /\ logsChan[i][2] <= read[logsChan[i][1]]
      BY <2>1, <2>2
    <3>4. CASE logsChan[i][1] = c
      <4>1. read'[c] = read[c] + 1 /\ logsChan[i][2] <= read[c]
        BY <2>3, <3>3, <3>4
      <4> QED BY <3>2, <3>3, <3>4, <4>1
    <3>5. CASE logsChan[i][1] # c
      <4>1. /\ read'[logsChan[i][1]] = read[logsChan[i][1]]
            /\ cap[logsChan[i][1]] \in {"check", "send"}
        BY <2>3, <3>3, <3>5
      <4>2. logsChan[i][2] < read[logsChan[i][1]]
        BY <3>1, <4>1 DEF QueueBehind
      <4> QED BY <4>1, <4>2
    <3> QED BY <3>4, <3>5
  <2>6. ChannelFaithful'
    <3>1. ChannelFaithful
      BY DEF LogsInv
    <3>2. ASSUME NEW i \in DOMAIN logsChan
          PROVE  logsChan[i][2] <= read'[logsChan[i][1]]
      BY <2>1, <2>2, <2>3
    <3> QED BY <2>4, <3>1, <3>2 DEF ChannelFaithful
  <2> QED BY <2>5, <2>6
<1>8. PanicNeedsStop'
  BY <1>2 DEF LogsInv, LogsTypeOK, PanicNeedsStop, Crashed, vars
<1> QED BY <1>1, <1>4, <1>5, <1>6, <1>7, <1>8 DEF LogsInv

(* The goroutine ends, or goes on to the send while its context lives.     *)
LEMMA EndOrCheckStep ==
  ASSUME LogsInv, NEW c \in Captures, ScanEnds(c) \/ CheckContext(c)
  PROVE  LogsInv'
<1>1. IInv' /\ TypeOK'
  BY QuietCore DEF LogsInv, ScanEnds, CheckContext
<1>2. /\ UNCHANGED <<vars, emitted, read, late, logsChan>>
      /\ cap' = [cap EXCEPT ![c] = cap'[c]]
      /\ \/ cap'[c] = "done"
         \/ cap[c] = "check" /\ cap'[c] = "send" /\ c[1] \notin cancelled
  BY DEF LogsInv, LogsTypeOK, ScanEnds, CheckContext, Move
<1>3. LogsTypeOK'
  BY <1>1, <1>2 DEF LogsInv, LogsTypeOK
<1>4. LinesWritten' /\ LateOnce' /\ LoggerGiven'
  BY <1>2 DEF LogsInv, LogsTypeOK, LinesWritten, LateOnce, LoggerGiven, vars
<1>5. QueueBehind' /\ ChannelFaithful'
  <2>1. ChannelFaithful'
    BY <1>2 DEF LogsInv, ChannelFaithful
  <2>2. \A i \in DOMAIN logsChan : logsChan[i][1] \in Captures
    BY DEF LogsInv, LogsTypeOK
  <2>3. \A d \in Captures : cap'[d] \in {"check", "send"} => cap[d] \in {"check", "send"}
    BY <1>2 DEF LogsInv, LogsTypeOK
  <2>4. QueueBehind
    BY DEF LogsInv
  <2>5. QueueBehind'
    BY <1>2, <2>2, <2>3, <2>4 DEF QueueBehind
  <2> QED BY <2>1, <2>5
<1>6. PanicNeedsStop'
  BY <1>2 DEF LogsInv, LogsTypeOK, PanicNeedsStop, Crashed, vars
<1> QED BY <1>1, <1>3, <1>4, <1>5, <1>6 DEF LogsInv

LEMMA SendStep ==
  ASSUME LogsInv, NEW c \in Captures, Send(c)
  PROVE  LogsInv'
<1>1. IInv' /\ TypeOK'
  BY QuietCore DEF LogsInv, Send
<1>2. /\ UNCHANGED <<vars, emitted, read>>
      /\ cap[c] = "send" /\ cap' = [cap EXCEPT ![c] = "classify"]
      /\ late' = [late EXCEPT ![c] = IF c[1] \in cancelled THEN late[c] + 1 ELSE late[c]]
  BY DEF LogsInv, LogsTypeOK, Send, Move
<1>3. late[c] = 0
  BY <1>2 DEF LogsInv, LateOnce
<1>4. read[c] \in 1..MaxLines
  BY <1>2, LogsAssumption DEF LogsInv, LogsTypeOK, LinesWritten
<1>5. logsChan' \in Seq(Captures \X (1..MaxLines))
  BY <1>4 DEF LogsInv, LogsTypeOK, Send
<1>6. LogsTypeOK'
  BY <1>1, <1>2, <1>5 DEF LogsInv, LogsTypeOK
<1>7. LinesWritten' /\ LoggerGiven'
  BY <1>2 DEF LogsInv, LogsTypeOK, LinesWritten, LoggerGiven, vars
<1>8. LateOnce'
  BY <1>2, <1>3 DEF LogsInv, LogsTypeOK, LateOnce, vars
<1>9. PanicNeedsStop'
  BY <1>2 DEF LogsInv, LogsTypeOK, PanicNeedsStop, Crashed, vars
<1>10. QueueBehind' /\ ChannelFaithful'
  <2>1. CASE Len(logsChan) >= LogBuffer
    <3>1. UNCHANGED logsChan
      BY <2>1, LogsAssumption DEF Send, LogsInv, LogsTypeOK
    <3> QED BY <1>2, <3>1 DEF LogsInv, LogsTypeOK, QueueBehind, ChannelFaithful
  <2>2. CASE Len(logsChan) < LogBuffer
    <3> DEFINE n == Len(logsChan)
    <3>1. logsChan' = Append(logsChan, <<c, read[c]>>)
      BY <2>2 DEF Send
    <3>2. /\ n \in Nat /\ DOMAIN logsChan = 1..n
          /\ Len(logsChan') = n + 1 /\ DOMAIN logsChan' = 1..(n + 1)
          /\ logsChan'[n + 1] = <<c, read[c]>>
          /\ \A i \in 1..n : logsChan'[i] = logsChan[i]
      BY <3>1 DEF LogsInv, LogsTypeOK
    <3>3. \A i \in 1..n : /\ logsChan[i][1] \in Captures
                          /\ logsChan[i][2] \in Nat
                          /\ logsChan[i][2] <= read[logsChan[i][1]]
                          /\ logsChan[i][1] = c => logsChan[i][2] < read[c]
      <4> SUFFICES ASSUME NEW i \in 1..n
                   PROVE  /\ logsChan[i][1] \in Captures
                          /\ logsChan[i][2] \in Nat
                          /\ logsChan[i][2] <= read[logsChan[i][1]]
                          /\ logsChan[i][1] = c => logsChan[i][2] < read[c]
        OBVIOUS
      <4>1. logsChan[i] \in Captures \X (1..MaxLines)
        BY <3>2 DEF LogsInv, LogsTypeOK
      <4>2. logsChan[i][1] \in Captures /\ logsChan[i][2] \in Nat
        BY <4>1, LogsAssumption
      <4>3. logsChan[i][2] <= read[logsChan[i][1]]
        BY <3>2 DEF LogsInv, ChannelFaithful
      <4>4. logsChan[i][1] = c => logsChan[i][2] < read[c]
        BY <3>2, <1>2 DEF LogsInv, QueueBehind
      <4> QED BY <4>2, <4>3, <4>4
    <3>4. QueueBehind'
      <4> SUFFICES ASSUME NEW i \in 1..(n + 1),
                          cap'[logsChan'[i][1]] \in {"check", "send"}
                   PROVE  logsChan'[i][2] < read[logsChan'[i][1]]
        BY <1>2, <3>2 DEF QueueBehind
      <4>1. CASE i = n + 1
        BY <4>1, <3>2, <1>2 DEF LogsInv, LogsTypeOK
      <4>2. CASE i \in 1..n
        <5>1. cap[logsChan[i][1]] \in {"check", "send"}
          BY <4>2, <3>2, <3>3, <1>2 DEF LogsInv, LogsTypeOK
        <5> QED BY <5>1, <4>2, <3>2 DEF LogsInv, QueueBehind
      <4> QED BY <4>1, <4>2, <3>2
    <3>5. ASSUME NEW i \in 1..(n + 1)
          PROVE  logsChan'[i][2] <= read[logsChan'[i][1]]
      <4>1. CASE i = n + 1
        BY <4>1, <3>2, <1>4
      <4>2. CASE i \in 1..n
        BY <4>2, <3>2, <3>3
      <4> QED BY <4>1, <4>2, <3>2
    <3>6. ASSUME NEW i \in 1..(n + 1), NEW j \in 1..(n + 1), i < j,
                 logsChan'[i][1] = logsChan'[j][1]
          PROVE  logsChan'[i][2] < logsChan'[j][2]
      <4>1. i \in 1..n
        BY <3>2, <3>6
      <4>2. CASE j \in 1..n
        BY <3>2, <3>6, <4>1, <4>2 DEF LogsInv, ChannelFaithful
      <4>3. CASE j = n + 1
        BY <3>2, <3>3, <3>6, <4>1, <4>3
      <4> QED BY <3>2, <4>2, <4>3
    <3>7. ChannelFaithful'
      BY <1>2, <2>2, <3>2, <3>5, <3>6, LogsAssumption DEF ChannelFaithful
    <3> QED BY <3>4, <3>7
  <2> QED BY <2>1, <2>2, LogsAssumption DEF LogsInv, LogsTypeOK
<1> QED BY <1>1, <1>6, <1>7, <1>8, <1>9, <1>10 DEF LogsInv

LEMMA ClassifyStep ==
  ASSUME LogsInv, NEW c \in Captures, Classify(c)
  PROVE  LogsInv'
<1>1. IInv' /\ TypeOK'
  BY QuietCore DEF LogsInv, Classify
<1>2. /\ UNCHANGED <<vars, emitted, read, late, logsChan>>
      /\ cap[c] = "classify" /\ ~Crashed
      /\ cap' = [cap EXCEPT ![c] = IF logger = "nil" THEN "panicked" ELSE "scan"]
  BY DEF Classify, Move
<1>3. LogsTypeOK'
  BY <1>1, <1>2 DEF LogsInv, LogsTypeOK
<1>4. LinesWritten' /\ LateOnce' /\ LoggerGiven'
  BY <1>2 DEF LogsInv, LogsTypeOK, LinesWritten, LateOnce, LoggerGiven, vars
<1>5. QueueBehind' /\ ChannelFaithful'
  BY <1>2 DEF LogsInv, LogsTypeOK, QueueBehind, ChannelFaithful
<1>6. born # 0
  <2>1. c[1] \in Procs /\ emitted[c] # 0
    BY <1>2, LogsAssumption DEF LogsInv, LogsTypeOK, LinesWritten, Captures
  <2>2. os[c[1]] # "unborn"
    BY <2>1 DEF LogsInv, LinesWritten
  <2> QED BY <2>1, <2>2 DEF LogsInv, IInv, ChildInv, Numbered, TypeOK, Procs
<1>7. PanicNeedsStop'
  BY <1>2, <1>6 DEF LogsInv, LoggerGiven, LogsTypeOK, PanicNeedsStop, Crashed, vars
<1> QED BY <1>1, <1>3, <1>4, <1>5, <1>7 DEF LogsInv

LEMMA ReceiveStep == LogsInv /\ Receive => LogsInv'
<1> SUFFICES ASSUME LogsInv, Receive PROVE LogsInv'
  OBVIOUS
<1> DEFINE n == Len(logsChan)
<1>1. IInv' /\ TypeOK'
  BY QuietCore DEF LogsInv, Receive
<1>2. /\ n \in Nat \ {0} /\ DOMAIN logsChan = 1..n
      /\ Len(logsChan') = n - 1 /\ DOMAIN logsChan' = 1..(n - 1)
      /\ \A i \in 1..(n - 1) : logsChan'[i] = logsChan[i + 1]
      /\ logsChan' \in Seq(Captures \X (1..MaxLines))
  BY DEF LogsInv, LogsTypeOK, Receive
<1>3. LogsTypeOK'
  BY <1>1, <1>2 DEF LogsInv, LogsTypeOK, Receive
<1>4. LinesWritten' /\ LateOnce' /\ LoggerGiven'
  BY DEF LogsInv, LinesWritten, LateOnce, LoggerGiven, Receive, vars
<1>5. QueueBehind'
  BY <1>2 DEF LogsInv, QueueBehind, Receive
<1>6. ChannelFaithful'
  <2>1. Len(logsChan') <= LogBuffer
    BY <1>2, LogsAssumption DEF LogsInv, ChannelFaithful
  <2>2. ASSUME NEW i \in 1..(n - 1)
        PROVE  logsChan'[i][2] <= read[logsChan'[i][1]]
    <3>1. i + 1 \in 1..n
      BY <1>2
    <3>2. logsChan[i + 1][2] <= read[logsChan[i + 1][1]]
      BY <1>2, <3>1 DEF LogsInv, ChannelFaithful
    <3> QED BY <1>2, <3>2
  <2>3. ASSUME NEW i \in 1..(n - 1), NEW j \in 1..(n - 1), i < j,
               logsChan'[i][1] = logsChan'[j][1]
        PROVE  logsChan'[i][2] < logsChan'[j][2]
    <3>1. i + 1 \in 1..n /\ j + 1 \in 1..n /\ i + 1 < j + 1
      BY <1>2, <2>3
    <3>2. logsChan[i + 1][2] < logsChan[j + 1][2]
      BY <1>2, <2>3, <3>1 DEF LogsInv, ChannelFaithful
    <3> QED BY <1>2, <3>2
  <2> QED BY <1>2, <2>1, <2>2, <2>3 DEF ChannelFaithful, Receive
<1>7. PanicNeedsStop'
  BY DEF PanicNeedsStop, Crashed, Receive
<1> QED BY <1>1, <1>3, <1>4, <1>5, <1>6, <1>7 DEF LogsInv

-----------------------------------------------------------------------------
LEMMA NextLogsInv == LogsInv /\ [LogsNext]_allVars => LogsInv'
<1> SUFFICES ASSUME LogsInv, [LogsNext]_allVars PROVE LogsInv'
  OBVIOUS
<1>1. /\ emitted \in [Captures -> 0..MaxLines]
      /\ \A c \in Captures : emitted[c] \in read[c]..emitted[c]
  BY LogsAssumption DEF LogsInv, LogsTypeOK, LinesWritten
<1>2. CASE CoreStep
  <2>1. Next
    BY <1>2 DEF CoreStep, Next
  <2> QED BY <1>1, <1>2, <2>1, CoreKeepsLogsInv DEF CoreStep, logVars
<1>3. ASSUME NEW p \in Procs, ReapAndClose(p)
      PROVE  LogsInv'
  <2>1. Next
    BY <1>3 DEF ReapAndClose, Next
  <2>2. /\ emitted' \in [Captures -> 0..MaxLines]
        /\ \A c \in Captures : emitted'[c] \in read[c]..emitted[c]
    BY <1>1, <1>3 DEF ReapAndClose
  <2> QED BY <1>3, <2>1, <2>2, CoreKeepsLogsInv DEF ReapAndClose
<1>4. ASSUME NEW c \in Captures, Emit(c) \/ Capture(c)
      PROVE  LogsInv'
  BY <1>4, EmitStep, ScanStep, EndOrCheckStep, SendStep, ClassifyStep DEF Capture
<1>5. CASE Receive
  BY <1>5, ReceiveStep
<1>6. CASE UNCHANGED allVars
  <2>1. IInv' /\ TypeOK'
    BY <1>6, QuietCore DEF LogsInv, allVars
  <2>2. LogsTypeOK' /\ LinesWritten' /\ LateOnce' /\ LoggerGiven'
    BY <1>6, <2>1 DEF LogsInv, LogsTypeOK, LinesWritten, LateOnce, LoggerGiven,
                      allVars, logVars, vars
  <2>3. QueueBehind' /\ ChannelFaithful' /\ PanicNeedsStop'
    BY <1>6 DEF LogsInv, QueueBehind, ChannelFaithful, PanicNeedsStop, Crashed,
                allVars, logVars, vars
  <2> QED BY <2>1, <2>2, <2>3 DEF LogsInv
<1> QED BY <1>2, <1>3, <1>4, <1>5, <1>6 DEF LogsNext

LEMMA LogsInvariance == LogsSpec => []LogsInv
BY InitLogsInv, NextLogsInv, PTL DEF LogsSpec

(* Every variable of the log path keeps to its type.                       *)
THEOREM LogsTypeCorrect == LogsSpec => []LogsTypeOK
<1>1. LogsInv => LogsTypeOK
  BY DEF LogsInv
<1> QED BY <1>1, LogsInvariance, PTL

(* log.go:32-33: whatever Stop, restarts and the pipes do, a capture       *)
(* goroutine sends at most one line after its context was cancelled.       *)
THEOREM LateLines == LogsSpec => []LateLinesBounded
<1>1. LogsInv => LateLinesBounded
  BY DEF LogsInv, LateOnce, LateLinesBounded
<1> QED BY <1>1, LogsInvariance, PTL

(* The channel keeps to its buffer and to the order of each pipe.          *)
THEOREM ChannelOrdered == LogsSpec => []ChannelFaithful
<1>1. LogsInv => ChannelFaithful
  BY DEF LogsInv
<1> QED BY <1>1, LogsInvariance, PTL

(* Core.logger is nil under a capture goroutine only after some Stop.      *)
THEOREM PanicOnlyAfterStop == LogsSpec => []PanicNeedsStop
<1>1. LogsInv => PanicNeedsStop
  BY DEF LogsInv
<1> QED BY <1>1, LogsInvariance, PTL
=============================================================================
