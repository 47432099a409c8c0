-------------------------------- MODULE Logs --------------------------------
(***************************************************************************)
(* The log path from a child of Core to the log streams: one goroutine per *)
(* pipe of a child (log.go) scans lines, offers them to the bounded        *)
(* channel Core.logsChan and writes them with Core.logger, which it reads  *)
(* without the lock that Start and Stop hold when they set it.             *)
(***************************************************************************)
EXTENDS Core, Sequences

CONSTANTS Pipes,        \* the pipes of a child: its stdout and its stderr
          LogBuffer,    \* capacity of Core.logsChan (LOG_BUFFER_SIZE)
          MaxLines      \* bound: lines a child writes to each pipe

ASSUME LogsAssumption == LogBuffer \in Nat /\ MaxLines \in Nat

Captures == Procs \X Pipes      \* the capture goroutine of pipe c[2] of child c[1]

VARIABLES
  emitted,     \* emitted[c]: lines written to the pipe that can still be read
  read,        \* read[c]: lines scanned so far
  cap,         \* cap[c]: where the goroutine is
  late,        \* late[c]: lines it sent on after its context was cancelled
  logsChan     \* Core.logsChan: <<capture, line number>>, oldest first

logVars == <<emitted, read, cap, late, logsChan>>

allVars == <<vars, logVars>>

LogsTypeOK ==
  /\ TypeOK
  /\ emitted \in [Captures -> 0..MaxLines]
  /\ read \in [Captures -> 0..MaxLines]
  /\ cap \in [Captures -> {"scan", "check", "send", "classify", "done", "panicked"}]
  /\ late \in [Captures -> Nat]
  /\ logsChan \in Seq(Captures \X (1..MaxLines))

LogsInit ==
  /\ Init
  /\ emitted = [c \in Captures |-> 0]
  /\ read = [c \in Captures |-> 0]
  /\ cap = [c \in Captures |-> "scan"]
  /\ late = [c \in Captures |-> 0]
  /\ logsChan = <<>>

(* A panic in any goroutine that nobody recovers ends the node.            *)
Crashed == \E c \in Captures : cap[c] = "panicked"

Move(c, from, to) == ~Crashed /\ cap[c] = from /\ cap' = [cap EXCEPT ![c] = to]

-----------------------------------------------------------------------------
(* The child writes a line; a dead one writes no more.                     *)
Emit(c) ==
  /\ ~Crashed
  /\ os[c[1]] \in {"running", "killed"}
  /\ emitted[c] < MaxLines
  /\ emitted' = [emitted EXCEPT ![c] = @ + 1]
  /\ UNCHANGED <<vars, read, cap, late, logsChan>>

(* cmd.Wait closes the pipes when it has reaped the child: of the lines    *)
(* still unread those that are in the scanner's buffer remain.             *)
ReapAndClose(p) ==
  /\ ~Crashed
  /\ Reap(p)
  /\ emitted' \in {e \in [Captures -> 0..MaxLines] : \A c \in Captures :
                     IF c[1] = p THEN e[c] \in read[c]..emitted[c] ELSE e[c] = emitted[c]}
  /\ UNCHANGED <<read, cap, late, logsChan>>

(* scanner.Scan returns the next line, or false at the end of the pipe or  *)
(* at a line that is too long for the scanner.                             *)
ScanPastEnd(c) ==                                               \* mutant
  /\ Move(c, "scan", "check")
  /\ read' = [read EXCEPT ![c] = @ + 1]
  /\ UNCHANGED <<vars, emitted, late, logsChan>>
Scan(c) ==
  /\ read[c] < emitted[c]
  /\ Move(c, "scan", "check")
  /\ read' = [read EXCEPT ![c] = @ + 1]
  /\ UNCHANGED <<vars, emitted, late, logsChan>>

ScanEnds(c) ==
  /\ os[c[1]] \in {"exited", "reaped"} \/ read[c] < emitted[c]
  /\ Move(c, "scan", "done")
  /\ UNCHANGED <<vars, emitted, read, late, logsChan>>

(* The line is dropped, and the goroutine ends, when the context of the    *)
(* child has been cancelled.                                               *)
CheckNothing(c) == Move(c, "check", "send")                     \* mutant
  /\ UNCHANGED <<vars, emitted, read, late, logsChan>>
CheckContext(c) ==
  /\ Move(c, "check", IF c[1] \in cancelled THEN "done" ELSE "send")
  /\ UNCHANGED <<vars, emitted, read, late, logsChan>>

(* The send never waits: a line that finds the channel full is skipped.    *)
SendBlocking(c) ==                                              \* mutant
  /\ Len(logsChan) < LogBuffer
  /\ Move(c, "send", "classify")
  /\ logsChan' = Append(logsChan, <<c, read[c]>>)
  /\ late' = [late EXCEPT ![c] = IF c[1] \in cancelled THEN @ + 1 ELSE @]
  /\ UNCHANGED <<vars, emitted, read>>
SendTwice(c) ==                                                 \* mutant
  /\ Move(c, "send", IF Len(logsChan) < LogBuffer THEN "send" ELSE "classify")
  /\ logsChan' = IF Len(logsChan) < LogBuffer THEN Append(logsChan, <<c, read[c]>>)
                                              ELSE logsChan
  /\ UNCHANGED <<vars, emitted, read, late>>
Send(c) ==
  /\ Move(c, "send", "classify")
  /\ logsChan' = IF Len(logsChan) < LogBuffer THEN Append(logsChan, <<c, read[c]>>)
                                              ELSE logsChan
  /\ late' = [late EXCEPT ![c] = IF c[1] \in cancelled THEN @ + 1 ELSE @]
  /\ UNCHANGED <<vars, emitted, read>>

(* detectLogType calls a method of whatever logger Core has at this        *)
(* moment, that of the child's successor too; a nil one panics.            *)
Classify(c) ==
  /\ Move(c, "classify", IF logger = "nil" THEN "panicked" ELSE "scan")
  /\ UNCHANGED <<vars, emitted, read, late, logsChan>>

(* A log stream, or checkXrayStatus, receives the oldest line.             *)
Receive ==
  /\ ~Crashed /\ logsChan # <<>>
  /\ logsChan' = Tail(logsChan)
  /\ UNCHANGED <<vars, emitted, read, cap, late>>

Capture(c) == Scan(c) \/ ScanEnds(c) \/ CheckContext(c) \/ Send(c) \/ Classify(c)

-----------------------------------------------------------------------------
CoreStep ==
  /\ ~Crashed
  /\ \/ \E t \in Threads : Start(t) \/ Stop(t) \/ Restart(t)
     \/ \E p \in Procs : Exit(p)
  /\ UNCHANGED logVars

LogsNext ==
  \/ CoreStep
  \/ \E p \in Procs : ReapAndClose(p)
  \/ \E c \in Captures : Emit(c) \/ Capture(c)
  \/ Receive

(* The Go scheduler runs every goroutine that can run, and a killed child  *)
(* dies.  Nobody is obliged to read the channel.                           *)
LogsFairness ==
  /\ \A c \in Captures : WF_allVars(Capture(c))
  /\ \A p \in Procs : WF_allVars(~Crashed /\ os[p] = "killed" /\ Exit(p) /\ UNCHANGED logVars)

LogsSpec == LogsInit /\ [][LogsNext]_allVars

LogsFairSpec == LogsSpec /\ LogsFairness

-----------------------------------------------------------------------------
(* log.go:32-33: a goroutine sends on at most the one line it had already  *)
(* checked when Stop cancelled its context, so the lines of a stopped core *)
(* do not go on mixing with those of its successor.                        *)
LateLinesBounded == \A c \in Captures : late[c] <= 1

(* A line that waits in the channel was scanned, waits once, and lines of  *)
(* one pipe wait in the order they were written, drops notwithstanding;    *)
(* the channel never exceeds its buffer.                                   *)
ChannelFaithful ==
  /\ Len(logsChan) <= LogBuffer
  /\ \A i \in DOMAIN logsChan : logsChan[i][2] <= read[logsChan[i][1]]
  /\ \A i, j \in DOMAIN logsChan :
       i < j /\ logsChan[i][1] = logsChan[j][1] => logsChan[i][2] < logsChan[j][2]

(* A capture goroutine finds no logger only when some Stop took it away:   *)
(* no interleaving of Start with dead children or failed launches does.    *)
PanicNeedsStop == Crashed => cancelled # {}

(* log.go:36-41, "prevents blocking xray process": though nobody may read  *)
(* the channel, what the child wrote is scanned or the goroutine has ended.*)
PipeDrains == \A c \in Captures :
  read[c] < emitted[c] ~> read[c] = emitted[c] \/ cap[c] = "done" \/ Crashed

(* Both goroutines of a child that Stop killed end: none is leaked.        *)
CapturesEnd == \A c \in Captures :
  os[c[1]] = "killed" ~> cap[c] = "done" \/ Crashed

(* log.go:33, "Exit gracefully if stop signal received": stopping a core   *)
(* never makes a goroutine that captures its output panic.                 *)
NeverPanics == ~Crashed
=============================================================================
