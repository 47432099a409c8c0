-------------------------------- MODULE Core --------------------------------
(***************************************************************************)
(* backend/xray/core.go: the object that owns the xray child process.      *)
(* Several goroutines call Start, Stop and Restart.  Every critical        *)
(* section of Core.mu is one action, since all other accesses to the       *)
(* fields it protects take the same lock; the steps of a method that run   *)
(* outside the lock are actions of their own.  detectLogType, which reads  *)
(* Core.logger without the lock, is in module Logs.                        *)
(***************************************************************************)
EXTENDS Naturals, FiniteSets

CONSTANTS Threads,      \* goroutines that call the methods of Core
          NamesLogFiles,\* the config names an access and an error log file
          MaxProcs      \* bound: launches explored (the code has none)

ASSUME MaxProcsAssumption == MaxProcs \in Nat
ASSUME NamesLogFilesAssumption == NamesLogFiles \in BOOLEAN

Procs == 1..MaxProcs

None == 0               \* the nil *exec.Cmd and the nil CancelFunc

VARIABLES
  process,     \* Core.process: the tracked child, or None
  cancelFunc,  \* Core.cancelFunc: whose capture context it cancels, or None
  restarting,  \* Core.restarting
  logger,      \* Core.logger: "nil", "files" (has log files) or "plain"
  os,          \* each child: unborn, running, killed, exited (dead), reaped
  born,        \* number of children launched so far
  cancelled,   \* children whose capture context has been cancelled
  logPaths,    \* Config.LogConfig still names the access and error files
  carried,     \* threads inside Start that took the paths off the config
  pc           \* where each thread is

vars == <<process, cancelFunc, restarting, logger, os, born, cancelled,
          logPaths, carried, pc>>

TypeOK ==
  /\ process \in {None} \cup Procs
  /\ cancelFunc \in {None} \cup Procs
  /\ restarting \in BOOLEAN
  /\ logger \in {"nil", "files", "plain"}
  /\ os \in [Procs -> {"unborn", "running", "killed", "exited", "reaped"}]
  /\ born \in Nat
  /\ cancelled \in SUBSET Procs
  /\ logPaths \in BOOLEAN
  /\ carried \in SUBSET Threads
  /\ pc \in [Threads -> {"idle", "launch", "stop", "prepare", "relaunch", "end"}]

Init ==
  /\ process = None
  /\ cancelFunc = None
  /\ restarting = FALSE
  /\ logger = "nil"
  /\ os = [p \in Procs |-> "unborn"]
  /\ born = 0
  /\ cancelled = {}
  /\ logPaths = NamesLogFiles
  /\ carried = {}
  /\ pc = [t \in Threads |-> "idle"]

Goto(t, from, to) == pc[t] = from /\ pc' = [pc EXCEPT ![t] = to]

(* cmd.Wait fills ProcessState only when it has reaped the dead child, so  *)
(* a child that died a moment ago still counts as started.                 *)
Started == process # None /\ os[process] # "reaped"

-----------------------------------------------------------------------------
(* Start before the lock: RemoveLogFiles moves the log paths from the      *)
(* config into the caller's hands and ToBytes takes the snapshot.          *)
Prepare(t, from, to) ==
  /\ Goto(t, from, to)
  /\ logPaths' = FALSE
  /\ carried' = IF logPaths THEN carried \cup {t} ELSE carried
  /\ UNCHANGED <<process, cancelFunc, restarting, logger, os, born, cancelled>>

(* The config has no log section, or (debug mode) its copy on disk cannot  *)
(* be written: Start returns an error and the paths are gone.              *)
PrepareFails(t, from, to) ==
  /\ Goto(t, from, to)
  /\ logPaths' = FALSE
  /\ UNCHANGED <<process, cancelFunc, restarting, logger, os, born, cancelled,
                 carried>>

(* Under the lock: another call started the core first.                    *)
LaunchRefused(t, from, to) ==
  /\ Goto(t, from, to)
  /\ Started
  /\ carried' = carried \ {t}
  /\ UNCHANGED <<process, cancelFunc, restarting, logger, os, born, cancelled,
                 logPaths>>

(* A fresh Logger replaces the old one; it has the files that were named.  *)
NewLoggerLazy(t) == logger' = IF t \in carried THEN "files" ELSE "nil"  \* mutant
NewLogger(t) == logger' = IF t \in carried THEN "files" ELSE "plain"

(* Under the lock, a failure after the dead predecessor was forgotten: of  *)
(* the pipes, of opening the access or the error log, or of cmd.Start.     *)
LaunchFails(t, from, to) ==
  /\ Goto(t, from, to)
  /\ ~Started
  /\ process' = None
  /\ carried' = carried \ {t}
  /\ UNCHANGED logger \/ logger' = "plain" \/ NewLogger(t)
  /\ UNCHANGED <<cancelFunc, restarting, os, born, cancelled, logPaths>>

(* The capture goroutines of the new child get a context of their own.     *)
KeepContext == UNCHANGED cancelFunc                             \* mutant
NewContext == cancelFunc' = born + 1

(* Under the lock: forget the dead predecessor and spawn the child.        *)
LaunchUnguarded(t, from, to) ==                                 \* mutant
  /\ Goto(t, from, to)
  /\ born < MaxProcs
  /\ born' = born + 1
  /\ os' = [os EXCEPT ![born + 1] = "running"]
  /\ process' = born + 1
  /\ NewContext
  /\ NewLogger(t)
  /\ carried' = carried \ {t}
  /\ UNCHANGED <<restarting, cancelled, logPaths>>
Launch(t, from, to) ==
  /\ Goto(t, from, to)
  /\ ~Started
  /\ born < MaxProcs
  /\ born' = born + 1
  /\ os' = [os EXCEPT ![born + 1] = "running"]
  /\ process' = born + 1
  /\ NewContext
  /\ NewLogger(t)
  /\ carried' = carried \ {t}
  /\ UNCHANGED <<restarting, cancelled, logPaths>>

Start(t) ==
  \/ Prepare(t, "idle", "launch")
  \/ PrepareFails(t, "idle", "idle")
  \/ LaunchRefused(t, "launch", "idle")
  \/ LaunchFails(t, "launch", "idle")
  \/ Launch(t, "launch", "idle")

-----------------------------------------------------------------------------
(* Stop does nothing when the child is known to be dead, its logger and    *)
(* capture context included; otherwise it kills the child without waiting  *)
(* for it, cancels the context, and closes and forgets the logger.         *)
StopUnguarded(t, from, to) ==                                   \* mutant
  /\ Goto(t, from, to)
  /\ process' = None
  /\ os' = [p \in Procs |-> IF p = process /\ os[p] = "running" THEN "killed" ELSE os[p]]
  /\ cancelled' = cancelled \cup {cancelFunc}
  /\ logger' = "nil"
  /\ UNCHANGED <<cancelFunc, restarting, born, logPaths, carried>>
StopForgets(t, from, to) ==                                     \* mutant
  /\ Goto(t, from, to)
  /\ process' = None
  /\ cancelled' = IF Started THEN cancelled \cup {cancelFunc} ELSE cancelled
  /\ logger' = IF Started THEN "nil" ELSE logger
  /\ UNCHANGED <<os, cancelFunc, restarting, born, logPaths, carried>>
StopCore(t, from, to) ==
  /\ Goto(t, from, to)
  /\ IF Started
     THEN /\ os' = [os EXCEPT ![process] = IF @ = "running" THEN "killed" ELSE @]
          /\ process' = None
          /\ cancelled' = cancelled \cup {cancelFunc}
          /\ logger' = "nil"
     ELSE UNCHANGED <<os, process, cancelled, logger>>
  /\ UNCHANGED <<cancelFunc, restarting, born, logPaths, carried>>

Stop(t) == StopCore(t, "idle", "idle")

(* Restart marks the core as restarting, stops and starts it, and clears   *)
(* the mark whatever Start returned.  A call that finds the mark returns.  *)
ClaimBlindly == restarting' = TRUE                              \* mutant
Claim == ~restarting /\ restarting' = TRUE

RestartBegin(t) ==
  /\ Claim
  /\ Goto(t, "idle", "stop")
  /\ UNCHANGED <<process, cancelFunc, logger, os, born, cancelled, logPaths,
                 carried>>

RestartEndForgets(t) == Goto(t, "end", "idle") /\ UNCHANGED    \* mutant
  <<process, cancelFunc, restarting, logger, os, born, cancelled, logPaths, carried>>
RestartEnd(t) ==
  /\ Goto(t, "end", "idle")
  /\ restarting' = FALSE
  /\ UNCHANGED <<process, cancelFunc, logger, os, born, cancelled, logPaths,
                 carried>>

Restart(t) ==
  \/ RestartBegin(t)
  \/ StopCore(t, "stop", "prepare")
  \/ Prepare(t, "prepare", "relaunch")
  \/ PrepareFails(t, "prepare", "end")
  \/ LaunchRefused(t, "relaunch", "end")
  \/ LaunchFails(t, "relaunch", "end")
  \/ Launch(t, "relaunch", "end")
  \/ RestartEnd(t)

-----------------------------------------------------------------------------
(* The child dies, on its own or of the signal Stop sent.                  *)
Exit(p) ==
  /\ os[p] \in {"running", "killed"}
  /\ os' = [os EXCEPT ![p] = "exited"]
  /\ UNCHANGED <<process, cancelFunc, restarting, logger, born, cancelled,
                 logPaths, carried, pc>>

(* The goroutine Start left in cmd.Wait sees the death.                    *)
Reap(p) ==
  /\ os[p] = "exited"
  /\ os' = [os EXCEPT ![p] = "reaped"]
  /\ UNCHANGED <<process, cancelFunc, restarting, logger, born, cancelled,
                 logPaths, carried, pc>>

Next ==
  \/ \E t \in Threads : Start(t) \/ Stop(t) \/ Restart(t)
  \/ \E p \in Procs : Exit(p) \/ Reap(p)

(* A goroutine inside a method runs on; cmd.Wait reaps; a killed process   *)
(* dies.  Nobody is obliged to call a method, nor a child to die.          *)
Fairness ==
  /\ \A t \in Threads : WF_vars(pc[t] # "idle" /\ (Start(t) \/ Restart(t)))
  /\ \A p \in Procs : WF_vars(Reap(p)) /\ WF_vars(os[p] = "killed" /\ Exit(p))

Spec == Init /\ [][Next]_vars

FairSpec == Spec /\ Fairness

-----------------------------------------------------------------------------
(* The only child that may be running is the tracked one: no interleaving  *)
(* of Start, Stop, Restart and spontaneous deaths orphans a process.       *)
OneProcess == \A p \in Procs : os[p] = "running" => process = p

(* The capture goroutines of a running child have a live context, those of *)
(* a child that Stop killed a cancelled one.                               *)
ContextFollowsProcess == \A p \in Procs :
  /\ os[p] = "running" => p \notin cancelled
  /\ os[p] = "killed" => p \in cancelled

InRestart(t) == pc[t] \in {"stop", "prepare", "relaunch", "end"}

(* The restarting mark is held by exactly the one goroutine that is past   *)
(* the check in Restart; between its Stop and Start the lock is free, so   *)
(* only the mark keeps two restarts apart.                                 *)
RestartExclusive ==
  /\ restarting <=> \E t \in Threads : InRestart(t)
  /\ \A t, u \in Threads : InRestart(t) /\ InRestart(u) => t = u

(* The mark is cleared on every path out of Restart, so a failed restart   *)
(* does not make "xray is already restarting" the answer for ever.         *)
RestartEnds == restarting ~> ~restarting

(* The children, seen as processes of the operating system, come and go as *)
(* module Supervisor says.                                                 *)
Life == [p \in Procs |-> IF os[p] \in {"exited", "reaped"} THEN "gone" ELSE os[p]]
Sup == INSTANCE Supervisor WITH life <- Life
ImplementsSupervisor == Sup!Spec

(* log.go:24, "All other logs go to error file": when the config names log *)
(* files, a child that Restart launched in place of an earlier one still   *)
(* has its lines written to them.                                          *)
RestartKeepsLogFiles ==
  [][\A t \in Threads : NamesLogFiles /\ born > 0 /\ Launch(t, "relaunch", "end")
                          => logger' = "files"]_vars
=============================================================================
