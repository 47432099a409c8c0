----------------------------- MODULE CoreProofs -----------------------------
(***************************************************************************)
(* Proofs, for any set of goroutines and any bound on the launches, of the *)
(* safety properties of Core and of its refinement of Supervisor.          *)
(***************************************************************************)
EXTENDS Core, TLAPS

(* Children are numbered in launch order; only launched ones have contexts.*)
Numbered ==
  /\ born <= MaxProcs
  /\ \A p \in Procs : os[p] = "unborn" <=> p > born
  /\ cancelled \subseteq 1..born

(* The tracked child is alive or died on its own: Stop forgets what it     *)
(* kills.  Its context is the one cancelFunc cancels, and still live.      *)
TrackedAlive == process # None =>
  /\ process <= born
  /\ os[process] # "killed"
  /\ process \notin cancelled
  /\ cancelFunc = process

(* The inductive invariant: TypeOK and the three properties are not enough *)
(* because Stop must know whose context cancelFunc cancels.                *)
ChildInv == Numbered /\ TrackedAlive /\ OneProcess /\ ContextFollowsProcess
IInv == TypeOK /\ ChildInv /\ RestartExclusive

childVars == <<process, cancelFunc, os, born, cancelled>>

LEMMA InitIInv == Init => IInv
<1> SUFFICES ASSUME Init PROVE IInv
  OBVIOUS
<1>1. TypeOK
  BY NamesLogFilesAssumption DEF Init, TypeOK
<1>2. Numbered
  BY MaxProcsAssumption DEF Init, Numbered, Procs
<1>3. TrackedAlive /\ OneProcess /\ ContextFollowsProcess
  BY DEF Init, TrackedAlive, OneProcess, ContextFollowsProcess
<1>4. RestartExclusive
  BY DEF Init, RestartExclusive, InRestart
<1> QED BY <1>1, <1>2, <1>3, <1>4 DEF IInv, ChildInv

(* The pieces the methods are made of preserve the types, whatever control *)
(* points they connect.                                                    *)
LEMMA PieceTypes ==
  ASSUME TypeOK, Numbered, TrackedAlive, NEW t \in Threads,
         NEW from, NEW to \in {"idle", "launch", "stop", "prepare", "relaunch", "end"},
         \/ Prepare(t, from, to) \/ PrepareFails(t, from, to)
         \/ LaunchRefused(t, from, to) \/ LaunchFails(t, from, to)
         \/ Launch(t, from, to) \/ StopCore(t, from, to)
  PROVE  TypeOK'
<1>1. CASE Prepare(t, from, to)
  BY <1>1 DEF TypeOK, Prepare, Goto
<1>2. CASE PrepareFails(t, from, to)
  BY <1>2 DEF TypeOK, PrepareFails, Goto
<1>3. CASE LaunchRefused(t, from, to)
  BY <1>3 DEF TypeOK, LaunchRefused, Goto
<1>4. CASE LaunchFails(t, from, to)
  BY <1>4 DEF TypeOK, LaunchFails, Goto, NewLogger
<1>5. CASE Launch(t, from, to)
  <2>1. born + 1 \in Procs
    BY <1>5, MaxProcsAssumption DEF Launch, TypeOK, Procs
  <2> QED
    BY <1>5, <2>1 DEF TypeOK, Launch, Goto, NewLogger, NewContext
<1>6. CASE StopCore(t, from, to)
  <2>1. CASE Started
    BY <1>6, <2>1 DEF TypeOK, StopCore, Started, Goto, TrackedAlive, None
  <2>2. CASE ~Started
    BY <1>6, <2>2 DEF TypeOK, StopCore, Goto
  <2> QED BY <2>1, <2>2
<1> QED BY <1>1, <1>2, <1>3, <1>4, <1>5, <1>6

(* A step that leaves the children and the fields about them alone.        *)
LEMMA QuietChildInv == ChildInv /\ UNCHANGED childVars => ChildInv'
BY DEF ChildInv, childVars, Numbered, TrackedAlive, OneProcess, ContextFollowsProcess

LEMMA LaunchFailsChildInv ==
  ASSUME TypeOK, ChildInv, NEW t \in Threads, NEW from, NEW to, LaunchFails(t, from, to)
  PROVE  ChildInv'
BY DEF TypeOK, ChildInv, LaunchFails, Started, Numbered, TrackedAlive, OneProcess,
       ContextFollowsProcess, Procs, None

LEMMA LaunchChildInv ==
  ASSUME TypeOK, ChildInv, NEW t \in Threads, NEW from, NEW to, Launch(t, from, to)
  PROVE  ChildInv'
<1>1. /\ born + 1 \in Procs /\ born' = born + 1 /\ process' = born + 1
      /\ cancelFunc' = born + 1 /\ UNCHANGED cancelled
      /\ os' = [os EXCEPT ![born + 1] = "running"]
  BY MaxProcsAssumption DEF Launch, NewContext, TypeOK, Procs
<1>2. Numbered'
  BY <1>1 DEF ChildInv, Numbered, TypeOK, Procs, Launch
<1>3. born + 1 \notin cancelled
  BY DEF ChildInv, Numbered, TypeOK
<1>4. TrackedAlive'
  BY <1>1, <1>3 DEF TypeOK, TrackedAlive
<1>5. \A p \in Procs : os[p] # "running"
  BY DEF ChildInv, OneProcess, Launch, Started, None, Procs
<1>6. OneProcess'
  BY <1>1, <1>5 DEF OneProcess, TypeOK
<1>7. ContextFollowsProcess'
  BY <1>1, <1>3 DEF ChildInv, ContextFollowsProcess, TypeOK
<1> QED BY <1>2, <1>4, <1>6, <1>7 DEF ChildInv

LEMMA StopChildInv ==
  ASSUME TypeOK, ChildInv, NEW t \in Threads, NEW from, NEW to, StopCore(t, from, to)
  PROVE  ChildInv'
<1>1. CASE ~Started
  BY <1>1, QuietChildInv DEF StopCore, childVars
<1>2. CASE Started
  <2>1. /\ process \in Procs /\ process \in 1..born /\ cancelFunc = process
    BY <1>2 DEF Started, TypeOK, ChildInv, TrackedAlive, None, Procs
  <2>2. /\ process' = None /\ UNCHANGED <<born, cancelFunc>>
        /\ cancelled' = cancelled \cup {process}
        /\ os' = [os EXCEPT ![process] = IF os[process] = "running" THEN "killed"
                                                                  ELSE os[process]]
    BY <1>2, <2>1 DEF StopCore
  <2>3. Numbered'
    BY <2>1, <2>2 DEF ChildInv, Numbered, TypeOK, Procs
  <2>4. TrackedAlive'
    BY <2>2 DEF TrackedAlive
  <2>5. OneProcess' /\ ContextFollowsProcess'
    BY <2>1, <2>2 DEF ChildInv, OneProcess, ContextFollowsProcess, TypeOK
  <2> QED BY <2>3, <2>4, <2>5 DEF ChildInv
<1> QED BY <1>1, <1>2

LEMMA PieceChildInv ==
  ASSUME TypeOK, ChildInv, NEW t \in Threads, NEW from, NEW to,
         \/ Prepare(t, from, to) \/ PrepareFails(t, from, to)
         \/ LaunchRefused(t, from, to) \/ LaunchFails(t, from, to)
         \/ Launch(t, from, to) \/ StopCore(t, from, to)
  PROVE  ChildInv'
<1>1. CASE Prepare(t, from, to) \/ PrepareFails(t, from, to) \/ LaunchRefused(t, from, to)
  BY <1>1, QuietChildInv DEF Prepare, PrepareFails, LaunchRefused, childVars
<1> QED BY <1>1, LaunchFailsChildInv, LaunchChildInv, StopChildInv

(* Outside Restart, or between two points inside it, a goroutine does not  *)
(* disturb the exclusion.                                                  *)
LEMMA PieceExclusive ==
  ASSUME TypeOK, RestartExclusive, NEW t \in Threads, NEW from, NEW to,
         \/ {from, to} \subseteq {"idle", "launch"}
         \/ {from, to} \subseteq {"stop", "prepare", "relaunch", "end"},
         \/ Prepare(t, from, to) \/ PrepareFails(t, from, to)
         \/ LaunchRefused(t, from, to) \/ LaunchFails(t, from, to)
         \/ Launch(t, from, to) \/ StopCore(t, from, to)
  PROVE  RestartExclusive'
<1>1. Goto(t, from, to) /\ UNCHANGED restarting
  BY DEF Prepare, PrepareFails, LaunchRefused, LaunchFails, Launch, StopCore
<1>2. \A u \in Threads : InRestart(u)' <=> InRestart(u)
  BY <1>1 DEF TypeOK, Goto, InRestart
<1> QED BY <1>1, <1>2 DEF RestartExclusive

-----------------------------------------------------------------------------
LEMMA StartStep ==
  ASSUME IInv, NEW t \in Threads, Start(t) \/ Stop(t)
  PROVE  IInv'
<1>1. PICK from \in {"idle", "launch"}, to \in {"idle", "launch"} :
        \/ Prepare(t, from, to) \/ PrepareFails(t, from, to)
        \/ LaunchRefused(t, from, to) \/ LaunchFails(t, from, to)
        \/ Launch(t, from, to) \/ StopCore(t, from, to)
  BY DEF Start, Stop
<1>2. TypeOK'
  BY <1>1, PieceTypes DEF IInv, ChildInv
<1>3. ChildInv'
  BY <1>1, PieceChildInv DEF IInv
<1>4. RestartExclusive'
  BY <1>1, PieceExclusive DEF IInv
<1> QED BY <1>2, <1>3, <1>4 DEF IInv

LEMMA RestartStep ==
  ASSUME IInv, NEW t \in Threads, Restart(t)
  PROVE  IInv'
<1>1. CASE RestartBegin(t)
  <2>1. TypeOK'
    BY <1>1 DEF IInv, TypeOK, RestartBegin, Claim, Goto
  <2>2. ChildInv'
    BY <1>1, QuietChildInv DEF IInv, RestartBegin, childVars
  <2>3. RestartExclusive'
    BY <1>1 DEF IInv, TypeOK, RestartExclusive, InRestart, RestartBegin, Claim, Goto
  <2> QED BY <2>1, <2>2, <2>3 DEF IInv
<1>2. CASE RestartEnd(t)
  <2>1. TypeOK'
    BY <1>2 DEF IInv, TypeOK, RestartEnd, Goto
  <2>2. ChildInv'
    BY <1>2, QuietChildInv DEF IInv, RestartEnd, childVars
  <2>3. RestartExclusive'
    BY <1>2 DEF IInv, TypeOK, RestartExclusive, InRestart, RestartEnd, Goto
  <2> QED BY <2>1, <2>2, <2>3 DEF IInv
<1>3. CASE ~RestartBegin(t) /\ ~RestartEnd(t)
  <2>1. PICK from \in {"stop", "prepare", "relaunch", "end"},
             to \in {"stop", "prepare", "relaunch", "end"} :
          \/ Prepare(t, from, to) \/ PrepareFails(t, from, to)
          \/ LaunchRefused(t, from, to) \/ LaunchFails(t, from, to)
          \/ Launch(t, from, to) \/ StopCore(t, from, to)
    BY <1>3 DEF Restart
  <2>2. TypeOK'
    BY <2>1, PieceTypes DEF IInv, ChildInv
  <2>3. ChildInv'
    BY <2>1, PieceChildInv DEF IInv
  <2>4. RestartExclusive'
    BY <2>1, PieceExclusive DEF IInv
  <2> QED BY <2>2, <2>3, <2>4 DEF IInv
<1> QED BY <1>1, <1>2, <1>3

LEMMA ExitReapStep ==
  ASSUME IInv, NEW p \in Procs, Exit(p) \/ Reap(p)
  PROVE  IInv'
<1>1. /\ UNCHANGED <<process, cancelFunc, restarting, logger, born, cancelled,
                     logPaths, carried, pc>>
      /\ os[p] # "unborn" /\ os' = [os EXCEPT ![p] = os'[p]]
      /\ os'[p] \in {"exited", "reaped"}
  BY DEF IInv, TypeOK, Exit, Reap
<1>2. TypeOK'
  BY <1>1 DEF IInv, TypeOK
<1>3. ChildInv'
  <2>1. Numbered' /\ TrackedAlive'
    BY <1>1 DEF IInv, TypeOK, ChildInv, Numbered, TrackedAlive
  <2>2. OneProcess' /\ ContextFollowsProcess'
    BY <1>1 DEF IInv, TypeOK, ChildInv, OneProcess, ContextFollowsProcess
  <2> QED BY <2>1, <2>2 DEF ChildInv
<1>4. RestartExclusive'
  BY <1>1 DEF IInv, RestartExclusive, InRestart
<1> QED BY <1>2, <1>3, <1>4 DEF IInv

LEMMA NextIInv == IInv /\ [Next]_vars => IInv'
<1> SUFFICES ASSUME IInv, [Next]_vars PROVE IInv'
  OBVIOUS
<1>1. CASE \E t \in Threads : Start(t) \/ Stop(t) \/ Restart(t)
  BY <1>1, StartStep, RestartStep
<1>2. CASE \E p \in Procs : Exit(p) \/ Reap(p)
  BY <1>2, ExitReapStep
<1>3. CASE UNCHANGED vars
  BY <1>3 DEF vars, IInv, TypeOK, ChildInv, Numbered, TrackedAlive, OneProcess,
              ContextFollowsProcess, RestartExclusive, InRestart
<1> QED BY <1>1, <1>2, <1>3 DEF Next

LEMMA Invariance == Spec => []IInv
BY InitIInv, NextIInv, PTL DEF Spec

(* Every field of Core and every child keeps to its type.                  *)
THEOREM TypeCorrect == Spec => []TypeOK
<1>1. IInv => TypeOK
  BY DEF IInv
<1> QED BY <1>1, Invariance, PTL

(* However Start, Stop, Restart and deaths interleave, the tracked child   *)
(* is the only one that may be running: core.go never orphans a process.   *)
THEOREM NeverOrphaned == Spec => []OneProcess
<1>1. IInv => OneProcess
  BY DEF IInv, ChildInv
<1> QED BY <1>1, Invariance, PTL

(* Stop cancels the capture goroutines of the child it kills and no other. *)
THEOREM ContextCorrect == Spec => []ContextFollowsProcess
<1>1. IInv => ContextFollowsProcess
  BY DEF IInv, ChildInv
<1> QED BY <1>1, Invariance, PTL

(* Between the check of Core.restarting and its reset there is never more  *)
(* than one goroutine.                                                     *)
THEOREM RestartsExclusive == Spec => []RestartExclusive
<1>1. IInv => RestartExclusive
  BY DEF IInv
<1> QED BY <1>1, Invariance, PTL

-----------------------------------------------------------------------------
LEMMA RefinesInit == Init => Sup!Init
BY DEF Init, Sup!Init, Life

LEMMA RefinesLaunch ==
  ASSUME IInv, NEW t \in Threads, NEW from, NEW to, Launch(t, from, to)
  PROVE  Sup!Launch(born + 1)
<1>1. born + 1 \in Procs /\ os[born + 1] = "unborn"
  BY MaxProcsAssumption DEF IInv, TypeOK, ChildInv, Numbered, Launch, Procs
<1>2. \A q \in Procs : os[q] # "running" /\ (q < born + 1 => os[q] # "unborn")
  <2>1. \A q \in Procs : os[q] # "running"
    BY DEF IInv, ChildInv, OneProcess, Launch, Started, None, Procs
  <2>2. \A q \in Procs : q < born + 1 => os[q] # "unborn"
    BY DEF IInv, TypeOK, ChildInv, Numbered, Procs
  <2> QED BY <2>1, <2>2
<1>3. Life' = [Life EXCEPT ![born + 1] = "running"]
  BY <1>1 DEF IInv, TypeOK, Launch, Life
<1> QED BY <1>1, <1>2, <1>3 DEF Sup!Launch, Life

LEMMA RefinesStop ==
  ASSUME IInv, NEW t \in Threads, NEW from, NEW to, StopCore(t, from, to)
  PROVE  Life' = Life \/ \E p \in Procs : Sup!Kill(p)
<1>1. CASE ~Started \/ os[process] # "running"
  BY <1>1 DEF IInv, TypeOK, StopCore, Life
<1>2. CASE Started /\ os[process] = "running"
  <2>1. process \in Procs
    BY <1>2 DEF IInv, TypeOK, Started, None
  <2>2. Life' = [Life EXCEPT ![process] = "killed"]
    BY <1>2, <2>1 DEF IInv, TypeOK, StopCore, Life
  <2>3. Life[process] = "running"
    BY <1>2, <2>1 DEF Life
  <2> QED BY <2>1, <2>2, <2>3 DEF Sup!Kill
<1> QED BY <1>1, <1>2

LEMMA RefinesStep == IInv /\ [Next]_vars => [Sup!Next]_Life
<1> SUFFICES ASSUME IInv, [Next]_vars PROVE Life' = Life \/ Sup!Next
  OBVIOUS
<1>1. ASSUME NEW t \in Threads, Start(t) \/ Stop(t) \/ Restart(t)
      PROVE  Life' = Life \/ Sup!Next
  <2>1. CASE \E from, to \in {"idle", "launch", "relaunch", "end"} : Launch(t, from, to)
    <3>1. Sup!Launch(born + 1) /\ born + 1 \in Procs
      BY <2>1, RefinesLaunch, MaxProcsAssumption DEF Launch, Procs, IInv, TypeOK
    <3> QED BY <3>1 DEF Sup!Next
  <2>2. CASE StopCore(t, "idle", "idle") \/ StopCore(t, "stop", "prepare")
    BY <2>2, RefinesStop DEF Sup!Next
  <2>3. CASE UNCHANGED os
    BY <2>3 DEF Life
  <2> QED
    BY <1>1, <2>1, <2>2, <2>3 DEF Start, Stop, Restart, Prepare, PrepareFails,
       LaunchRefused, LaunchFails, RestartBegin, RestartEnd
<1>2. ASSUME NEW p \in Procs, Exit(p)
      PROVE  Life' = Life \/ Sup!Next
  <2>1. Life[p] \in {"running", "killed"} /\ Life' = [Life EXCEPT ![p] = "gone"]
    BY <1>2 DEF IInv, TypeOK, Exit, Life
  <2> QED BY <2>1 DEF Sup!Next, Sup!Exit
<1>3. ASSUME NEW p \in Procs, Reap(p)
      PROVE  Life' = Life
  BY <1>3 DEF IInv, TypeOK, Reap, Life
<1>4. CASE UNCHANGED vars
  BY <1>4 DEF vars, Life
<1> QED BY <1>1, <1>2, <1>3, <1>4 DEF Next

(* Core implements Supervisor: seen from the operating system, children    *)
(* are launched one at a time and a killed child never runs again.         *)
THEOREM Implements == Spec => ImplementsSupervisor
BY Invariance, RefinesInit, RefinesStep, PTL DEF Spec, ImplementsSupervisor, Sup!Spec
=============================================================================
