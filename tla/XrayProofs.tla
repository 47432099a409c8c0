----------------------------- MODULE XrayProofs -----------------------------
(***************************************************************************)
(* Proofs, for any number of SyncUsers requests and callers of Shutdown,   *)
(* that a running core has the users of every acknowledged SyncUsers, that *)
(* a failed NewXray leaves no process and that the health check panics     *)
(* only on a handler that Shutdown closed.                                 *)
(***************************************************************************)
EXTENDS Xray, TLAPS

(* Where each kind of goroutine can be.                                    *)
Places ==
  /\ pc[Creator] \in {"start", "status", "handler", "abort", "up", "failed"}
  /\ pc[Health] \in {"idle", "check", "call", "wait", "sleep", "done", "panicked",
                     "restart", "launch"}
  /\ \A g \in Syncers : pc[g] \in {"idle", "update", "restart", "launch", "close", "done"}
  /\ \A g \in Stoppers : pc[g] \in {"idle", "update", "restart", "launch", "close", "done"}

(* Only the creator is at work until it has published the backend; until   *)
(* then the process it launches is the only one, and a failure before the  *)
(* launch or after the abort leaves none.                                  *)
CreationFirst ==
  /\ pc[Creator] # "up" => /\ \A g \in Goroutines \ {Creator} : pc[g] = "idle"
                           /\ cfgVer = 0
  /\ pc[Creator] \in {"start", "failed"} => proc # "running"

(* The lock is held by whoever is between a RestartStop and a launch, and  *)
(* until the launch no core runs.                                          *)
LockHeld == \A g \in Goroutines : pc[g] = "launch" => mu = g /\ proc = "none"

(* Versions only come from the config, whose own only grows.               *)
VersionOrder ==
  /\ runVer <= cfgVer /\ ackVer <= cfgVer
  /\ \A g \in Goroutines : own[g] <= cfgVer /\ snap[g] <= cfgVer

(* The copy a launch is about to use was taken after everything that has   *)
(* been acknowledged, after the copy of the core before it and, in a       *)
(* SyncUsers, after the request's own update.                              *)
SnapFresh == \A g \in Goroutines :
  pc[g] = "launch" => snap[g] >= ackVer /\ snap[g] >= runVer /\ snap[g] >= own[g]

(* The health check starts after the handler is there, and the handler is  *)
(* only closed after the context is.                                       *)
HandlerLife ==
  /\ pc[Health] # "idle" => handler # "nil"
  /\ handler = "closed" => ctxDone
  /\ \A g \in Goroutines : pc[g] = "close" => ctxDone

(* The inductive invariant: the properties alone do not say which copy of  *)
(* the config a launch in progress holds, nor that there is only one.      *)
IInv == /\ TypeOK /\ Places /\ CreationFirst /\ HandlerLife
        /\ LockHeld /\ VersionOrder /\ SnapFresh
        /\ FailedCreateLeavesNothing /\ AckedUsersAreServed /\ PanicNeedsShutdown

LEMMA InitIInv == Init => IInv
<1> SUFFICES ASSUME Init PROVE IInv
  OBVIOUS
<1>1. TypeOK
  <2>1. mu \in Goroutines \cup {Free} /\ 0 \in Versions
    BY XrayAssumption DEF Init, Versions
  <2> QED BY <2>1 DEF Init, TypeOK
<1>2. Places /\ CreationFirst /\ HandlerLife
  BY XrayAssumption DEF Init, Places, CreationFirst, HandlerLife, Goroutines, Creator, Health
<1>3. LockHeld /\ VersionOrder /\ SnapFresh
  BY DEF Init, LockHeld, VersionOrder, SnapFresh
<1>4. FailedCreateLeavesNothing /\ AckedUsersAreServed /\ PanicNeedsShutdown
  BY DEF Init, FailedCreateLeavesNothing, AckedUsersAreServed, PanicNeedsShutdown,
         At, Crashed, Creator, Health, Goroutines
<1> QED BY <1>1, <1>2, <1>3, <1>4 DEF IInv

LEMMA NextIInv == IInv /\ [Next]_vars => IInv'
<1> SUFFICES ASSUME IInv, [Next]_vars PROVE IInv'
  OBVIOUS
<1> USE XrayAssumption DEF IInv
<1>1. CASE UNCHANGED vars
  BY <1>1 DEF vars,
         TypeOK, Places, CreationFirst, HandlerLife, LockHeld, VersionOrder,
         SnapFresh, FailedCreateLeavesNothing, AckedUsersAreServed, PanicNeedsShutdown,
         At, Crashed, Goto, Goroutines, Creator, Health, Free, Versions
<1>2. CASE CreateFails
  BY <1>2 DEF CreateFails,
         TypeOK, Places, CreationFirst, HandlerLife, LockHeld, VersionOrder,
         SnapFresh, FailedCreateLeavesNothing, AckedUsersAreServed, PanicNeedsShutdown,
         At, Crashed, Goto, Goroutines, Creator, Health, Free, Versions
<1>3. CASE CreateLaunch
  <2>1. /\ Creator \in Goroutines /\ Creator # Health /\ pc[Creator] = "start"
        /\ pc' = [pc EXCEPT ![Creator] = "status"]
    BY <1>3 DEF CreateLaunch, Goto, Goroutines, Creator, Health
  <2>2. /\ proc' = "running" /\ runVer' = cfgVer /\ mu' = Creator
        /\ UNCHANGED <<cfgVer, ackVer, snap, own, ctxDone, handler>>
    BY <1>3 DEF CreateLaunch, Lock
  <2>3. \A g \in Goroutines \ {Creator} : pc[g] = "idle"
    BY <2>1 DEF CreationFirst
  <2>4. TypeOK'
    BY <2>1, <2>2 DEF TypeOK
  <2>5. Places' /\ CreationFirst' /\ HandlerLife'
    BY <2>1, <2>2, <2>3 DEF TypeOK, Places, CreationFirst, HandlerLife,
                            Goroutines, Creator, Health, Free
  <2>6. LockHeld' /\ SnapFresh'
    BY <2>1, <2>2, <2>3 DEF TypeOK, LockHeld, SnapFresh
  <2>7. VersionOrder'
    BY <2>2 DEF TypeOK, VersionOrder, Versions
  <2>8. FailedCreateLeavesNothing' /\ AckedUsersAreServed' /\ PanicNeedsShutdown'
    BY <2>1, <2>2 DEF TypeOK, FailedCreateLeavesNothing, AckedUsersAreServed,
                      PanicNeedsShutdown, VersionOrder, Versions, At, Crashed
  <2> QED BY <2>4, <2>5, <2>6, <2>7, <2>8
<1>4. CASE StatusSeen("handler") \/ StatusSeen("abort")
  <2>1. PICK to \in {"handler", "abort"} : pc' = [pc EXCEPT ![Creator] = to]
    BY <1>4 DEF StatusSeen, Goto
  <2>2. /\ Creator \in Goroutines /\ Creator # Health /\ pc[Creator] = "status"
        /\ mu' = Free
        /\ UNCHANGED <<proc, cfgVer, runVer, ackVer, snap, own, ctxDone, handler>>
    BY <1>4 DEF StatusSeen, Goto, Unlock, Goroutines, Creator, Health
  <2>3. TypeOK' /\ VersionOrder'
    BY <2>1, <2>2 DEF TypeOK, VersionOrder
  <2>4. Places' /\ CreationFirst' /\ HandlerLife' /\ SnapFresh'
    BY <2>1, <2>2 DEF TypeOK, Places, CreationFirst, HandlerLife, SnapFresh,
                      Goroutines, Creator, Health, Free
  <2>5. LockHeld'
    BY <2>1, <2>2 DEF TypeOK, LockHeld, CreationFirst
  <2>6. FailedCreateLeavesNothing' /\ AckedUsersAreServed' /\ PanicNeedsShutdown'
    BY <2>1, <2>2 DEF TypeOK, FailedCreateLeavesNothing, AckedUsersAreServed,
                      PanicNeedsShutdown, At, Crashed
  <2> QED BY <2>3, <2>4, <2>5, <2>6
<1>5. CASE HandlerFails
  <2>1. /\ Creator \in Goroutines /\ Creator # Health /\ pc[Creator] = "handler"
        /\ pc' = [pc EXCEPT ![Creator] = "abort"]
        /\ UNCHANGED <<proc, cfgVer, runVer, ackVer, snap, own, ctxDone, handler, mu>>
    BY <1>5 DEF HandlerFails, Goto, Goroutines, Creator, Health
  <2>2. TypeOK' /\ VersionOrder'
    BY <2>1 DEF TypeOK, VersionOrder
  <2>3. Places' /\ CreationFirst' /\ HandlerLife' /\ SnapFresh'
    BY <2>1 DEF TypeOK, Places, CreationFirst, HandlerLife, SnapFresh,
                Goroutines, Creator, Health, Free
  <2>4. LockHeld'
    BY <2>1 DEF TypeOK, LockHeld, CreationFirst
  <2>5. FailedCreateLeavesNothing' /\ AckedUsersAreServed' /\ PanicNeedsShutdown'
    BY <2>1 DEF TypeOK, FailedCreateLeavesNothing, AckedUsersAreServed,
                PanicNeedsShutdown, At, Crashed
  <2> QED BY <2>2, <2>3, <2>4, <2>5
<1>6. CASE HandlerOpens
  <2>1. /\ Creator \in Goroutines /\ Health \in Goroutines /\ Creator # Health
        /\ pc[Creator] = "handler" /\ handler' = "open"
        /\ pc' = [pc EXCEPT ![Creator] = "up", ![Health] = "check"]
        /\ UNCHANGED <<proc, cfgVer, runVer, ackVer, snap, own, ctxDone, mu>>
    BY <1>6 DEF HandlerOpens, At, Goroutines, Creator, Health
  <2>2. TypeOK' /\ VersionOrder'
    BY <2>1 DEF TypeOK, VersionOrder
  <2>3. Places' /\ CreationFirst' /\ HandlerLife' /\ SnapFresh'
    BY <2>1 DEF TypeOK, Places, CreationFirst, HandlerLife, SnapFresh,
                Goroutines, Creator, Health, Free
  <2>4. LockHeld'
    BY <2>1 DEF TypeOK, LockHeld, CreationFirst
  <2>5. FailedCreateLeavesNothing' /\ AckedUsersAreServed' /\ PanicNeedsShutdown'
    BY <2>1 DEF TypeOK, FailedCreateLeavesNothing, AckedUsersAreServed,
                PanicNeedsShutdown, At, Crashed
  <2> QED BY <2>2, <2>3, <2>4, <2>5
<1>7. CASE Abort
  BY <1>7 DEF Abort,
         TypeOK, Places, CreationFirst, HandlerLife, LockHeld, VersionOrder,
         SnapFresh, FailedCreateLeavesNothing, AckedUsersAreServed, PanicNeedsShutdown,
         At, Crashed, Goto, Goroutines, Creator, Health, Free, Versions
<1>8. CASE HealthCheck
  BY <1>8 DEF HealthCheck,
         TypeOK, Places, CreationFirst, HandlerLife, LockHeld, VersionOrder,
         SnapFresh, FailedCreateLeavesNothing, AckedUsersAreServed, PanicNeedsShutdown,
         At, Crashed, Goto, Goroutines, Creator, Health, Free, Versions
<1>9. CASE HealthCall
  BY <1>9 DEF HealthCall,
         TypeOK, Places, CreationFirst, HandlerLife, LockHeld, VersionOrder,
         SnapFresh, FailedCreateLeavesNothing, AckedUsersAreServed, PanicNeedsShutdown,
         At, Crashed, Goto, Goroutines, Creator, Health, Free, Versions
<1>10. CASE HealthAnswer
  BY <1>10 DEF HealthAnswer,
         TypeOK, Places, CreationFirst, HandlerLife, LockHeld, VersionOrder,
         SnapFresh, FailedCreateLeavesNothing, AckedUsersAreServed, PanicNeedsShutdown,
         At, Crashed, Goto, Goroutines, Creator, Health, Free, Versions
<1>11. CASE HealthError
  BY <1>11 DEF HealthError,
         TypeOK, Places, CreationFirst, HandlerLife, LockHeld, VersionOrder,
         SnapFresh, FailedCreateLeavesNothing, AckedUsersAreServed, PanicNeedsShutdown,
         At, Crashed, Goto, Goroutines, Creator, Health, Free, Versions
<1>12. CASE HealthSleep
  BY <1>12 DEF HealthSleep,
         TypeOK, Places, CreationFirst, HandlerLife, LockHeld, VersionOrder,
         SnapFresh, FailedCreateLeavesNothing, AckedUsersAreServed, PanicNeedsShutdown,
         At, Crashed, Goto, Goroutines, Creator, Health, Free, Versions
<1>13. CASE RestartStop(Health)
  BY <1>13 DEF RestartStop, Lock,
         TypeOK, Places, CreationFirst, HandlerLife, LockHeld, VersionOrder,
         SnapFresh, FailedCreateLeavesNothing, AckedUsersAreServed, PanicNeedsShutdown,
         At, Crashed, Goto, Goroutines, Creator, Health, Free, Versions
<1>14. CASE RestartOk(Health, "sleep") /\ UNCHANGED ackVer
  BY <1>14 DEF RestartOk, Launches, Unlock,
         TypeOK, Places, CreationFirst, HandlerLife, LockHeld, VersionOrder,
         SnapFresh, FailedCreateLeavesNothing, AckedUsersAreServed, PanicNeedsShutdown,
         At, Crashed, Goto, Goroutines, Creator, Health, Free, Versions
<1>15. CASE RestartErr(Health, "sleep")
  BY <1>15 DEF RestartErr, Unlock,
         TypeOK, Places, CreationFirst, HandlerLife, LockHeld, VersionOrder,
         SnapFresh, FailedCreateLeavesNothing, AckedUsersAreServed, PanicNeedsShutdown,
         At, Crashed, Goto, Goroutines, Creator, Health, Free, Versions
<1>16. CASE ProcessDies
  BY <1>16 DEF ProcessDies,
         TypeOK, Places, CreationFirst, HandlerLife, LockHeld, VersionOrder,
         SnapFresh, FailedCreateLeavesNothing, AckedUsersAreServed, PanicNeedsShutdown,
         At, Crashed, Goto, Goroutines, Creator, Health, Free, Versions
<1>17. ASSUME NEW g \in Syncers, SyncEnter(g) PROVE IInv'
  BY <1>17 DEF SyncEnter, Published,
         TypeOK, Places, CreationFirst, HandlerLife, LockHeld, VersionOrder,
         SnapFresh, FailedCreateLeavesNothing, AckedUsersAreServed, PanicNeedsShutdown,
         At, Crashed, Goto, Goroutines, Creator, Health, Free, Versions
<1>18. ASSUME NEW g \in Syncers, SyncUpdate(g) PROVE IInv'
  <2>1. /\ g \in Goroutines /\ g # Creator /\ g # Health
        /\ pc[Creator] = "up" /\ pc[g] = "update"
        /\ pc' = [pc EXCEPT ![g] = "restart"]
    BY <1>18 DEF SyncUpdate, Goto, Goroutines, Creator, Health, Free, TypeOK, CreationFirst
  <2>2. /\ cfgVer' = cfgVer + 1 /\ cfgVer' \in Versions
        /\ own' = [own EXCEPT ![g] = cfgVer + 1]
        /\ UNCHANGED <<proc, runVer, ackVer, snap, ctxDone, handler, mu>>
    BY <1>18 DEF SyncUpdate, TypeOK, Versions
  <2>3. TypeOK'
    BY <2>1, <2>2 DEF TypeOK
  <2>4. Places' /\ CreationFirst' /\ HandlerLife'
    BY <2>1, <2>2 DEF TypeOK, Places, CreationFirst, HandlerLife
  <2>5. LockHeld' /\ SnapFresh'
    BY <2>1, <2>2 DEF TypeOK, LockHeld, SnapFresh
  <2>6. VersionOrder'
    BY <2>2 DEF TypeOK, VersionOrder, Versions
  <2>7. FailedCreateLeavesNothing' /\ AckedUsersAreServed' /\ PanicNeedsShutdown'
    BY <2>1, <2>2 DEF TypeOK, FailedCreateLeavesNothing, AckedUsersAreServed,
                      PanicNeedsShutdown, At, Crashed
  <2> QED BY <2>3, <2>4, <2>5, <2>6, <2>7
<1>19. ASSUME NEW g \in Syncers, RestartStop(g) PROVE IInv'
  BY <1>19 DEF RestartStop, Lock,
         TypeOK, Places, CreationFirst, HandlerLife, LockHeld, VersionOrder,
         SnapFresh, FailedCreateLeavesNothing, AckedUsersAreServed, PanicNeedsShutdown,
         At, Crashed, Goto, Goroutines, Creator, Health, Free, Versions
<1>20. ASSUME NEW g \in Syncers, RestartOk(g, "idle") /\ Acked(g) PROVE IInv'
  BY <1>20 DEF RestartOk, Launches, Acked, Unlock,
         TypeOK, Places, CreationFirst, HandlerLife, LockHeld, VersionOrder,
         SnapFresh, FailedCreateLeavesNothing, AckedUsersAreServed, PanicNeedsShutdown,
         At, Crashed, Goto, Goroutines, Creator, Health, Free, Versions
<1>21. ASSUME NEW g \in Syncers, RestartErr(g, "idle") PROVE IInv'
  BY <1>21 DEF RestartErr, Unlock,
         TypeOK, Places, CreationFirst, HandlerLife, LockHeld, VersionOrder,
         SnapFresh, FailedCreateLeavesNothing, AckedUsersAreServed, PanicNeedsShutdown,
         At, Crashed, Goto, Goroutines, Creator, Health, Free, Versions
<1>22. ASSUME NEW g \in Stoppers, ShutdownBegin(g) PROVE IInv'
  BY <1>22 DEF ShutdownBegin, Published, Lock,
         TypeOK, Places, CreationFirst, HandlerLife, LockHeld, VersionOrder,
         SnapFresh, FailedCreateLeavesNothing, AckedUsersAreServed, PanicNeedsShutdown,
         At, Crashed, Goto, Goroutines, Creator, Health, Free, Versions
<1>23. ASSUME NEW g \in Stoppers, ShutdownEnd(g) PROVE IInv'
  BY <1>23 DEF ShutdownEnd, Unlock,
         TypeOK, Places, CreationFirst, HandlerLife, LockHeld, VersionOrder,
         SnapFresh, FailedCreateLeavesNothing, AckedUsersAreServed, PanicNeedsShutdown,
         At, Crashed, Goto, Goroutines, Creator, Health, Free, Versions
<1> QED
  BY <1>1, <1>2, <1>3, <1>4, <1>5, <1>6, <1>7, <1>8, <1>9, <1>10, <1>11, <1>12,
     <1>13, <1>14, <1>15, <1>16, <1>17, <1>18, <1>19, <1>20, <1>21, <1>22, <1>23
  DEF Next, NewXray, CheckXrayHealth, HealthRestart, SyncUsers, SyncRestart, Shutdown

LEMMA Invariance == Spec => []IInv
BY InitIInv, NextIInv, PTL DEF Spec

(* Every variable keeps its type, for any number of requests.              *)
THEOREM TypeCorrect == Spec => []TypeOK
<1>1. IInv => TypeOK
  BY DEF IInv
<1> QED BY <1>1, Invariance, PTL

(* xray.go:77-86: a NewXray that fails leaves no process, wherever in its  *)
(* course it fails.                                                        *)
THEOREM FailedCreateClean == Spec => []FailedCreateLeavesNothing
<1>1. IInv => FailedCreateLeavesNothing
  BY DEF IInv
<1> QED BY <1>1, Invariance, PTL

(* user.go:166-172 and core.go:172-203: however many SyncUsers run at once *)
(* and whoever launches the core, a running core has the users of every    *)
(* SyncUsers that has returned nil.                                        *)
THEOREM AckedUsersServed == Spec => []AckedUsersAreServed
<1>1. IInv => AckedUsersAreServed
  BY DEF IInv
<1> QED BY <1>1, Invariance, PTL

(* jobs.go:61: the health check dereferences a client that is not there    *)
(* only after Shutdown has closed it.                                      *)
THEOREM PanicOnlyAfterShutdown == Spec => []PanicNeedsShutdown
<1>1. IInv => PanicNeedsShutdown
  BY DEF IInv
<1> QED BY <1>1, Invariance, PTL

-----------------------------------------------------------------------------
(* What the core runs with, and who has been told, changes by a launch     *)
(* with a copy of the config that is not older.                            *)
LEMMA RefinesLaunch ==
  ASSUME IInv, NEW g \in Syncers \cup {Health}, NEW to, RestartOk(g, to),
         Acked(g) \/ UNCHANGED ackVer
  PROVE  Store!Launch
<1>1. /\ g \in Goroutines /\ pc[g] = "launch"
      /\ proc' = "running" /\ runVer' = snap[g] /\ UNCHANGED cfgVer
  BY DEF RestartOk, Goto, Launches, Goroutines
<1>2. /\ proc = "none" /\ snap[g] >= ackVer /\ snap[g] >= runVer /\ snap[g] >= own[g]
      /\ snap[g] <= cfgVer
  BY <1>1 DEF IInv, LockHeld, SnapFresh, VersionOrder
<1>3. /\ snap[g] \in Nat /\ own[g] \in Nat
      /\ runVer \in Nat /\ ackVer \in Nat /\ cfgVer \in Nat
  BY <1>1, XrayAssumption DEF IInv, TypeOK, Versions
<1>4. ackVer' \in ackVer..snap[g]
  BY <1>2, <1>3 DEF Acked
<1> QED BY <1>1, <1>2, <1>3, <1>4 DEF Store!Launch, Up

LEMMA RefinesStep == IInv /\ [Next]_vars => [Store!Next]_Store!vars
<1> SUFFICES ASSUME IInv, [Next]_vars
             PROVE  Store!Next \/ UNCHANGED <<cfgVer, Up, runVer, ackVer>>
  BY DEF Store!vars
<1>1. ASSUME UNCHANGED <<cfgVer, runVer, ackVer>>,
             proc' = proc \/ (proc' # "running" /\ (Up => ~Up'))
      PROVE  Store!Next \/ UNCHANGED <<cfgVer, Up, runVer, ackVer>>
  BY <1>1 DEF Store!Next, Store!End, Up
<1>2. CASE CreateLaunch
  <2>1. /\ proc # "running" /\ proc' = "running" /\ runVer' = cfgVer
        /\ UNCHANGED <<cfgVer, ackVer>>
    BY <1>2 DEF IInv, CreationFirst, CreateLaunch, Goto
  <2>2. runVer <= cfgVer /\ ackVer <= cfgVer /\ {cfgVer, runVer, ackVer} \subseteq Nat
    BY XrayAssumption DEF IInv, VersionOrder, TypeOK, Versions
  <2> QED BY <2>1, <2>2 DEF Store!Next, Store!Launch, Up
<1>3. CASE NewXray /\ ~CreateLaunch
  BY <1>1, <1>3 DEF NewXray, CreateFails, StatusSeen, HandlerFails, HandlerOpens, Abort, Up
<1>4. ASSUME NEW g \in Syncers \cup {Health}, RestartStop(g) \/ \E to : RestartErr(g, to)
      PROVE  Store!Next \/ UNCHANGED <<cfgVer, Up, runVer, ackVer>>
  BY <1>1, <1>4 DEF RestartStop, RestartErr, Up
<1>5. CASE CheckXrayHealth
  <2>1. CASE RestartOk(Health, "sleep") /\ UNCHANGED ackVer
    BY <2>1, RefinesLaunch DEF Store!Next
  <2> QED BY <1>1, <1>4, <1>5, <2>1
          DEF CheckXrayHealth, HealthCheck, HealthCall, HealthAnswer, HealthError, HealthSleep,
              HealthRestart
<1>6. ASSUME NEW g \in Syncers, SyncUsers(g)
      PROVE  Store!Next \/ UNCHANGED <<cfgVer, Up, runVer, ackVer>>
  <2>1. CASE SyncUpdate(g)
    BY <2>1 DEF SyncUpdate, Store!Next, Store!Bring, Up
  <2>2. CASE RestartOk(g, "idle") /\ Acked(g)
    BY <2>2, RefinesLaunch DEF Store!Next
  <2> QED BY <1>1, <1>4, <1>6, <2>1, <2>2 DEF SyncUsers, SyncEnter, SyncRestart
<1>7. CASE ProcessDies \/ \E g \in Stoppers : Shutdown(g)
  BY <1>1, <1>7 DEF ProcessDies, Shutdown, ShutdownBegin, ShutdownEnd, Up
<1>8. CASE UNCHANGED vars
  BY <1>1, <1>8 DEF vars
<1> QED BY <1>2, <1>3, <1>5, <1>6, <1>7, <1>8 DEF Next

(* Xray implements UserStore, for any number of requests: whoever restarts *)
(* the core, its users never go back to an older list, and a SyncUsers     *)
(* returns nil only with its own users in the core.                        *)
THEOREM Implements == Spec => ImplementsUserStore
<1>1. Init => Store!Init
  BY DEF Init, Store!Init, Up
<1> QED BY <1>1, Invariance, RefinesStep, PTL DEF Spec, ImplementsUserStore, Store!Spec
=============================================================================
