-------------------------------- MODULE Xray --------------------------------
(***************************************************************************)
(* backend/xray/xray.go and jobs.go: one backend, from NewXray to after    *)
(* Shutdown.  Its goroutines are the one that creates it, the health check *)
(* it leaves behind, requests that run SyncUsers, and callers of Shutdown. *)
(* Core is reduced to the process it tracks (module Core has the rest);    *)
(* the users in the config are reduced to a version that SyncUsers raises. *)
(***************************************************************************)
EXTENDS Naturals

CONSTANTS Syncers,      \* requests that may call SyncUsers
          Stoppers,     \* goroutines that may call Shutdown
          MaxVersion    \* bound: calls of SyncUsers explored

Creator == "creator"
Health == "health"
Free == "free"
Goroutines == {Creator, Health} \cup Syncers \cup Stoppers

ASSUME XrayAssumption ==
  MaxVersion \in Nat /\ {Creator, Health, Free} \cap (Syncers \cup Stoppers) = {}

VARIABLES
  proc,        \* the process Core tracks: "none", "running" or "dead"
  cfgVer,      \* version of the users in Xray.config
  runVer,      \* version the last launched process was given
  ackVer,      \* newest version whose SyncUsers has returned nil
  snap,        \* snap[g]: version g took with ToBytes for the next launch
  own,         \* own[g]: version g put into the config
  ctxDone,     \* the context of checkXrayHealth is cancelled
  handler,     \* Xray.handler: "nil", "open", "closed" (its clients are nil)
  mu,          \* Xray.mu: its writer, or Free
  pc           \* where each goroutine is

vars == <<proc, cfgVer, runVer, ackVer, snap, own, ctxDone, handler, mu, pc>>

Versions == 0..MaxVersion

TypeOK ==
  /\ proc \in {"none", "running", "dead"}
  /\ cfgVer \in Versions /\ runVer \in Versions /\ ackVer \in Versions
  /\ snap \in [Goroutines -> Versions] /\ own \in [Goroutines -> Versions]
  /\ ctxDone \in BOOLEAN
  /\ handler \in {"nil", "open", "closed"}
  /\ mu \in Goroutines \cup {Free}
  /\ pc \in [Goroutines -> {"idle", "start", "status", "handler", "abort", "up", "failed",
                            "check", "call", "wait", "sleep", "done", "panicked",
                            "update", "restart", "launch", "close"}]

Init ==
  /\ proc = "none" /\ cfgVer = 0 /\ runVer = 0 /\ ackVer = 0
  /\ snap = [g \in Goroutines |-> 0] /\ own = [g \in Goroutines |-> 0]
  /\ ctxDone = FALSE /\ handler = "nil" /\ mu = Free
  /\ pc = [g \in Goroutines |-> IF g = Creator THEN "start" ELSE "idle"]

At(g, l) == pc[g] = l
(* A nil dereference in a goroutine ends the node.                         *)
Crashed == At(Health, "panicked")

Goto(g, from, to) == ~Crashed /\ pc[g] = from /\ pc' = [pc EXCEPT ![g] = to]

Lock(g) == mu = Free /\ mu' = g
Unlock(g) == mu = g /\ mu' = Free

(* Controller hands the backend out from the return of NewXray until the   *)
(* call of Shutdown.                                                       *)
Published == At(Creator, "up") /\ ~ctxDone

-----------------------------------------------------------------------------
(* NewXray gives up before the launch: the config cannot be completed, the *)
(* binary does not answer, or core.Start fails.                            *)
CreateFails ==
  /\ Goto(Creator, "start", "failed")
  /\ UNCHANGED <<proc, cfgVer, runVer, ackVer, snap, own, ctxDone, handler, mu>>

(* core.Start succeeds; checkXrayStatus takes the lock to read the log.    *)
CreateLaunch ==
  /\ Goto(Creator, "start", "status")
  /\ proc' = "running" /\ runVer' = cfgVer
  /\ Lock(Creator)
  /\ UNCHANGED <<cfgVer, ackVer, snap, own, ctxDone, handler>>

(* checkXrayStatus saw the line that says the core has started, or one     *)
(* that says it failed, or none for ten seconds.                           *)
StatusSeen(to) ==
  /\ Goto(Creator, "status", to)
  /\ Unlock(Creator)
  /\ UNCHANGED <<proc, cfgVer, runVer, ackVer, snap, own, ctxDone, handler>>

HandlerFails ==
  /\ Goto(Creator, "handler", "abort")
  /\ UNCHANGED <<proc, cfgVer, runVer, ackVer, snap, own, ctxDone, handler, mu>>

(* The API client is there: NewXray starts the health check and returns.   *)
HealthFirst ==                                                  \* mutant
  \/ /\ At(Creator, "handler") /\ At(Health, "idle")
     /\ pc' = [pc EXCEPT ![Health] = "check"]
     /\ UNCHANGED <<proc, cfgVer, runVer, ackVer, snap, own, ctxDone, handler, mu>>
  \/ /\ Goto(Creator, "handler", "up")
     /\ handler' = "open"
     /\ UNCHANGED <<proc, cfgVer, runVer, ackVer, snap, own, ctxDone, mu>>
HandlerOpens ==
  /\ At(Creator, "handler")
  /\ handler' = "open"
  /\ pc' = [pc EXCEPT ![Creator] = "up", ![Health] = "check"]
  /\ UNCHANGED <<proc, cfgVer, runVer, ackVer, snap, own, ctxDone, mu>>

(* NewXray shuts the half-made backend down (there is no handler to close).*)
AbortLeaves ==                                                  \* mutant
  /\ Goto(Creator, "abort", "failed")
  /\ UNCHANGED <<proc, cfgVer, runVer, ackVer, snap, own, ctxDone, handler, mu>>
Abort ==
  /\ Goto(Creator, "abort", "failed")
  /\ mu = Free
  /\ ctxDone' = TRUE
  /\ proc' = IF proc = "running" THEN "none" ELSE proc
  /\ UNCHANGED <<cfgVer, runVer, ackVer, snap, own, handler, mu>>

NewXray == \/ CreateFails \/ CreateLaunch
           \/ StatusSeen("handler") \/ StatusSeen("abort")
           \/ HandlerFails \/ HandlerOpens \/ Abort

-----------------------------------------------------------------------------
(* Restart holds the lock from the kill to the launch.  The config is read *)
(* after the kill, without any lock that SyncUsers takes for its update.   *)
RestartStop(g) ==
  /\ Goto(g, "restart", "launch")
  /\ Lock(g)
  /\ proc' = "none"
  /\ snap' = [snap EXCEPT ![g] = cfgVer]
  /\ UNCHANGED <<cfgVer, runVer, ackVer, own, ctxDone, handler>>

LaunchesOwn(g) == proc' = "running" /\ runVer' = own[g]          \* mutant
Launches(g) == proc' = "running" /\ runVer' = snap[g]

(* The caller of Restart goes on at `to'.                                  *)
RestartOk(g, to) ==
  /\ Goto(g, "launch", to)
  /\ Launches(g)
  /\ Unlock(g)
  /\ UNCHANGED <<cfgVer, snap, own, ctxDone, handler>>

RestartErrKeepsLock(g, to) ==                                   \* mutant
  /\ Goto(g, "launch", to)
  /\ UNCHANGED <<proc, cfgVer, runVer, ackVer, snap, own, ctxDone, handler, mu>>
RestartErr(g, to) ==
  /\ Goto(g, "launch", to)
  /\ Unlock(g)
  /\ UNCHANGED <<proc, cfgVer, runVer, ackVer, snap, own, ctxDone, handler>>

(* Shutdown: the context and the process first, then the API client.       *)
ShutdownBegin(g) ==
  /\ Published
  /\ Goto(g, "idle", "close")
  /\ Lock(g)
  /\ ctxDone' = TRUE
  /\ proc' = IF proc = "running" THEN "none" ELSE proc
  /\ UNCHANGED <<cfgVer, runVer, ackVer, snap, own, handler>>

ShutdownEnd(g) ==
  /\ Goto(g, "close", "done")
  /\ Unlock(g)
  /\ handler' = "closed"
  /\ UNCHANGED <<proc, cfgVer, runVer, ackVer, snap, own, ctxDone>>

Shutdown(g) == ShutdownBegin(g) \/ ShutdownEnd(g)

-----------------------------------------------------------------------------
(* checkXrayHealth, every five seconds: leave if the context is cancelled; *)
(* reach for the API client, which panics if Shutdown has set it to nil;   *)
(* wait at most three seconds for the answer.                              *)
HealthNoCheck ==                                                \* mutant
  /\ Goto(Health, "check", "call")
  /\ UNCHANGED <<proc, cfgVer, runVer, ackVer, snap, own, ctxDone, handler, mu>>
HealthCheck ==
  /\ Goto(Health, "check", IF ctxDone THEN "done" ELSE "call")
  /\ UNCHANGED <<proc, cfgVer, runVer, ackVer, snap, own, ctxDone, handler, mu>>

HealthCall ==
  /\ Goto(Health, "call", IF handler = "open" THEN "wait" ELSE "panicked")
  /\ UNCHANGED <<proc, cfgVer, runVer, ackVer, snap, own, ctxDone, handler, mu>>

HealthAnswer ==
  /\ proc = "running"
  /\ Goto(Health, "wait", "sleep")
  /\ UNCHANGED <<proc, cfgVer, runVer, ackVer, snap, own, ctxDone, handler, mu>>

(* Any error leads to Restart.  The exit on context.Canceled is not there: *)
(* GetSysStats turns every error into a status error that wraps nothing,   *)
(* so errors.Is never recognises the cancellation.                         *)
HealthGivesUp ==                                                \* mutant
  /\ Goto(Health, "wait", "done")
  /\ UNCHANGED <<proc, cfgVer, runVer, ackVer, snap, own, ctxDone, handler, mu>>
HealthError ==
  /\ Goto(Health, "wait", "restart")
  /\ UNCHANGED <<proc, cfgVer, runVer, ackVer, snap, own, ctxDone, handler, mu>>

HealthSleep ==
  /\ Goto(Health, "sleep", "check")
  /\ UNCHANGED <<proc, cfgVer, runVer, ackVer, snap, own, ctxDone, handler, mu>>

HealthRestart == \/ RestartStop(Health)
                 \/ RestartOk(Health, "sleep") /\ UNCHANGED ackVer
                 \/ RestartErr(Health, "sleep")

CheckXrayHealth == \/ HealthCheck \/ HealthCall \/ HealthAnswer \/ HealthError
                   \/ HealthRestart \/ HealthSleep

-----------------------------------------------------------------------------
(* A request has read the backend from Controller; SyncUsers then replaces *)
(* the users inbound by inbound, and restarts the core.                    *)
SyncEnter(g) ==
  /\ Published /\ cfgVer < MaxVersion
  /\ Goto(g, "idle", "update")
  /\ UNCHANGED <<proc, cfgVer, runVer, ackVer, snap, own, ctxDone, handler, mu>>

SyncUpdate(g) ==
  /\ cfgVer < MaxVersion
  /\ Goto(g, "update", "restart")
  /\ cfgVer' = cfgVer + 1
  /\ own' = [own EXCEPT ![g] = cfgVer + 1]
  /\ UNCHANGED <<proc, runVer, ackVer, snap, ctxDone, handler, mu>>

AckedAhead(g) == ackVer' = own[g] + 1                           \* mutant
Acked(g) == ackVer' = IF own[g] > ackVer THEN own[g] ELSE ackVer

SyncCoalesced(g) ==                                             \* mutant
  \/ RestartStop(g)
  \/ RestartOk(g, "idle") /\ Acked(g)
  \/ RestartErr(g, "idle")
  \/ /\ mu # Free
     /\ Goto(g, "restart", "idle")
     /\ Acked(g)
     /\ UNCHANGED <<proc, cfgVer, runVer, snap, own, ctxDone, handler, mu>>
SyncRestart(g) == \/ RestartStop(g)
                  \/ RestartOk(g, "idle") /\ Acked(g)
                  \/ RestartErr(g, "idle")

SyncUsers(g) == SyncEnter(g) \/ SyncUpdate(g) \/ SyncRestart(g)

-----------------------------------------------------------------------------
(* The process dies and is reaped.                                         *)
ProcessDies ==
  /\ ~Crashed /\ proc = "running"
  /\ proc' = "dead"
  /\ UNCHANGED <<cfgVer, runVer, ackVer, snap, own, ctxDone, handler, mu, pc>>

Next ==
  \/ NewXray \/ CheckXrayHealth \/ ProcessDies
  \/ \E g \in Syncers : SyncUsers(g)
  \/ \E g \in Stoppers : Shutdown(g)

Spec == Init /\ [][Next]_vars

(* Goroutines run on, and a lock that keeps becoming free is acquired      *)
(* (sync.RWMutex does not starve a writer).  An assumption on the world:   *)
(* launches do not fail for ever.                                          *)
Fairness ==
  /\ WF_vars(NewXray)
  /\ WF_vars(CheckXrayHealth) /\ SF_vars(RestartStop(Health))
  /\ SF_vars(RestartOk(Health, "sleep") /\ UNCHANGED ackVer)
  /\ \A g \in Syncers : /\ WF_vars((SyncUpdate(g) \/ SyncRestart(g)))
                        /\ SF_vars(RestartStop(g))
  /\ \A g \in Stoppers : WF_vars(ShutdownEnd(g))

FairSpec == Spec /\ Fairness

-----------------------------------------------------------------------------
(* xray.go:77-86: a NewXray that returns an error leaves no process behind.*)
FailedCreateLeavesNothing == At(Creator, "failed") => proc # "running"

(* A running core has the users of every SyncUsers that has reported       *)
(* success, whichever of the health check, this request or another one     *)
(* launched it and whenever it took its copy of the config.                *)
AckedUsersAreServed == proc = "running" => runVer >= ackVer

(* xray.go:114-121, jobs.go:72-80, user.go:166-172: however the restarts   *)
(* of requests and of the health check overlap with each other and with    *)
(* updates of the config, there is one core at a time, no launch brings an *)
(* older list back, and a request succeeds only by a launch with its list. *)
Up == proc = "running"

Store == INSTANCE UserStore
           WITH newest <- cfgVer, running <- Up, served <- runVer, acked <- ackVer

ImplementsUserStore == Store!Spec

(* Every path out of Restart, Shutdown and checkXrayStatus gives the lock  *)
(* back: no failure freezes the backend.                                   *)
LockReleased == \A g \in Goroutines : mu = g ~> mu # g \/ Crashed

(* jobs.go:72-76: a core that has died is launched again, until Shutdown.  *)
CoreRevived ==
  Published /\ proc # "running" ~> proc = "running" \/ ctxDone \/ Crashed

(* jobs.go:56-58: a health check that sleeps when Shutdown comes leaves    *)
(* quietly; only one that is in the middle of its call can do worse.       *)
SleeperExits == At(Health, "sleep") /\ ctxDone ~> At(Health, "done")

(* The health check, which uses Xray.handler without a lock, panics only   *)
(* when Shutdown closed it: it never meets a handler that is not there yet.*)
PanicNeedsShutdown == Crashed => ctxDone /\ handler = "closed"

(* jobs.go:66-67, "Context was canceled due to x.ctx cancellation" and     *)
(* "Exit gracefully": after Shutdown has returned nothing runs.            *)
StaysDown == handler = "closed" => proc # "running"
=============================================================================
