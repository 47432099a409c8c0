----------------------------- MODULE Controller -----------------------------
(***************************************************************************)
(* The node as its clients see it: controller.go with the REST and gRPC    *)
(* handlers that drive it, the keep-alive trackers and main.  Handlers run *)
(* concurrently, one goroutine per request.  A backend is reduced to       *)
(* whether it is up, which it is from a successful NewXray to Shutdown;    *)
(* module Xray has the rest.  A critical section of Controller.mu is one   *)
(* action, except StartBackend, which holds the lock while xray starts.    *)
(* clientIP, stats and apiPort are only reported or handed on.             *)
(***************************************************************************)
EXTENDS Naturals

CONSTANTS Protocols,    \* values of SERVICE_PROTOCOL considered
          Starters,     \* requests that may call Start
          Callers,      \* requests that may call anything else
          KeepAlives,   \* keep_alive values clients send; 0 asks for none
          MaxIdle,      \* bound: idle time that is told apart
          MaxStarts     \* bound: calls of Start explored

Requests == Starters \cup Callers
Ids == 1..MaxStarts     \* backends and sessions, numbered as they are made
None == 0               \* no backend; the cancelFunc that New leaves
Free == "free"

ASSUME ControllerAssumption ==
  /\ Protocols \subseteq {"rest", "grpc"}
  /\ MaxIdle \in Nat /\ MaxStarts \in Nat /\ KeepAlives \subseteq 0..MaxIdle
  /\ Starters \cap Callers = {} /\ Free \notin Requests

VARIABLES
  protocol,    \* SERVICE_PROTOCOL, which main reads once
  backend,     \* Controller.backend
  cancelFunc,  \* Controller.cancelFunc: the session it cancels
  idle,        \* time since Controller.lastRequest, up to MaxIdle
  mu,          \* Controller.mu: the request in StartBackend, or Free
  up,          \* backends that have been started and not shut down
  starts,      \* calls of Start so far
  born,        \* backends made so far
  sessions,    \* calls of Connect so far
  cancelled,   \* sessions whose context is cancelled (their recorder ends)
  keepAlive,   \* keepAlive[s]: the keep-alive time of session s
  tracker,     \* tracker[s]: where keepAliveTracker of session s is
  pc,          \* where each request is
  held,        \* held[r]: the backend r was admitted to, or uses, until its call ends
  main,        \* where main is
  drained      \* no Start was in flight when main went on

vars == <<protocol, backend, cancelFunc, idle, mu, up, starts, born, sessions, cancelled,
          keepAlive, tracker, pc, held, main, drained>>

TypeOK ==
  /\ protocol \in Protocols
  /\ backend \in Ids \cup {None} /\ cancelFunc \in Ids \cup {None}
  /\ idle \in 0..MaxIdle
  /\ mu \in Requests \cup {Free}
  /\ up \subseteq Ids /\ cancelled \subseteq Ids
  /\ starts \in 0..MaxStarts /\ born \in 0..MaxStarts /\ sessions \in 0..MaxStarts
  /\ keepAlive \in [Ids -> KeepAlives \cup {0}]
  /\ tracker \in [Ids -> {"none", "sleep", "read", "cancel", "cut", "done"}]
  /\ pc \in [Requests -> {"idle", "look", "cancel", "cut", "connect", "boot", "booting",
                          "gate", "call", "use", "stop", "stopping", "panicked"}]
  /\ held \in [Requests -> Ids \cup {None}]
  /\ main \in {"serve", "drain", "cancel", "cut", "leave", "exit"}
  /\ drained \in BOOLEAN

Init ==
  /\ protocol \in Protocols
  /\ backend = None /\ cancelFunc = None /\ idle = 0 /\ mu = Free
  /\ up = {} /\ starts = 0 /\ born = 0 /\ sessions = 0 /\ cancelled = {}
  /\ keepAlive = [s \in Ids |-> 0]
  /\ tracker = [s \in Ids |-> "none"]
  /\ pc = [r \in Requests |-> "idle"]
  /\ held = [r \in Requests |-> None]
  /\ main = "serve" /\ drained = FALSE

(* A panic in a gRPC handler ends the node; chi's Recoverer catches the    *)
(* REST ones.                                                              *)
Crashed == protocol = "grpc" /\ \E r \in Requests : pc[r] = "panicked"
Running == ~Crashed /\ main # "exit"

Goto(r, from, to) == Running /\ pc[r] = from /\ pc' = [pc EXCEPT ![r] = to]
Track(s, from, to) ==
  Running /\ tracker[s] = from /\ tracker' = [tracker EXCEPT ![s] = to]

-----------------------------------------------------------------------------
(* Disconnect, in its two parts: it calls cancelFunc before it asks for    *)
(* the lock, under which it shuts the backend down.                        *)
CancelNil == cancelled' = cancelled \cup {cancelFunc}            \* mutant
CancelSession == cancelled' = cancelled \cup ({cancelFunc} \ {None})

KeepBackend ==                                                  \* mutant
  mu = Free /\ up' = up \ {backend} /\ UNCHANGED backend
ForgetBackend ==                                                \* mutant
  mu = Free /\ backend' = None /\ UNCHANGED up
ShutdownBackend ==
  mu = Free /\ up' = up \ {backend} /\ backend' = None

Cancel(r, from, to) ==
  /\ Goto(r, from, to)
  /\ CancelSession
  /\ UNCHANGED <<protocol, backend, cancelFunc, idle, mu, up, starts, born, sessions,
                 keepAlive, tracker, held, main, drained>>

Cut(r, from, to) ==
  /\ Goto(r, from, to)
  /\ ShutdownBackend
  /\ UNCHANGED <<protocol, cancelFunc, idle, mu, starts, born, sessions, cancelled,
                 keepAlive, tracker, held, main, drained>>

(* The API key is right: validateApiKey notes the time of the request.     *)
NewRequest == mu = Free /\ idle' = 0

-----------------------------------------------------------------------------
(* Start: a client takes over.  REST connects the session before it starts *)
(* the backend, gRPC afterwards and only if that succeeded.                *)
BeforeBoot == IF protocol = "rest" THEN "connect" ELSE "boot"
AfterConnect == IF protocol = "rest" THEN "boot" ELSE "idle"
AfterBoot == IF protocol = "rest" THEN "idle" ELSE "connect"

StartEnter(r) ==
  /\ main = "serve" /\ starts < MaxStarts
  /\ Goto(r, "idle", "look")
  /\ NewRequest
  /\ starts' = starts + 1
  /\ UNCHANGED <<protocol, backend, cancelFunc, mu, up, born, sessions, cancelled,
                 keepAlive, tracker, held, main, drained>>

(* detectBackend refuses the config, or panics on it.                      *)
NotDetected(r, to) ==
  /\ Goto(r, "look", to)
  /\ UNCHANGED <<protocol, backend, cancelFunc, idle, mu, up, starts, born, sessions,
                 cancelled, keepAlive, tracker, held, main, drained>>

LookAway(r) ==                                                  \* mutant
  /\ Goto(r, "look", BeforeBoot)
  /\ UNCHANGED <<protocol, backend, cancelFunc, idle, mu, up, starts, born, sessions,
                 cancelled, keepAlive, tracker, held, main, drained>>
Look(r) ==
  /\ mu = Free
  /\ Goto(r, "look", IF backend # None THEN "cancel" ELSE BeforeBoot)
  /\ UNCHANGED <<protocol, backend, cancelFunc, idle, mu, up, starts, born, sessions,
                 cancelled, keepAlive, tracker, held, main, drained>>

Connect(r) ==
  /\ mu = Free
  /\ Goto(r, "connect", AfterConnect)
  /\ idle' = 0
  /\ sessions' = sessions + 1
  /\ cancelFunc' = sessions + 1
  /\ \E k \in KeepAlives :
       /\ keepAlive' = [keepAlive EXCEPT ![sessions + 1] = k]
       /\ tracker' = [tracker EXCEPT ![sessions + 1] = IF k > 0 THEN "sleep" ELSE "none"]
  /\ UNCHANGED <<protocol, backend, mu, up, starts, born, cancelled, held, main,
                 drained>>

BootBegin(r) ==
  /\ mu = Free
  /\ Goto(r, "boot", "booting")
  /\ mu' = r
  /\ UNCHANGED <<protocol, backend, cancelFunc, idle, up, starts, born, sessions,
                 cancelled, keepAlive, tracker, held, main, drained>>

(* NewXray succeeds; a backend that is still there is simply replaced.     *)
BootOk(r) ==
  /\ Goto(r, "booting", AfterBoot)
  /\ mu' = Free
  /\ born' = born + 1
  /\ up' = up \cup {born + 1}
  /\ backend' = born + 1
  /\ UNCHANGED <<protocol, cancelFunc, idle, starts, sessions, cancelled, keepAlive,
                 tracker, held, main, drained>>

(* NewXray returns an error, or panics on the config or the users; the     *)
(* lock is given back either way.                                          *)
BootFailsLocked(r, to) ==                                       \* mutant
  /\ Goto(r, "booting", to)
  /\ UNCHANGED <<protocol, backend, cancelFunc, idle, mu, up, starts, born, sessions,
                 cancelled, keepAlive, tracker, held, main, drained>>
BootFails(r, to) ==
  /\ Goto(r, "booting", to)
  /\ mu' = Free
  /\ UNCHANGED <<protocol, backend, cancelFunc, idle, up, starts, born, sessions,
                 cancelled, keepAlive, tracker, held, main, drained>>

(* chi's Recoverer answers for a handler that has panicked.                *)
Recover(r) ==
  /\ protocol = "rest"
  /\ Goto(r, "panicked", "idle")
  /\ UNCHANGED <<protocol, backend, cancelFunc, idle, mu, up, starts, born, sessions,
                 cancelled, keepAlive, tracker, held, main, drained>>

Start(r) == \/ StartEnter(r) \/ Look(r)
            \/ NotDetected(r, "idle") \/ NotDetected(r, "panicked")
            \/ Cancel(r, "cancel", "cut") \/ Cut(r, "cut", BeforeBoot)
            \/ Connect(r) \/ BootBegin(r) \/ BootOk(r)
            \/ BootFails(r, "idle") \/ BootFails(r, "panicked") \/ Recover(r)

-----------------------------------------------------------------------------
(* Every other request: it is turned away unless a backend is there and    *)
(* its core has started.  The handler then reads the backend once more.    *)
CallEnter(r) ==
  /\ main = "serve"
  /\ Goto(r, "idle", "gate")
  /\ NewRequest
  /\ UNCHANGED <<protocol, backend, cancelFunc, mu, up, starts, born, sessions,
                 cancelled, keepAlive, tracker, held, main, drained>>

Refused(r) ==
  /\ mu = Free
  /\ Goto(r, "gate", "idle")
  /\ UNCHANGED <<protocol, backend, cancelFunc, idle, mu, up, starts, born, sessions,
                 cancelled, keepAlive, tracker, held, main, drained>>

Admitted(r, to) ==
  /\ mu = Free
  /\ backend # None
  /\ Goto(r, "gate", to)
  /\ held' = [held EXCEPT ![r] = IF to = "call" THEN backend ELSE None]
  /\ UNCHANGED <<protocol, backend, cancelFunc, idle, mu, up, starts, born, sessions,
                 cancelled, keepAlive, tracker, main, drained>>

(* s.Backend().GetStats(...): a nil interface panics.                      *)
Call(r) ==
  /\ mu = Free
  /\ Goto(r, "call", IF backend = None THEN "panicked" ELSE "use")
  /\ held' = [held EXCEPT ![r] = backend]
  /\ UNCHANGED <<protocol, backend, cancelFunc, idle, mu, up, starts, born, sessions,
                 cancelled, keepAlive, tracker, main, drained>>

(* The call returns or panics: it reaches for an API client that Shutdown  *)
(* set to nil or, with the backend up, for the account of an invalid id.   *)
UseEnds(r, to) ==
  /\ Goto(r, "use", to)
  /\ held' = [held EXCEPT ![r] = None]
  /\ UNCHANGED <<protocol, backend, cancelFunc, idle, mu, up, starts, born, sessions,
                 cancelled, keepAlive, tracker, main, drained>>

(* The gRPC stream of SyncUser reads the backend anew for every user.      *)
NextUser(r) ==
  /\ protocol = "grpc"
  /\ Goto(r, "use", "call")
  /\ UNCHANGED <<protocol, backend, cancelFunc, idle, mu, up, starts, born, sessions,
                 cancelled, keepAlive, tracker, held, main, drained>>

Other(r) == \/ CallEnter(r) \/ Refused(r) \/ Admitted(r, "call") \/ Admitted(r, "stop")
            \/ Call(r) \/ NextUser(r) \/ Recover(r)
            \/ UseEnds(r, "idle") \/ UseEnds(r, "panicked")
            \/ Cancel(r, "stop", "stopping") \/ Cut(r, "stopping", "idle")

-----------------------------------------------------------------------------
(* keepAliveTracker looks every five seconds whether its context is        *)
(* cancelled and how long ago the last request came; it disconnects on     *)
(* what it has read, and cancels whatever session is current by then.      *)
TrackerWakes(s) ==
  /\ Track(s, "sleep", IF s \in cancelled THEN "done" ELSE "read")
  /\ UNCHANGED <<protocol, backend, cancelFunc, idle, mu, up, starts, born, sessions,
                 cancelled, keepAlive, pc, held, main, drained>>

TrackerReadsOnce(s) ==                                          \* mutant
  /\ mu = Free
  /\ Track(s, "read", IF idle >= keepAlive[s] THEN "cancel" ELSE "done")
  /\ UNCHANGED <<protocol, backend, cancelFunc, idle, mu, up, starts, born, sessions,
                 cancelled, keepAlive, pc, held, main, drained>>
TrackerReads(s) ==
  /\ mu = Free
  /\ Track(s, "read", IF idle >= keepAlive[s] THEN "cancel" ELSE "sleep")
  /\ UNCHANGED <<protocol, backend, cancelFunc, idle, mu, up, starts, born, sessions,
                 cancelled, keepAlive, pc, held, main, drained>>

TrackerCancels(s) ==
  /\ Track(s, "cancel", "cut")
  /\ CancelSession
  /\ UNCHANGED <<protocol, backend, cancelFunc, idle, mu, up, starts, born, sessions,
                 keepAlive, pc, held, main, drained>>

TrackerCuts(s) ==
  /\ Track(s, "cut", "sleep")
  /\ ShutdownBackend
  /\ UNCHANGED <<protocol, cancelFunc, idle, mu, starts, born, sessions, cancelled,
                 keepAlive, pc, held, main, drained>>

KeepAliveTracker(s) ==
  TrackerWakes(s) \/ TrackerReads(s) \/ TrackerCancels(s) \/ TrackerCuts(s)

Tick ==
  /\ Running /\ idle < MaxIdle
  /\ idle' = idle + 1
  /\ UNCHANGED <<protocol, backend, cancelFunc, mu, up, starts, born, sessions,
                 cancelled, keepAlive, tracker, pc, held, main, drained>>

-----------------------------------------------------------------------------
(* main: on a signal no new request is taken, those in flight get ten      *)
(* seconds, and Disconnect runs before the process exits; requests that    *)
(* outlive the drain run on until then.                                    *)
MainStep(from, to) == Running /\ main = from /\ main' = to

Signal ==
  /\ MainStep("serve", "drain")
  /\ UNCHANGED <<protocol, backend, cancelFunc, idle, mu, up, starts, born, sessions,
                 cancelled, keepAlive, tracker, pc, held, drained>>

DrainEnds ==
  /\ MainStep("drain", "cancel")
  /\ drained' = \A r \in Starters : pc[r] = "idle"
  /\ UNCHANGED <<protocol, backend, cancelFunc, idle, mu, up, starts, born, sessions,
                 cancelled, keepAlive, tracker, pc, held>>

MainCancels ==
  /\ MainStep("cancel", "cut")
  /\ CancelSession
  /\ UNCHANGED <<protocol, backend, cancelFunc, idle, mu, up, starts, born, sessions,
                 keepAlive, tracker, pc, held, drained>>

MainLeavesAtOnce ==                                             \* mutant
  /\ MainStep("cut", "leave")
  /\ UNCHANGED <<protocol, backend, cancelFunc, idle, mu, up, starts, born, sessions,
                 cancelled, keepAlive, tracker, pc, held, drained>>
MainCuts ==
  /\ MainStep("cut", "leave")
  /\ ShutdownBackend
  /\ UNCHANGED <<protocol, cancelFunc, idle, mu, starts, born, sessions, cancelled,
                 keepAlive, tracker, pc, held, drained>>

MainExits ==
  /\ MainStep("leave", "exit")
  /\ UNCHANGED <<protocol, backend, cancelFunc, idle, mu, up, starts, born, sessions,
                 cancelled, keepAlive, tracker, pc, held, drained>>

Main == Signal \/ DrainEnds \/ MainCancels \/ MainCuts \/ MainExits

-----------------------------------------------------------------------------
Next ==
  \/ \E r \in Starters : Start(r)
  \/ \E r \in Callers : Other(r)
  \/ \E s \in Ids : KeepAliveTracker(s)
  \/ Tick \/ Main

Spec == Init /\ [][Next]_vars

(* Requests and trackers run on (clients of streams leave at some time, a  *)
(* writer of sync.RWMutex is not starved), time passes, and main goes on   *)
(* once it has been told to stop.  Nobody is obliged to send a request.    *)
Fairness ==
  /\ \A r \in Starters : SF_vars(pc[r] # "idle" /\ Start(r))
  /\ \A r \in Callers : /\ SF_vars(pc[r] # "idle" /\ Other(r))
                        /\ SF_vars(UseEnds(r, "idle"))
  /\ \A s \in Ids : SF_vars(KeepAliveTracker(s))
  /\ WF_vars(Tick)
  /\ SF_vars(main # "serve" /\ Main)

FairSpec == Spec /\ Fairness

-----------------------------------------------------------------------------
(* Controller.backend, when it is not nil, has not been shut down: nobody  *)
(* forgets the backend he shuts down or publishes one that is down.        *)
CurrentBackendIsUp == backend # None => backend \in up

(* While one client at a time starts backends, whatever stops, keep-alive  *)
(* timeouts and shutdowns race with it, no backend is left behind that     *)
(* Controller does not know.                                               *)
NoOrphan == up \subseteq {backend}

(* Under the same condition backends live one after another: none starts   *)
(* while one is up, and none is up again after it was shut down.           *)
Life == [b \in Ids |-> IF b > born THEN "unborn" ELSE IF b \in up THEN "running" ELSE "gone"]

Sup == INSTANCE Supervisor WITH Procs <- Ids, life <- Life

OneAfterAnother == Sup!Spec

(* Whatever starts and stops concurrently, a request that the middleware   *)
(* let through, or a stream that goes on to its next user, finds no backend*)
(* (and panics on it) only if the one it saw then, or one that replaced it,*)
(* has been shut down since.                                               *)
NilNeedsShutdown ==
  \A r \in Callers : pc[r] = "call" /\ backend = None =>
    held[r] # None /\ \E b \in held[r]..born : b \notin up

(* When main saw every Start end, the node leaves no backend behind,       *)
(* whatever other requests, stops and trackers outlive the drain.          *)
CleanExit == main = "exit" /\ drained => up = {}

(* controller.go:124-126: a backend whose client asked for keep-alive and  *)
(* then stays silent is disconnected.                                      *)
Quiet == \A r \in Requests : pc[r] = "idle"
SilentBackend == backend # None /\ cancelFunc # None /\ keepAlive[cancelFunc] > 0 /\ Quiet
Reaped == backend = None \/ ~Quiet \/ ~Running
KeepAliveReaps == SilentBackend ~> Reaped

(* With gRPC, which connects the session of a backend it has, it always is.*)
KeepAliveReapsGrpc == protocol = "grpc" /\ SilentBackend ~> Reaped

(* No handler waits for ever for the lock: every request ends.             *)
RequestsEnd == \A r \in Requests : pc[r] # "idle" ~> pc[r] = "idle" \/ ~Running
=============================================================================
