-------------------------- MODULE ControllerProofs --------------------------
(***************************************************************************)
(* Proofs about Controller for any number of other requests, trackers and  *)
(* calls of Start.  TypeOK, CurrentBackendIsUp and NilNeedsShutdown need   *)
(* nothing else; the others hold while one client at a time starts         *)
(* backends, which is what OneStarter says (the code does not ensure it:   *)
(* NoOrphan fails with two).                                               *)
(***************************************************************************)
EXTENDS Controller, FiniteSetTheorems, TLAPS

OneStarter == \A r, q \in Starters : r = q

(* Where a goroutine that serves Start, or another request, can be.        *)
Places ==
  /\ \A r \in Starters : pc[r] \in {"idle", "look", "cancel", "cut", "connect", "boot",
                                    "booting", "panicked"}
  /\ \A r \in Callers : pc[r] \in {"idle", "gate", "call", "use", "stop", "stopping",
                                   "panicked"}

(* Every call of Start makes at most one backend and one session.          *)
WillBoot(r) == \/ pc[r] \in {"look", "cancel", "cut", "boot", "booting"}
               \/ protocol = "rest" /\ pc[r] = "connect"
WillConnect(r) == \/ pc[r] \in {"look", "cancel", "cut", "connect"}
                  \/ protocol = "grpc" /\ pc[r] \in {"boot", "booting"}
Counted ==
  /\ born <= starts /\ sessions <= starts
  /\ \A r \in Starters : /\ WillBoot(r) => born < starts
                         /\ WillConnect(r) => sessions < starts

(* No backend is up that has not been made.                                *)
Numbered == up \subseteq 1..born

(* The starter has disposed of the old backend when it boots the next one. *)
Disposed ==
  \A r \in Starters :
    pc[r] \in {"boot", "booting"} \cup (IF protocol = "rest" THEN {"connect"} ELSE {})
      => backend = None

(* Once main has seen every Start end, none begins.                        *)
Drained ==
  drained => main \in {"cancel", "cut", "leave", "exit"} /\ \A r \in Starters : pc[r] = "idle"

(* What CleanExit says of the exit holds from the last Disconnect on.      *)
Left == main = "leave" /\ drained => up = {}

(* The inductive invariant: the properties do not say why the starter      *)
(* finds no backend to replace, nor that a new backend is nobody's.        *)
IInv == /\ TypeOK /\ Places /\ Counted /\ Numbered /\ Disposed /\ Drained
        /\ CurrentBackendIsUp /\ NoOrphan /\ Left /\ CleanExit

LEMMA InitIInv == Init => IInv
<1> SUFFICES ASSUME Init PROVE IInv
  OBVIOUS
<1>1. TypeOK
  <2>1. 0 \in 0..MaxIdle /\ 0 \in 0..MaxStarts /\ None = 0
    BY ControllerAssumption DEF None
  <2>2. keepAlive \in [Ids -> KeepAlives \cup {0}] /\ held \in [Requests -> Ids \cup {None}]
    BY DEF Init
  <2> QED BY <2>1, <2>2 DEF Init, TypeOK
<1>2. Places /\ Counted /\ Numbered
  BY DEF Init, Places, Counted, WillBoot, WillConnect, Numbered, Requests, None
<1>3. Disposed /\ Drained
  BY DEF Init, Disposed, Drained, Requests
<1>4. CurrentBackendIsUp /\ NoOrphan /\ Left /\ CleanExit
  BY DEF Init, CurrentBackendIsUp, NoOrphan, Left, CleanExit
<1> QED BY <1>1, <1>2, <1>3, <1>4 DEF IInv

LEMMA NextIInv == ASSUME OneStarter, IInv, [Next]_vars PROVE IInv'
<1> USE ControllerAssumption DEF IInv
<1>1. CASE UNCHANGED vars
  BY <1>1 DEF vars,
         TypeOK, Places, Counted, WillBoot, WillConnect, Numbered, Disposed, Drained,
         CurrentBackendIsUp, NoOrphan, Left, CleanExit, Crashed, Running, Goto,
         Requests, Ids, None
<1>2. ASSUME NEW r \in Starters, StartEnter(r) PROVE IInv'
  BY <1>2 DEF StartEnter, NewRequest, OneStarter,
         TypeOK, Places, Counted, WillBoot, WillConnect, Numbered, Disposed, Drained,
         CurrentBackendIsUp, NoOrphan, Left, CleanExit, Crashed, Running, Goto,
         Requests, Ids, None
<1>3. ASSUME NEW r \in Starters, Look(r) PROVE IInv'
  BY <1>3 DEF Look, BeforeBoot, OneStarter,
         TypeOK, Places, Counted, WillBoot, WillConnect, Numbered, Disposed, Drained,
         CurrentBackendIsUp, NoOrphan, Left, CleanExit, Crashed, Running, Goto,
         Requests, Ids, None
<1>4. ASSUME NEW r \in Starters, Cancel(r, "cancel", "cut") PROVE IInv'
  BY <1>4 DEF Cancel, CancelSession, OneStarter,
         TypeOK, Places, Counted, WillBoot, WillConnect, Numbered, Disposed, Drained,
         CurrentBackendIsUp, NoOrphan, Left, CleanExit, Crashed, Running, Goto,
         Requests, Ids, None
<1>5. ASSUME NEW r \in Starters, Cut(r, "cut", BeforeBoot) PROVE IInv'
  BY <1>5 DEF Cut, ShutdownBackend, BeforeBoot, OneStarter,
         TypeOK, Places, Counted, WillBoot, WillConnect, Numbered, Disposed, Drained,
         CurrentBackendIsUp, NoOrphan, Left, CleanExit, Crashed, Running, Goto,
         Requests, Ids, None
<1>6. ASSUME NEW r \in Starters, Connect(r) PROVE IInv'
  <2>1. /\ r \in Requests /\ pc[r] = "connect" /\ pc' = [pc EXCEPT ![r] = AfterConnect]
        /\ main # "exit" /\ ~Crashed
    BY <1>6 DEF Connect, Goto, Running, Requests
  <2>2. PICK k \in KeepAlives :
          /\ keepAlive' = [keepAlive EXCEPT ![sessions + 1] = k]
          /\ tracker' = [tracker EXCEPT ![sessions + 1] = IF k > 0 THEN "sleep" ELSE "none"]
    BY <1>6 DEF Connect
  <2>3. /\ idle' = 0 /\ sessions' = sessions + 1 /\ cancelFunc' = sessions + 1
        /\ UNCHANGED <<protocol, backend, mu, up, starts, born, cancelled, held, main,
                       drained>>
    BY <1>6 DEF Connect
  <2>4. sessions < starts /\ sessions + 1 \in Ids
    <3>1. WillConnect(r)
      BY <2>1 DEF WillConnect
    <3>2. \A q \in Starters : WillConnect(q) => sessions < starts
      BY DEF Counted
    <3>3. sessions \in 0..MaxStarts /\ starts \in 0..MaxStarts
      BY DEF TypeOK
    <3> QED BY <1>6, <3>1, <3>2, <3>3 DEF Ids
  <2>5. TypeOK'
    <3>1. pc' \in [Requests -> {"idle", "look", "cancel", "cut", "connect", "boot", "booting",
                                "gate", "call", "use", "stop", "stopping", "panicked"}]
      BY <2>1 DEF TypeOK, AfterConnect
    <3>2. keepAlive' \in [Ids -> KeepAlives \cup {0}]
      BY <2>2, <2>4 DEF TypeOK
    <3>3. tracker' \in [Ids -> {"none", "sleep", "read", "cancel", "cut", "done"}]
      BY <2>2, <2>4 DEF TypeOK
    <3>4. sessions' \in 0..MaxStarts /\ idle' \in 0..MaxIdle
      BY <2>3, <2>4 DEF TypeOK, Ids
    <3> QED BY <2>3, <2>4, <3>1, <3>2, <3>3, <3>4 DEF TypeOK
  <2>6. Places' /\ Disposed'
    BY <1>6, <2>1, <2>3 DEF TypeOK, Places, Disposed, AfterConnect, OneStarter, Requests
  <2>7. Counted'
    BY <1>6, <2>1, <2>3, <2>4 DEF TypeOK, Counted, WillBoot, WillConnect, AfterConnect,
                                  OneStarter
  <2>8. Numbered' /\ Drained'
    BY <2>1, <2>3 DEF TypeOK, Numbered, Drained, AfterConnect
  <2>9. CurrentBackendIsUp' /\ NoOrphan' /\ Left' /\ CleanExit'
    BY <2>1, <2>3 DEF TypeOK, CurrentBackendIsUp, NoOrphan, Left, CleanExit,
                      AfterConnect
  <2> QED BY <2>5, <2>6, <2>7, <2>8, <2>9
<1>7. ASSUME NEW r \in Starters, BootBegin(r) PROVE IInv'
  BY <1>7 DEF BootBegin, OneStarter,
         TypeOK, Places, Counted, WillBoot, WillConnect, Numbered, Disposed, Drained,
         CurrentBackendIsUp, NoOrphan, Left, CleanExit, Crashed, Running, Goto,
         Requests, Ids, None
<1>8. ASSUME NEW r \in Starters, BootOk(r) PROVE IInv'
  <2>1. /\ r \in Requests /\ pc[r] = "booting" /\ pc' = [pc EXCEPT ![r] = AfterBoot]
        /\ main # "exit"
    BY <1>8 DEF BootOk, Goto, Running, Requests
  <2>2. /\ mu' = Free /\ born' = born + 1 /\ up' = up \cup {born + 1} /\ backend' = born + 1
        /\ UNCHANGED <<protocol, cancelFunc, idle, starts, sessions, cancelled, keepAlive,
                       tracker, held, main, drained>>
    BY <1>8 DEF BootOk
  <2>3. born < starts /\ born + 1 \in Ids
    <3>1. WillBoot(r)
      BY <2>1 DEF WillBoot
    <3>2. \A q \in Starters : WillBoot(q) => born < starts
      BY DEF Counted
    <3>3. born \in 0..MaxStarts /\ starts \in 0..MaxStarts
      BY DEF TypeOK
    <3> QED BY <1>8, <3>1, <3>2, <3>3 DEF Ids
  <2>4. up = {} \/ up = {None}
    BY <1>8, <2>1 DEF Disposed, NoOrphan
  <2>5. up = {}
    BY <2>4 DEF TypeOK, Ids, None
  <2>6. TypeOK'
    BY <2>1, <2>2, <2>3 DEF TypeOK, AfterBoot, Ids
  <2>7. Places' /\ Counted' /\ Disposed'
    BY <1>8, <2>1, <2>2, <2>3 DEF TypeOK, Places, Counted, WillBoot, WillConnect, Disposed,
                                  AfterBoot, OneStarter, Requests
  <2>8. Numbered'
    BY <2>2, <2>5 DEF TypeOK, Numbered, Ids, None
  <2>9. Drained'
    BY <2>1, <2>2 DEF TypeOK, Drained, AfterBoot
  <2>10. CurrentBackendIsUp' /\ NoOrphan' /\ Left' /\ CleanExit'
    BY <1>8, <2>1, <2>2, <2>5 DEF CurrentBackendIsUp, NoOrphan, Drained, Left, CleanExit
  <2> QED BY <2>6, <2>7, <2>8, <2>9, <2>10
<1>9. ASSUME NEW r \in Starters,
             \/ NotDetected(r, "idle") \/ NotDetected(r, "panicked")
             \/ BootFails(r, "idle") \/ BootFails(r, "panicked")
      PROVE  IInv'
  <2>1. CASE NotDetected(r, "idle")
    BY <2>1 DEF NotDetected, OneStarter, Free,
         TypeOK, Places, Counted, WillBoot, WillConnect, Numbered, Disposed, Drained,
         CurrentBackendIsUp, NoOrphan, Left, CleanExit, Crashed, Running, Goto,
         Requests, Ids, None
  <2>2. CASE NotDetected(r, "panicked")
    BY <2>2 DEF NotDetected, OneStarter, Free,
         TypeOK, Places, Counted, WillBoot, WillConnect, Numbered, Disposed, Drained,
         CurrentBackendIsUp, NoOrphan, Left, CleanExit, Crashed, Running, Goto,
         Requests, Ids, None
  <2>3. CASE BootFails(r, "idle")
    BY <2>3 DEF BootFails, OneStarter, Free,
         TypeOK, Places, Counted, WillBoot, WillConnect, Numbered, Disposed, Drained,
         CurrentBackendIsUp, NoOrphan, Left, CleanExit, Crashed, Running, Goto,
         Requests, Ids, None
  <2>4. CASE BootFails(r, "panicked")
    BY <2>4 DEF BootFails, OneStarter, Free,
         TypeOK, Places, Counted, WillBoot, WillConnect, Numbered, Disposed, Drained,
         CurrentBackendIsUp, NoOrphan, Left, CleanExit, Crashed, Running, Goto,
         Requests, Ids, None
  <2> QED BY <1>9, <2>1, <2>2, <2>3, <2>4
<1>10. ASSUME NEW r \in Callers, CallEnter(r) PROVE IInv'
  BY <1>10 DEF CallEnter, NewRequest,
         TypeOK, Places, Counted, WillBoot, WillConnect, Numbered, Disposed, Drained,
         CurrentBackendIsUp, NoOrphan, Left, CleanExit, Crashed, Running, Goto,
         Requests, Ids, None
<1>11. ASSUME NEW r \in Callers, Refused(r) PROVE IInv'
  BY <1>11 DEF Refused,
         TypeOK, Places, Counted, WillBoot, WillConnect, Numbered, Disposed, Drained,
         CurrentBackendIsUp, NoOrphan, Left, CleanExit, Crashed, Running, Goto,
         Requests, Ids, None
<1>12. ASSUME NEW r \in Callers, Admitted(r, "call") \/ Admitted(r, "stop") PROVE IInv'
  <2>1. CASE Admitted(r, "call")
    BY <2>1 DEF Admitted,
         TypeOK, Places, Counted, WillBoot, WillConnect, Numbered, Disposed, Drained,
         CurrentBackendIsUp, NoOrphan, Left, CleanExit, Crashed, Running, Goto,
         Requests, Ids, None
  <2>2. CASE Admitted(r, "stop")
    BY <2>2 DEF Admitted,
         TypeOK, Places, Counted, WillBoot, WillConnect, Numbered, Disposed, Drained,
         CurrentBackendIsUp, NoOrphan, Left, CleanExit, Crashed, Running, Goto,
         Requests, Ids, None
  <2> QED BY <1>12, <2>1, <2>2
<1>13. ASSUME NEW r \in Callers, Call(r) PROVE IInv'
  BY <1>13 DEF Call,
         TypeOK, Places, Counted, WillBoot, WillConnect, Numbered, Disposed, Drained,
         CurrentBackendIsUp, NoOrphan, Left, CleanExit, Crashed, Running, Goto,
         Requests, Ids, None
<1>14. ASSUME NEW r \in Callers, NextUser(r) PROVE IInv'
  BY <1>14 DEF NextUser, UseEnds,
         TypeOK, Places, Counted, WillBoot, WillConnect, Numbered, Disposed, Drained,
         CurrentBackendIsUp, NoOrphan, Left, CleanExit, Crashed, Running, Goto,
         Requests, Ids, None
<1>15. ASSUME NEW r \in Requests, Recover(r) PROVE IInv'
  BY <1>15 DEF Recover,
         TypeOK, Places, Counted, WillBoot, WillConnect, Numbered, Disposed, Drained,
         CurrentBackendIsUp, NoOrphan, Left, CleanExit, Crashed, Running, Goto,
         Requests, Ids, None
<1>16. ASSUME NEW r \in Callers, UseEnds(r, "idle") \/ UseEnds(r, "panicked") PROVE IInv'
  <2>1. CASE UseEnds(r, "idle")
    BY <2>1 DEF UseEnds,
         TypeOK, Places, Counted, WillBoot, WillConnect, Numbered, Disposed, Drained,
         CurrentBackendIsUp, NoOrphan, Left, CleanExit, Crashed, Running, Goto,
         Requests, Ids, None
  <2>2. CASE UseEnds(r, "panicked")
    BY <2>2 DEF UseEnds,
         TypeOK, Places, Counted, WillBoot, WillConnect, Numbered, Disposed, Drained,
         CurrentBackendIsUp, NoOrphan, Left, CleanExit, Crashed, Running, Goto,
         Requests, Ids, None
  <2> QED BY <1>16, <2>1, <2>2
<1>17. ASSUME NEW r \in Callers, Cancel(r, "stop", "stopping") PROVE IInv'
  BY <1>17 DEF Cancel, CancelSession,
         TypeOK, Places, Counted, WillBoot, WillConnect, Numbered, Disposed, Drained,
         CurrentBackendIsUp, NoOrphan, Left, CleanExit, Crashed, Running, Goto,
         Requests, Ids, None
<1>18. ASSUME NEW r \in Callers, Cut(r, "stopping", "idle") PROVE IInv'
  BY <1>18 DEF Cut, ShutdownBackend,
         TypeOK, Places, Counted, WillBoot, WillConnect, Numbered, Disposed, Drained,
         CurrentBackendIsUp, NoOrphan, Left, CleanExit, Crashed, Running, Goto,
         Requests, Ids, None
<1>19. ASSUME NEW s \in Ids, TrackerWakes(s) PROVE IInv'
  BY <1>19 DEF TrackerWakes, Track,
         TypeOK, Places, Counted, WillBoot, WillConnect, Numbered, Disposed, Drained,
         CurrentBackendIsUp, NoOrphan, Left, CleanExit, Crashed, Running, Goto,
         Requests, Ids, None
<1>20. ASSUME NEW s \in Ids, TrackerReads(s) PROVE IInv'
  BY <1>20 DEF TrackerReads, Track,
         TypeOK, Places, Counted, WillBoot, WillConnect, Numbered, Disposed, Drained,
         CurrentBackendIsUp, NoOrphan, Left, CleanExit, Crashed, Running, Goto,
         Requests, Ids, None
<1>21. ASSUME NEW s \in Ids, TrackerCancels(s) PROVE IInv'
  BY <1>21 DEF TrackerCancels, Track, CancelSession,
         TypeOK, Places, Counted, WillBoot, WillConnect, Numbered, Disposed, Drained,
         CurrentBackendIsUp, NoOrphan, Left, CleanExit, Crashed, Running, Goto,
         Requests, Ids, None
<1>22. ASSUME NEW s \in Ids, TrackerCuts(s) PROVE IInv'
  BY <1>22 DEF TrackerCuts, Track, ShutdownBackend,
         TypeOK, Places, Counted, WillBoot, WillConnect, Numbered, Disposed, Drained,
         CurrentBackendIsUp, NoOrphan, Left, CleanExit, Crashed, Running, Goto,
         Requests, Ids, None
<1>23. CASE Tick
  BY <1>23 DEF Tick,
         TypeOK, Places, Counted, WillBoot, WillConnect, Numbered, Disposed, Drained,
         CurrentBackendIsUp, NoOrphan, Left, CleanExit, Crashed, Running, Goto,
         Requests, Ids, None
<1>24. CASE Signal
  BY <1>24 DEF Signal, MainStep,
         TypeOK, Places, Counted, WillBoot, WillConnect, Numbered, Disposed, Drained,
         CurrentBackendIsUp, NoOrphan, Left, CleanExit, Crashed, Running, Goto,
         Requests, Ids, None
<1>25. CASE DrainEnds
  BY <1>25 DEF DrainEnds, MainStep,
         TypeOK, Places, Counted, WillBoot, WillConnect, Numbered, Disposed, Drained,
         CurrentBackendIsUp, NoOrphan, Left, CleanExit, Crashed, Running, Goto,
         Requests, Ids, None
<1>26. CASE MainCancels
  BY <1>26 DEF MainCancels, MainStep, CancelSession,
         TypeOK, Places, Counted, WillBoot, WillConnect, Numbered, Disposed, Drained,
         CurrentBackendIsUp, NoOrphan, Left, CleanExit, Crashed, Running, Goto,
         Requests, Ids, None
<1>27. CASE MainCuts
  BY <1>27 DEF MainCuts, MainStep, ShutdownBackend,
         TypeOK, Places, Counted, WillBoot, WillConnect, Numbered, Disposed, Drained,
         CurrentBackendIsUp, NoOrphan, Left, CleanExit, Crashed, Running, Goto,
         Requests, Ids, None
<1>28. CASE MainExits
  BY <1>28 DEF MainExits, MainStep,
         TypeOK, Places, Counted, WillBoot, WillConnect, Numbered, Disposed, Drained,
         CurrentBackendIsUp, NoOrphan, Left, CleanExit, Crashed, Running, Goto,
         Requests, Ids, None
<1>29. \A r \in Starters : Start(r) => IInv'
  BY <1>2, <1>3, <1>4, <1>5, <1>6, <1>7, <1>8, <1>9, <1>15 DEF Start, Requests
<1>30. \A r \in Callers : Other(r) => IInv'
  BY <1>10, <1>11, <1>12, <1>13, <1>14, <1>15, <1>16, <1>17, <1>18 DEF Other, Requests
<1>31. \A s \in Ids : KeepAliveTracker(s) => IInv'
  BY <1>19, <1>20, <1>21, <1>22 DEF KeepAliveTracker
<1>32. Main => IInv'
  BY <1>24, <1>25, <1>26, <1>27, <1>28 DEF Main
<1> QED BY <1>1, <1>23, <1>29, <1>30, <1>31, <1>32 DEF Next

LEMMA Invariance ==
  ASSUME OneStarter
  PROVE  Spec => []IInv
BY InitIInv, NextIInv, PTL DEF Spec

(* controller.go:65-107: with one client at a time starting backends, no   *)
(* interleaving of stops, keep-alive timeouts, failures and the shutdown   *)
(* of the node leaves a backend running that Controller does not know.     *)
THEOREM OneStarterNoOrphan ==
  ASSUME OneStarter
  PROVE  Spec => []NoOrphan
<1>1. IInv => NoOrphan
  BY DEF IInv
<1> QED BY <1>1, Invariance, PTL

(* main.go: after a drain that saw every Start end, the process exits      *)
(* without leaving a backend behind, whatever else outlived the drain.     *)
THEOREM OneStarterCleanExit ==
  ASSUME OneStarter
  PROVE  Spec => []CleanExit
<1>1. IInv => CleanExit
  BY DEF IInv
<1> QED BY <1>1, Invariance, PTL

-----------------------------------------------------------------------------
(* The starter boots a backend when none is up; the next number is his.    *)
LEMMA RefinesBoot ==
  ASSUME IInv, NEW r \in Starters, BootOk(r)
  PROVE  born + 1 \in Ids /\ Sup!Launch(born + 1)
<1>1. /\ pc[r] = "booting" /\ born' = born + 1 /\ up' = up \cup {born + 1}
  BY DEF BootOk, Goto
<1>2. born \in Nat /\ starts \in 0..MaxStarts /\ born < starts
  BY <1>1, ControllerAssumption DEF IInv, TypeOK, Counted, WillBoot
<1>3. born + 1 \in Ids /\ \A b \in Ids : b \in Nat
  BY <1>2, ControllerAssumption DEF Ids
<1>4. up = {}
  BY <1>1 DEF IInv, Disposed, NoOrphan, Numbered, None
<1>5. \A b \in Ids : Life[b] # "running" /\ (b < born + 1 => Life[b] # "unborn")
  BY <1>2, <1>3, <1>4 DEF Life
<1>6. Life[born + 1] = "unborn"
  BY <1>2, <1>3 DEF Life
<1>7. Life' = [Life EXCEPT ![born + 1] = "running"]
  <2>1. \A b \in Ids : b # born + 1 => (b > born' <=> b > born) /\ (b \in up' <=> b \in up)
    BY <1>1, <1>2, <1>3
  <2>2. ~(born + 1 > born') /\ born + 1 \in up'
    BY <1>1, <1>2
  <2> QED BY <2>1, <2>2 DEF Life
<1> QED BY <1>3, <1>5, <1>6, <1>7 DEF Sup!Launch

LEMMA RefinesShutdown ==
  ASSUME IInv, ShutdownBackend, UNCHANGED born
  PROVE  Life' = Life \/ \E b \in Ids : Sup!Exit(b)
<1>1. CASE backend \notin up
  <2>1. up' = up
    BY <1>1 DEF ShutdownBackend
  <2> QED BY <2>1 DEF Life
<1>2. CASE backend \in up
  <2>1. backend \in Ids /\ backend <= born /\ born \in Nat
    BY <1>2, ControllerAssumption DEF IInv, TypeOK, Numbered
  <2>2. Life[backend] = "running"
    BY <1>2, <2>1 DEF Life, Ids
  <2>3. Life' = [Life EXCEPT ![backend] = "gone"]
    <3>1. ~(backend > born) /\ up' = up \ {backend} /\ born' = born
      BY <2>1 DEF Ids, ShutdownBackend
    <3> QED BY <2>1, <3>1 DEF Life
  <2> QED BY <2>1, <2>2, <2>3 DEF Sup!Exit
<1> QED BY <1>1, <1>2

LEMMA RefinesStep == IInv /\ [Next]_vars => [Sup!Next]_Life
<1> SUFFICES ASSUME IInv, [Next]_vars PROVE Life' = Life \/ Sup!Next
  OBVIOUS
<1>1. ASSUME UNCHANGED <<born, up>> PROVE Life' = Life
  BY <1>1 DEF Life
<1>2. ASSUME ShutdownBackend, UNCHANGED born PROVE Life' = Life \/ Sup!Next
  BY <1>2, RefinesShutdown DEF Sup!Next
<1>3. ASSUME NEW r \in Starters, Start(r) PROVE Life' = Life \/ Sup!Next
  <2>1. CASE BootOk(r)
    BY <2>1, RefinesBoot DEF Sup!Next
  <2>2. CASE Cut(r, "cut", BeforeBoot)
    BY <1>2, <2>2 DEF Cut
  <2> QED BY <1>1, <1>3, <2>1, <2>2 DEF Start, StartEnter, NotDetected, Look, Cancel, Connect,
                                        BootBegin, BootFails, Recover
<1>4. ASSUME NEW r \in Callers, Other(r) PROVE Life' = Life \/ Sup!Next
  BY <1>1, <1>2, <1>4 DEF Other, CallEnter, Refused, Admitted, Call, NextUser, UseEnds, Recover,
                          Cancel, Cut
<1>5. ASSUME NEW s \in Ids, KeepAliveTracker(s) PROVE Life' = Life \/ Sup!Next
  BY <1>1, <1>2, <1>5 DEF KeepAliveTracker, TrackerWakes, TrackerReads, TrackerCancels,
                          TrackerCuts
<1>6. CASE Tick \/ Main
  BY <1>1, <1>2, <1>6 DEF Tick, Main, Signal, DrainEnds, MainCancels, MainCuts,
                             MainExits
<1>7. CASE UNCHANGED vars
  BY <1>1, <1>7 DEF vars
<1> QED BY <1>3, <1>4, <1>5, <1>6, <1>7 DEF Next

(* controller.go:92-107: with one client at a time starting backends, they *)
(* live one after another, and none comes back after its Shutdown.         *)
THEOREM OneStarterOneAfterAnother ==
  ASSUME OneStarter
  PROVE  Spec => OneAfterAnother
<1>1. Init => Sup!Init
  BY DEF Init, Sup!Init, Life, Ids
<1> QED BY <1>1, Invariance, RefinesStep, PTL DEF Spec, OneAfterAnother, Sup!Spec

-----------------------------------------------------------------------------
(* Any number of clients may start backends at once: the calls of Start    *)
(* that have yet to make a backend or a session, and those that have made  *)
(* one, are together no more than the calls there were.                    *)
Booters == {r \in Starters : WillBoot(r)}
Connecters == {r \in Starters : WillConnect(r)}

CountInv ==
  /\ TypeOK /\ Places
  /\ IsFiniteSet(Booters) /\ born + Cardinality(Booters) <= starts
  /\ IsFiniteSet(Connecters) /\ sessions + Cardinality(Connecters) <= starts

LEMMA CountMembers ==
  ASSUME NEW S, IsFiniteSet(S), NEW n \in Nat, NEW m \in Nat, n + Cardinality(S) <= m, NEW x
  PROVE  /\ IsFiniteSet(S \cup {x}) /\ n + Cardinality(S \cup {x}) <= m + 1
         /\ IsFiniteSet(S \ {x}) /\ n + Cardinality(S \ {x}) <= m
         /\ x \in S => n < m /\ (n + 1) + Cardinality(S \ {x}) <= m
<1>1. Cardinality(S) \in Nat /\ Cardinality(S \ {x}) \in Nat
  BY FS_CardinalityType, FS_RemoveElement
<1>2. /\ IsFiniteSet(S \cup {x})
      /\ Cardinality(S \cup {x}) = IF x \in S THEN Cardinality(S) ELSE Cardinality(S) + 1
  BY FS_AddElement
<1>3. /\ IsFiniteSet(S \ {x})
      /\ Cardinality(S \ {x}) = IF x \in S THEN Cardinality(S) - 1 ELSE Cardinality(S)
  BY FS_RemoveElement
<1> QED BY <1>1, <1>2, <1>3

LEMMA InitCount == Init => CountInv
<1> SUFFICES ASSUME Init PROVE CountInv
  OBVIOUS
<1>1. TypeOK /\ Places
  BY InitIInv DEF IInv
<1>2. Booters = {} /\ Connecters = {}
  BY DEF Init, Booters, Connecters, WillBoot, WillConnect, Requests
<1>3. born = 0 /\ sessions = 0 /\ starts = 0
  BY DEF Init
<1> QED BY <1>1, <1>2, <1>3, FS_EmptySet DEF CountInv

(* A step of one call of Start.                                            *)
LEMMA CountStart ==
  ASSUME CountInv, NEW r \in Starters, Start(r)
  PROVE  CountInv'
<1> USE ControllerAssumption
<1>1. /\ r \in Requests /\ protocol \in {"rest", "grpc"} /\ DOMAIN pc = Requests
      /\ born \in Nat /\ sessions \in Nat /\ starts \in Nat /\ starts <= MaxStarts
      /\ Starters \subseteq Requests
  BY DEF CountInv, TypeOK, Requests
<1>2. /\ IsFiniteSet(Booters \cup {r}) /\ born + Cardinality(Booters \cup {r}) <= starts + 1
      /\ IsFiniteSet(Booters \ {r}) /\ born + Cardinality(Booters \ {r}) <= starts
      /\ r \in Booters => born < starts /\ (born + 1) + Cardinality(Booters \ {r}) <= starts
  BY <1>1, CountMembers DEF CountInv
<1>3. /\ IsFiniteSet(Connecters \cup {r})
      /\ sessions + Cardinality(Connecters \cup {r}) <= starts + 1
      /\ IsFiniteSet(Connecters \ {r}) /\ sessions + Cardinality(Connecters \ {r}) <= starts
      /\ r \in Connecters =>
           sessions < starts /\ (sessions + 1) + Cardinality(Connecters \ {r}) <= starts
  BY <1>1, CountMembers DEF CountInv
<1>4. CASE StartEnter(r)
  <2>1. Booters' = Booters \cup {r} /\ Connecters' = Connecters \cup {r}
    BY <1>1, <1>4 DEF StartEnter, Goto, Booters, Connecters, WillBoot, WillConnect
  <2>2. UNCHANGED <<born, sessions>> /\ starts' = starts + 1
    BY <1>4 DEF StartEnter
  <2>3. TypeOK' /\ Places'
    BY <1>1, <1>4 DEF CountInv, StartEnter, NewRequest, Goto, TypeOK, Places
  <2> QED BY <1>2, <1>3, <2>1, <2>2, <2>3 DEF CountInv
<1>5. CASE \/ Look(r) \/ Cancel(r, "cancel", "cut") \/ Cut(r, "cut", BeforeBoot)
           \/ BootBegin(r)
  <2>1. Booters' = Booters /\ Connecters' = Connecters
    BY <1>1, <1>5 DEF Look, Cancel, Cut, BootBegin, BeforeBoot, Goto,
                      Booters, Connecters, WillBoot, WillConnect
  <2>2. UNCHANGED <<born, sessions, starts>>
    BY <1>5 DEF Look, Cancel, Cut, BootBegin
  <2>3. TypeOK' /\ Places'
    BY <1>1, <1>5 DEF CountInv, Look, Cancel, CancelSession, Cut, ShutdownBackend, BootBegin,
                      BeforeBoot, Goto, TypeOK, Places, Requests
  <2> QED BY <2>1, <2>2, <2>3 DEF CountInv
<1>6. CASE Connect(r)
  <2>1. Booters' = Booters /\ Connecters' = Connecters \ {r} /\ r \in Connecters
    BY <1>1, <1>6 DEF Connect, AfterConnect, Goto, Booters, Connecters, WillBoot, WillConnect
  <2>2. UNCHANGED <<born, starts>> /\ sessions' = sessions + 1
    BY <1>6 DEF Connect
  <2>3. sessions + 1 \in Ids /\ sessions' \in 0..MaxStarts
    BY <1>1, <1>3, <2>1, <2>2 DEF Ids
  <2>4. PICK k \in KeepAlives :
          /\ keepAlive' = [keepAlive EXCEPT ![sessions + 1] = k]
          /\ tracker' = [tracker EXCEPT ![sessions + 1] = IF k > 0 THEN "sleep" ELSE "none"]
    BY <1>6 DEF Connect
  <2>5. keepAlive' \in [Ids -> KeepAlives \cup {0}]
    BY <2>3, <2>4 DEF CountInv, TypeOK
  <2>6. tracker' \in [Ids -> {"none", "sleep", "read", "cancel", "cut", "done"}]
    BY <2>3, <2>4 DEF CountInv, TypeOK
  <2>7. TypeOK' /\ Places'
    BY <1>1, <1>6, <2>2, <2>3, <2>5, <2>6
    DEF CountInv, Connect, AfterConnect, Goto, TypeOK, Places
  <2> QED BY <1>3, <2>1, <2>2, <2>7 DEF CountInv
<1>7. CASE BootOk(r)
  <2>1. Booters' = Booters \ {r} /\ Connecters' = Connecters /\ r \in Booters
    BY <1>1, <1>7 DEF BootOk, AfterBoot, Goto, Booters, Connecters, WillBoot, WillConnect
  <2>2. UNCHANGED <<sessions, starts>> /\ born' = born + 1
    BY <1>7 DEF BootOk
  <2>3. born + 1 \in Ids /\ born' \in 0..MaxStarts
    BY <1>1, <1>2, <2>1, <2>2 DEF Ids
  <2>4. TypeOK' /\ Places'
    BY <1>1, <1>7, <2>2, <2>3 DEF CountInv, BootOk, AfterBoot, Goto, TypeOK, Places
  <2> QED BY <1>2, <2>1, <2>2, <2>4 DEF CountInv
<1>8. CASE \/ NotDetected(r, "idle") \/ NotDetected(r, "panicked")
           \/ BootFails(r, "idle") \/ BootFails(r, "panicked")
  <2>1. Booters' = Booters \ {r} /\ Connecters' = Connecters \ {r}
    BY <1>1, <1>8 DEF NotDetected, BootFails, Goto, Booters, Connecters, WillBoot, WillConnect
  <2>2. UNCHANGED <<born, sessions, starts>>
    BY <1>8 DEF NotDetected, BootFails
  <2>3. TypeOK' /\ Places'
    <3>1. CASE NotDetected(r, "idle")
      BY <1>1, <3>1 DEF CountInv, NotDetected, Goto, TypeOK, Places
    <3>2. CASE NotDetected(r, "panicked")
      BY <1>1, <3>2 DEF CountInv, NotDetected, Goto, TypeOK, Places
    <3>3. CASE BootFails(r, "idle")
      BY <1>1, <3>3 DEF CountInv, BootFails, Goto, TypeOK, Places
    <3>4. CASE BootFails(r, "panicked")
      BY <1>1, <3>4 DEF CountInv, BootFails, Goto, TypeOK, Places
    <3> QED BY <1>8, <3>1, <3>2, <3>3, <3>4
  <2> QED BY <1>2, <1>3, <2>1, <2>2, <2>3 DEF CountInv
<1>9. CASE Recover(r)
  <2>1. Booters' = Booters /\ Connecters' = Connecters
    BY <1>1, <1>9 DEF Recover, Goto, Booters, Connecters, WillBoot, WillConnect
  <2>2. UNCHANGED <<born, sessions, starts>>
    BY <1>9 DEF Recover
  <2>3. TypeOK' /\ Places'
    BY <1>1, <1>9 DEF CountInv, Recover, Goto, TypeOK, Places
  <2> QED BY <2>1, <2>2, <2>3 DEF CountInv
<1> QED BY <1>4, <1>5, <1>6, <1>7, <1>8, <1>9 DEF Start

LEMMA NextCount == CountInv /\ [Next]_vars => CountInv'
<1> SUFFICES ASSUME CountInv, [Next]_vars PROVE CountInv'
  OBVIOUS
<1> USE ControllerAssumption
<1>1. ASSUME TypeOK', Places', UNCHANGED <<protocol, born, sessions, starts>>,
             \A r \in Starters : pc'[r] = pc[r]
      PROVE  CountInv'
  <2>1. Booters' = Booters /\ Connecters' = Connecters
    BY <1>1 DEF Booters, Connecters, WillBoot, WillConnect
  <2> QED BY <1>1, <2>1 DEF CountInv
<1>2. ASSUME NEW r \in Callers, Other(r) PROVE CountInv'
  <2>1. UNCHANGED <<protocol, born, sessions, starts>> /\ \A q \in Starters : pc'[q] = pc[q]
    BY <1>2 DEF CountInv, TypeOK, Other, CallEnter, Refused, Admitted, Call, NextUser, UseEnds,
                Recover, Cancel, Cut, Goto, Requests
  <2>2. CASE CallEnter(r) \/ Refused(r) \/ Call(r) \/ Recover(r) \/ NextUser(r)
    <3>1. TypeOK' /\ Places'
      BY <2>2 DEF CountInv, TypeOK, Places, CallEnter, NewRequest, Refused, Call, Recover,
                  NextUser, UseEnds, Goto, Requests
    <3> QED BY <1>1, <2>1, <3>1
  <2>3. CASE \/ Admitted(r, "call") \/ Admitted(r, "stop")
             \/ UseEnds(r, "idle") \/ UseEnds(r, "panicked")
    <3>1. TypeOK' /\ Places'
      BY <2>3 DEF CountInv, TypeOK, Places, Admitted, UseEnds, Goto, Requests
    <3> QED BY <1>1, <2>1, <3>1
  <2>4. CASE Cancel(r, "stop", "stopping") \/ Cut(r, "stopping", "idle")
    <3>1. TypeOK' /\ Places'
      BY <2>4 DEF CountInv, TypeOK, Places, Cancel, CancelSession, Cut, ShutdownBackend, Goto,
                  Requests
    <3> QED BY <1>1, <2>1, <3>1
  <2> QED BY <1>2, <2>2, <2>3, <2>4 DEF Other
<1>3. ASSUME NEW s \in Ids, KeepAliveTracker(s) PROVE CountInv'
  <2>1. UNCHANGED <<protocol, born, sessions, starts, pc>>
    BY <1>3 DEF KeepAliveTracker, TrackerWakes, TrackerReads, TrackerCancels, TrackerCuts
  <2>2. TypeOK' /\ Places'
    BY <1>3 DEF CountInv, TypeOK, Places, KeepAliveTracker, TrackerWakes, TrackerReads,
                TrackerCancels, TrackerCuts, Track, CancelSession, ShutdownBackend
  <2> QED BY <1>1, <2>1, <2>2
<1>4. CASE Tick \/ Main
  <2>1. UNCHANGED <<protocol, born, sessions, starts, pc>>
    BY <1>4 DEF Tick, Main, Signal, DrainEnds, MainCancels, MainCuts,
                             MainExits
  <2>2. ASSUME Tick PROVE TypeOK' /\ Places'
    BY <2>2 DEF CountInv, TypeOK, Places, Tick
  <2>3. ASSUME Signal \/ DrainEnds \/ MainExits PROVE TypeOK' /\ Places'
    BY <2>3 DEF CountInv, TypeOK, Places, Signal, DrainEnds, MainExits, MainStep
  <2>4. ASSUME MainCancels \/ MainCuts PROVE TypeOK' /\ Places'
    BY <2>4 DEF CountInv, TypeOK, Places, MainCancels, MainCuts, MainStep, CancelSession,
                ShutdownBackend
  <2> QED BY <1>1, <1>4, <2>1, <2>2, <2>3, <2>4 DEF Main
<1>5. CASE UNCHANGED vars
  <2>1. TypeOK' /\ Places'
    BY <1>5 DEF vars, CountInv, TypeOK, Places
  <2> QED BY <1>1, <1>5, <2>1 DEF vars
<1> QED BY <1>2, <1>3, <1>4, <1>5, CountStart DEF Next

(* Every variable keeps its type, for any number of clients that start     *)
(* backends: no call of Start makes more than one backend or session,      *)
(* however the requests interleave.                                        *)
THEOREM TypeCorrect == Spec => []TypeOK
<1>1. CountInv => TypeOK
  BY DEF CountInv
<1> QED BY <1>1, InitCount, NextCount, PTL DEF Spec

-----------------------------------------------------------------------------
(* The backend a request was admitted to is up, has been followed by the   *)
(* current one, or has been shut down, it or a later one.                  *)
Follows(r) ==
  /\ held[r] # None /\ held[r] <= born
  /\ IF backend = None THEN \E b \in held[r]..born : b \notin up ELSE held[r] <= backend

HeldInv ==
  /\ CountInv /\ up \subseteq 1..born /\ backend <= born
  /\ \A r \in Callers : pc[r] \in {"call", "use"} => Follows(r)

LEMMA HeldShutdown ==
  ASSUME HeldInv, ShutdownBackend, UNCHANGED <<born, held>>,
         NEW r \in Callers, Follows(r)
  PROVE  Follows(r)'
<1>1. /\ born \in Nat /\ backend \in Nat /\ backend <= born /\ held[r] \in Nat /\ None \notin up
      /\ r \in Requests
  BY ControllerAssumption DEF HeldInv, CountInv, TypeOK, Ids, None, Requests
<1>2. backend' = None /\ up' = up \ {backend} /\ born' = born /\ held' = held
  BY DEF ShutdownBackend
<1>3. CASE backend = None
  BY <1>1, <1>2, <1>3 DEF Follows
<1>4. CASE backend # None
  <2>1. held[r] <= backend /\ held[r] # None
    BY <1>4 DEF Follows
  <2>2. backend \in held[r]..born /\ backend \notin up'
    BY <1>1, <1>2, <2>1
  <2> QED BY <1>1, <1>2, <2>1, <2>2 DEF Follows
<1> QED BY <1>3, <1>4

(* A step after which a request uses a backend only if it did before.      *)
Uses(r) == pc[r] \in {"call", "use"}
NoNewUse == \A r \in Callers : Uses(r)' => Uses(r)

LEMMA HeldKeeps ==
  ASSUME HeldInv, CountInv', UNCHANGED <<backend, up, born, held>>, NoNewUse
  PROVE  HeldInv'
<1>1. \A r \in Callers : Uses(r) => Follows(r)'
  BY DEF HeldInv, Follows, Uses
<1> QED BY <1>1 DEF HeldInv, NoNewUse, Uses

LEMMA HeldCut ==
  ASSUME HeldInv, CountInv', ShutdownBackend, UNCHANGED <<born, held>>, NoNewUse
  PROVE  HeldInv'
<1>1. \A r \in Callers : Uses(r) => Follows(r)'
  BY HeldShutdown DEF HeldInv, Uses
<1>2. up' \subseteq 1..born' /\ backend' <= born'
  BY ControllerAssumption DEF HeldInv, CountInv, TypeOK, ShutdownBackend, None
<1> QED BY <1>1, <1>2 DEF HeldInv, NoNewUse, Uses

(* A new backend has the highest number.                                   *)
LEMMA HeldBoot ==
  ASSUME HeldInv, CountInv', NEW r \in Starters, BootOk(r)
  PROVE  HeldInv'
<1>1. /\ born \in Nat /\ r \in Requests /\ r \notin Callers /\ Callers \subseteq Requests
      /\ pc \in [Requests -> {"idle", "look", "cancel", "cut", "connect", "boot", "booting",
                              "gate", "call", "use", "stop", "stopping", "panicked"}]
      /\ \A q \in Callers : held[q] \in Nat
  BY ControllerAssumption DEF HeldInv, CountInv, TypeOK, Ids, None, Requests
<1>2. /\ born' = born + 1 /\ up' = up \cup {born + 1} /\ backend' = born + 1 /\ held' = held
      /\ pc' = [pc EXCEPT ![r] = AfterBoot]
  BY DEF BootOk, Goto
<1>3. up' \subseteq 1..born' /\ backend' <= born'
  BY <1>1, <1>2 DEF HeldInv
<1>4. ASSUME NEW q \in Callers, Uses(q)' PROVE Follows(q)'
  <2>1. Uses(q)
    BY <1>1, <1>2, <1>4 DEF Uses
  <2>2. held[q] # None /\ held[q] <= born
    BY <2>1 DEF HeldInv, Uses, Follows
  <2> QED BY <1>1, <1>2, <2>2 DEF Follows, None
<1> QED BY <1>3, <1>4 DEF HeldInv, Uses

(* What a request that is admitted, or reads the backend, holds is current.*)
LEMMA HeldRead ==
  ASSUME HeldInv, CountInv', NEW r \in Callers, UNCHANGED <<backend, up, born>>,
         \A q \in Callers \ {r} : held'[q] = held[q] /\ (Uses(q)' => Uses(q)),
         Uses(r)' => backend # None /\ held'[r] = backend
  PROVE  HeldInv'
<1>1. ASSUME NEW q \in Callers, Uses(q)' PROVE Follows(q)'
  <2>1. CASE q = r
    <3>1. backend # None /\ backend <= born /\ held'[r] = backend /\ backend \in Nat
      BY <1>1, <2>1, ControllerAssumption DEF HeldInv, CountInv, TypeOK, Ids, None
    <3> QED BY <2>1, <3>1 DEF Follows
  <2>2. CASE q # r
    <3>1. Follows(q) /\ held'[q] = held[q]
      BY <1>1, <2>2 DEF HeldInv, Uses
    <3> QED BY <3>1 DEF Follows
  <2> QED BY <2>1, <2>2
<1> QED BY <1>1 DEF HeldInv, Uses

LEMMA NextHeld == HeldInv /\ [Next]_vars => HeldInv'
<1> SUFFICES ASSUME HeldInv, [Next]_vars PROVE HeldInv'
  OBVIOUS
<1>0. CountInv'
  BY NextCount DEF HeldInv
<1>1. /\ DOMAIN pc = Requests /\ DOMAIN held = Requests
      /\ Callers \subseteq Requests /\ Starters \cap Callers = {}
  BY ControllerAssumption DEF HeldInv, CountInv, TypeOK, Requests
<1>2. ASSUME NEW r \in Starters, Start(r) PROVE HeldInv'
  <2>1. CASE BootOk(r)
    BY <1>0, <2>1, HeldBoot
  <2>2. CASE Cut(r, "cut", BeforeBoot)
    BY <1>0, <1>1, <2>2, HeldCut DEF Cut, Goto, NoNewUse, Uses, BeforeBoot
  <2>3. NoNewUse
    BY <1>1, <1>2 DEF Start, StartEnter, NotDetected, Look, Cancel, Cut, Connect, BootBegin,
                      BootOk, BootFails, Recover, Goto, NoNewUse, Uses
  <2> QED BY <1>0, <1>2, <2>1, <2>2, <2>3, HeldKeeps
          DEF Start, StartEnter, NotDetected, Look, Cancel, Connect, BootBegin, BootFails, Recover
<1>3. ASSUME NEW r \in Callers, Other(r) PROVE HeldInv'
  <2>1. CASE Cut(r, "stopping", "idle")
    BY <1>0, <1>1, <2>1, HeldCut DEF Cut, Goto, NoNewUse, Uses
  <2>2. CASE Admitted(r, "call") \/ Admitted(r, "stop")
    BY <1>0, <1>1, <2>2, HeldRead DEF Admitted, Goto, Uses
  <2>3. CASE Call(r)
    BY <1>0, <1>1, <2>3, HeldRead DEF Call, Goto, Uses
  <2>4. CASE UseEnds(r, "idle") \/ UseEnds(r, "panicked")
    BY <1>0, <1>1, <2>4, HeldRead DEF UseEnds, Goto, Uses
  <2>5. CASE \/ CallEnter(r) \/ Refused(r) \/ NextUser(r) \/ Recover(r)
             \/ Cancel(r, "stop", "stopping")
    BY <1>0, <1>1, <2>5, HeldKeeps
    DEF CallEnter, Refused, NextUser, Recover, Cancel, Goto, NoNewUse, Uses
  <2> QED BY <1>3, <2>1, <2>2, <2>3, <2>4, <2>5 DEF Other
<1>4. ASSUME NEW s \in Ids, KeepAliveTracker(s) PROVE HeldInv'
  <2>1. NoNewUse /\ UNCHANGED <<born, held>>
    BY <1>4 DEF KeepAliveTracker, TrackerWakes, TrackerReads, TrackerCancels, TrackerCuts,
                NoNewUse, Uses
  <2> QED BY <1>0, <1>4, <2>1, HeldKeeps, HeldCut
          DEF KeepAliveTracker, TrackerWakes, TrackerReads, TrackerCancels, TrackerCuts
<1>5. CASE Tick \/ Main
  <2>1. NoNewUse /\ UNCHANGED <<born, held>>
    BY <1>5 DEF Tick, Main, Signal, DrainEnds, MainCancels, MainCuts, MainExits, NoNewUse, Uses
  <2> QED BY <1>0, <1>5, <2>1, HeldKeeps, HeldCut
          DEF Tick, Main, Signal, DrainEnds, MainCancels, MainCuts, MainExits
<1>6. CASE UNCHANGED vars
  BY <1>0, <1>6, HeldKeeps DEF vars, NoNewUse, Uses
<1> QED BY <1>2, <1>3, <1>4, <1>5, <1>6 DEF Next

(* The handlers and the stream of SyncUser read Backend() again after the  *)
(* middleware did: however many clients start and stop at once, they find  *)
(* nil only after a Shutdown of what was seen then or of its successor.    *)
THEOREM NilAfterShutdown == Spec => []NilNeedsShutdown
<1>1. Init => HeldInv
  <2>1. ASSUME Init PROVE HeldInv
    BY <2>1, InitCount DEF Init, HeldInv, Requests, None
  <2> QED BY <2>1
<1>2. HeldInv => NilNeedsShutdown
  BY DEF HeldInv, Follows, NilNeedsShutdown
<1> QED BY <1>1, <1>2, NextHeld, PTL DEF Spec

-----------------------------------------------------------------------------
(* A step that only keeps or replaces the backend, or forgets the one it   *)
(* shuts down, leaves the current one up.                                  *)
LEMMA CurrentStep ==
  CurrentBackendIsUp /\ [Next]_vars => CurrentBackendIsUp'
<1> SUFFICES ASSUME CurrentBackendIsUp, [Next]_vars PROVE CurrentBackendIsUp'
  OBVIOUS
<1>1. ASSUME UNCHANGED <<backend, up>> PROVE CurrentBackendIsUp'
  BY <1>1 DEF CurrentBackendIsUp
<1>2. ASSUME ShutdownBackend PROVE CurrentBackendIsUp'
  BY <1>2 DEF ShutdownBackend, CurrentBackendIsUp
<1>3. ASSUME NEW r \in Starters, Start(r) PROVE CurrentBackendIsUp'
  <2>1. ASSUME BootOk(r) PROVE CurrentBackendIsUp'
    BY <2>1 DEF BootOk, CurrentBackendIsUp
  <2>2. ASSUME Cut(r, "cut", BeforeBoot) PROVE CurrentBackendIsUp'
    BY <1>2, <2>2 DEF Cut
  <2> QED BY <1>1, <1>3, <2>1, <2>2 DEF Start, StartEnter, NotDetected, Look, Cancel, Connect,
                                        BootBegin, BootFails, Recover
<1>4. ASSUME NEW r \in Callers, Other(r) PROVE CurrentBackendIsUp'
  BY <1>1, <1>2, <1>4 DEF Other, CallEnter, Refused, Admitted, Call, NextUser, UseEnds, Recover,
                          Cancel, Cut
<1>5. ASSUME NEW s \in Ids, KeepAliveTracker(s) PROVE CurrentBackendIsUp'
  BY <1>1, <1>2, <1>5 DEF KeepAliveTracker, TrackerWakes, TrackerReads, TrackerCancels,
                          TrackerCuts
<1>6. CASE Tick \/ Main
  BY <1>1, <1>2, <1>6 DEF Tick, Main, Signal, DrainEnds, MainCancels, MainCuts,
                             MainExits
<1>7. CASE UNCHANGED vars
  BY <1>1, <1>7 DEF vars
<1> QED BY <1>3, <1>4, <1>5, <1>6, <1>7 DEF Next

(* controller.go:65-112: whatever starts, stops, times out                 *)
(* or ends concurrently, Controller.backend is nil or not yet shut down.   *)
THEOREM CurrentUp == Spec => []CurrentBackendIsUp
<1>1. Init => CurrentBackendIsUp
  BY DEF Init, CurrentBackendIsUp
<1> QED BY <1>1, CurrentStep, PTL DEF Spec
=============================================================================
