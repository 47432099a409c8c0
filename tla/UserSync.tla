------------------------------ MODULE UserSync ------------------------------
(***************************************************************************)
(* backend/xray/user.go with the client lists of config.go: how the users  *)
(* the panel sends reach Xray.config and the running core.  SyncUser works *)
(* through the inbounds, with a call of the core's API before and after it *)
(* edits the list of each; SyncUsers replaces all lists and restarts the   *)
(* core, as the health check also does.  An account is the number of the   *)
(* request that brought it; inbounds that are excluded are left out, for   *)
(* neither request touches them.  Module Xray has the rest of a backend's  *)
(* life and takes a SyncUsers' edits as one step.                          *)
(***************************************************************************)
EXTENDS Lists

CONSTANTS NInbounds,    \* inbounds of the config, in its order
          Emails,       \* users
          Syncers,      \* goroutines that run SyncUser
          Bulks,        \* goroutines that run SyncUsers
          MaxRequests   \* bound: requests explored

Inbounds == 1..NInbounds
Health == "health"
Free == "free"
Restarters == Bulks \cup {Health}
Goroutines == Syncers \cup Restarters
Requests == 0..MaxRequests      \* 0 is the Start that brought the first users
Clients == [email : Emails, account : Requests]

ASSUME UserSyncAssumption ==
  /\ NInbounds \in Nat \ {0} /\ MaxRequests \in Nat
  /\ IsFiniteSet(Emails) /\ Emails # {}
  /\ Syncers \cap Restarters = {} /\ Health \notin Bulks /\ Free \notin Goroutines

VARIABLES
  config,      \* config[i]: the "clients" of inbound i in Xray.config
  running,     \* the core runs
  live,        \* live[i]: the clients of inbound i in the running core
  mu,          \* Xray.mu: the goroutine in Restart, or Free
  snap,        \* snap[g]: what g's ToBytes returned for the launch
  pc,          \* where each goroutine is
  at,          \* at[g]: the inbound g is at
  request,     \* request[g]: the number of g's request
  email,       \* email[g]: the user of g's SyncUser
  users,       \* users[g][i]: the users its request wants in inbound i
  ok,          \* ok[g]: no error so far
  issued,      \* requests so far
  acked        \* requests that have returned nil

vars == <<config, running, live, mu, snap, pc, at, request, email, users, ok, issued, acked>>

TypeOK ==
  /\ config \in [Inbounds -> Seq(Clients)]
  /\ running \in BOOLEAN /\ live \in [Inbounds -> SUBSET Clients]
  /\ mu \in Restarters \cup {Free}
  /\ snap \in [Restarters -> [Inbounds -> SUBSET Clients]]
  /\ pc \in [Goroutines -> {"idle", "remove", "update", "add", "replace", "restart",
                            "marshal", "launch"}]
  /\ at \in [Goroutines -> Inbounds] /\ request \in [Goroutines -> Requests]
  /\ email \in [Syncers -> Emails]
  /\ users \in [Goroutines -> [Inbounds -> SUBSET Emails]]
  /\ ok \in [Goroutines -> BOOLEAN]
  /\ issued \in Requests /\ acked \subseteq Requests

(* The list of clients SyncUsers makes for the users an inbound is to have.*)
ClientList(us, r) == SetToSeq({[email |-> e, account |-> r] : e \in us})

NoUsers == [i \in Inbounds |-> {}]

Init ==
  /\ \E us \in [Inbounds -> SUBSET Emails] :
       config = [i \in Inbounds |-> ClientList(us[i], 0)]
  /\ running = TRUE /\ live = [i \in Inbounds |-> Range(config[i])]
  /\ mu = Free /\ snap = [g \in Restarters |-> NoUsers]
  /\ pc = [g \in Goroutines |-> "idle"]
  /\ at = [g \in Goroutines |-> 1] /\ request = [g \in Goroutines |-> 0]
  /\ email = [g \in Syncers |-> CHOOSE e \in Emails : TRUE]
  /\ users = [g \in Goroutines |-> NoUsers]
  /\ ok = [g \in Goroutines |-> TRUE]
  /\ issued = 0 /\ acked = {0}

Goto(g, from, to) == pc[g] = from /\ pc' = [pc EXCEPT ![g] = to]

(* A request arrives with the users it wants in each inbound.              *)
Arrive(g, first, us) ==
  /\ issued < MaxRequests
  /\ Goto(g, "idle", first)
  /\ issued' = issued + 1
  /\ request' = [request EXCEPT ![g] = issued + 1]
  /\ users' = [users EXCEPT ![g] = us]
  /\ at' = [at EXCEPT ![g] = 1]
  /\ ok' = [ok EXCEPT ![g] = TRUE]
  /\ UNCHANGED <<config, running, live, mu, snap, acked>>

(* The request returns, with nil or an error; its locals are gone.         *)
Return(g, good) ==
  /\ acked' = IF good THEN acked \cup {request[g]} ELSE acked
  /\ at' = [at EXCEPT ![g] = 1] /\ ok' = [ok EXCEPT ![g] = TRUE]
  /\ request' = [request EXCEPT ![g] = 0] /\ users' = [users EXCEPT ![g] = NoUsers]

NextInboundPastEnd(g, from, first, good) ==                     \* mutant
  \/ /\ at[g] <= NInbounds
     /\ Goto(g, from, first)
     /\ at' = [at EXCEPT ![g] = at[g] + 1]
     /\ ok' = [ok EXCEPT ![g] = good]
     /\ UNCHANGED <<acked, request, users>>
  \/ /\ at[g] > NInbounds
     /\ Goto(g, from, "idle")
     /\ Return(g, good)

(* On to the next inbound, or out with the errors collected on the way.    *)
NextInbound(g, from, first, good) ==
  \/ /\ at[g] < NInbounds
     /\ Goto(g, from, first)
     /\ at' = [at EXCEPT ![g] = at[g] + 1]
     /\ ok' = [ok EXCEPT ![g] = good]
     /\ UNCHANGED <<acked, request, users>>
  \/ /\ at[g] = NInbounds
     /\ Goto(g, from, "idle")
     /\ Return(g, good)

-----------------------------------------------------------------------------
(* SyncUser.                                                               *)
UserEnter(g) ==
  \E e \in Emails, wanted \in SUBSET Inbounds :
    /\ Arrive(g, "remove", [i \in Inbounds |-> IF i \in wanted THEN {e} ELSE {}])
    /\ email' = [email EXCEPT ![g] = e]

Others(clients, e) == {c \in clients : c.email # e}

(* RemoveInboundUser, whose error is ignored: the core may not hear it.    *)
UserRemove(g) ==
  /\ Goto(g, "remove", "update")
  /\ \/ running /\ live' = [live EXCEPT ![at[g]] = Others(@, email[g])]
     \/ UNCHANGED live
  /\ UNCHANGED <<config, running, mu, snap, at, request, email, users, ok, issued, acked>>

(* updateUser and removeUser, under the lock of the inbound: the first     *)
(* client of that email goes, and the new one is appended.                 *)
NewClient(g) == [email |-> email[g], account |-> request[g]]

UserActive(g) == users[g][at[g]] # {}

AppendOnly(g) ==                                                \* mutant
  /\ UserActive(g)
  /\ Goto(g, "update", "add")
  /\ config' = [config EXCEPT ![at[g]] = Append(@, NewClient(g))]
  /\ UNCHANGED <<running, live, mu, snap, at, request, email, users, ok, issued, acked>>
UpdateUser(g) ==
  /\ UserActive(g)
  /\ Goto(g, "update", "add")
  /\ config' = [config EXCEPT ![at[g]] = Append(WithoutClient(@, email[g]), NewClient(g))]
  /\ UNCHANGED <<running, live, mu, snap, at, request, email, users, ok, issued, acked>>

RemoveUser(g) ==
  /\ ~UserActive(g)
  /\ NextInbound(g, "update", "remove", ok[g])
  /\ config' = [config EXCEPT ![at[g]] = WithoutClient(@, email[g])]
  /\ UNCHANGED <<running, live, mu, snap, email, issued>>

(* AddInboundUser, whose error is collected.  The core refuses an email it *)
(* has; the answer of a call it has carried out may be lost.               *)
UserAddIgnoresErrors(g) ==                                      \* mutant
  /\ NextInbound(g, "add", "remove", ok[g])
  /\ UNCHANGED <<config, running, live, mu, snap, email, issued>>
UserAdd(g) ==
  \/ /\ NextInbound(g, "add", "remove", FALSE)
     /\ UNCHANGED <<config, running, live, mu, snap, email, issued>>
  \/ /\ running /\ Others(live[at[g]], email[g]) = live[at[g]]
     /\ live' = [live EXCEPT ![at[g]] = @ \cup {NewClient(g)}]
     /\ \E good \in {ok[g], FALSE} : NextInbound(g, "add", "remove", good)
     /\ UNCHANGED <<config, running, mu, snap, email, issued>>

SyncUser(g) == UserEnter(g) \/ UserRemove(g) \/ UpdateUser(g) \/ RemoveUser(g) \/ UserAdd(g)

-----------------------------------------------------------------------------
(* SyncUsers: the lists are replaced one inbound at a time.                *)
BulkEnter(g) ==
  /\ \E us \in [Inbounds -> SUBSET Emails] : Arrive(g, "replace", us)
  /\ UNCHANGED email

BulkReplace(g) ==
  /\ pc[g] = "replace"
  /\ config' = [config EXCEPT ![at[g]] = ClientList(users[g][at[g]], request[g])]
  /\ IF at[g] < NInbounds
       THEN at' = [at EXCEPT ![g] = at[g] + 1] /\ UNCHANGED pc
       ELSE at' = [at EXCEPT ![g] = 1] /\ Goto(g, "replace", "restart")
  /\ UNCHANGED <<running, live, mu, snap, request, email, users, ok, issued, acked>>

(* Restart, for SyncUsers and the health check, under Xray.mu.  ToBytes    *)
(* holds the locks of all inbounds while it marshals them.                 *)
RestartStop(g) ==
  /\ mu = Free
  /\ Goto(g, "restart", "marshal")
  /\ mu' = g
  /\ running' = FALSE /\ live' = NoUsers
  /\ UNCHANGED <<config, snap, at, request, email, users, ok, issued, acked>>

RestartMarshal(g) ==
  /\ Goto(g, "marshal", "launch")
  /\ snap' = [snap EXCEPT ![g] = [i \in Inbounds |-> Range(config[i])]]
  /\ UNCHANGED <<config, running, live, mu, at, request, email, users, ok, issued, acked>>

RestartLaunch(g) ==
  /\ Goto(g, "launch", "idle")
  /\ mu' = Free
  /\ running' = TRUE /\ live' = snap[g]
  /\ snap' = [snap EXCEPT ![g] = NoUsers]
  /\ Return(g, g \in Bulks)
  /\ UNCHANGED <<config, email, issued>>

RestartFails(g) ==
  /\ Goto(g, "launch", "idle")
  /\ mu' = Free
  /\ snap' = [snap EXCEPT ![g] = NoUsers]
  /\ Return(g, FALSE)
  /\ UNCHANGED <<config, running, live, email, issued>>

Restart(g) == RestartStop(g) \/ RestartMarshal(g) \/ RestartLaunch(g) \/ RestartFails(g)

SyncUsers(g) == BulkEnter(g) \/ BulkReplace(g) \/ Restart(g)

(* Any error of its call, a late answer included, makes the health check   *)
(* restart the core.                                                       *)
HealthError ==
  /\ Goto(Health, "idle", "restart")
  /\ UNCHANGED <<config, running, live, mu, snap, at, request, email, users, ok, issued,
                 acked>>

CheckXrayHealth == HealthError \/ Restart(Health)

ProcessDies ==
  /\ running
  /\ running' = FALSE /\ live' = NoUsers
  /\ UNCHANGED <<config, mu, snap, pc, at, request, email, users, ok, issued, acked>>

Next ==
  \/ \E g \in Syncers : SyncUser(g)
  \/ \E g \in Bulks : SyncUsers(g)
  \/ CheckXrayHealth \/ ProcessDies

Spec == Init /\ [][Next]_vars

-----------------------------------------------------------------------------
(* config.go:146-232: no interleaving of requests leaves an inbound with   *)
(* two clients of one email, with which the core would not start again.    *)
UniqueClients ==
  \A i \in Inbounds : \A j, k \in DOMAIN config[i] :
    config[i][j].email = config[i][k].email => j = k

(* user.go:128-164: a client whose request returned nil, and which no      *)
(* later request has replaced, is in the running core: no overlap of       *)
(* requests, lost call, death or restart of the core takes it away unseen. *)
InFlight(e) == \E g \in Syncers : pc[g] # "idle" /\ email[g] = e
AckedServed ==
  running => \A i \in Inbounds : \A c \in Range(config[i]) :
    c.account \in acked /\ ~InFlight(c.email) => c \in live[i]
=============================================================================
