--------------------------- MODULE UserSyncProofs ---------------------------
(***************************************************************************)
(* Proofs of the safety properties of UserSync for any number of inbounds, *)
(* users, requests and goroutines.                                         *)
(***************************************************************************)
EXTENDS UserSync, ListsProofs, FiniteSetTheorems

-----------------------------------------------------------------------------
(* The edits of a client list.                                             *)
Unique(clients) ==
  \A j, k \in DOMAIN clients : clients[j].email = clients[k].email => j = k

(* What updateUser and removeUser leave of a list without duplicates: the  *)
(* clients of the other users, still without duplicates.                   *)
LEMMA WithoutClients ==
  ASSUME NEW clients \in Seq(Clients), NEW e
  PROVE  /\ WithoutClient(clients, e) \in Seq(Clients)
         /\ \A k \in DOMAIN WithoutClient(clients, e) :
              \E j \in DOMAIN clients : WithoutClient(clients, e)[k] = clients[j]
         /\ Unique(clients) =>
              /\ Unique(WithoutClient(clients, e))
              /\ \A k \in DOMAIN WithoutClient(clients, e) : WithoutClient(clients, e)[k].email # e
<1> DEFINE n == Len(clients)
           w == WithoutClient(clients, e)
<1>0. n \in Nat /\ DOMAIN clients = 1..n
  OBVIOUS
<1>1. CASE w = clients /\ \A k \in 1..n : clients[k].email # e
  BY <1>0, <1>1
<1>2. CASE \E m \in 1..n :
             /\ clients[m].email = e /\ \A k \in 1..(m - 1) : clients[k].email # e
             /\ w \in Seq(Clients) /\ Len(w) = n - 1
             /\ \A k \in 1..(n - 1) : w[k] = IF k < m THEN clients[k] ELSE clients[k + 1]
  <2>1. PICK m \in 1..n :
          /\ clients[m].email = e
          /\ w \in Seq(Clients) /\ Len(w) = n - 1
          /\ \A k \in 1..(n - 1) : w[k] = IF k < m THEN clients[k] ELSE clients[k + 1]
    BY <1>2
  <2>2. DOMAIN w = 1..(n - 1)
    BY <2>1
  <2> HIDE DEF n, w
  <2> DEFINE Old(i) == IF i < m THEN i ELSE i + 1
  <2>3. \A k \in 1..(n - 1) : Old(k) \in 1..n /\ Old(k) # m /\ w[k] = clients[Old(k)]
    BY <1>0, <2>1
  <2>4. \A j, k \in 1..(n - 1) : Old(j) = Old(k) => j = k
    BY <1>0
  <2> HIDE DEF Old
  <2>5. ASSUME Unique(clients)
        PROVE  Unique(w)
    <3> SUFFICES ASSUME NEW j \in 1..(n - 1), NEW k \in 1..(n - 1), w[j].email = w[k].email
                 PROVE  j = k
      BY <2>2 DEF Unique
    <3>1. clients[Old(j)].email = clients[Old(k)].email
      BY <2>3
    <3>2. Old(j) = Old(k)
      BY <1>0, <2>3, <2>5, <3>1 DEF Unique
    <3> QED BY <2>4, <3>2
  <2>6. ASSUME Unique(clients), NEW k \in 1..(n - 1)
        PROVE  w[k].email # e
    BY <1>0, <2>1, <2>3, <2>6 DEF Unique
  <2> QED BY <1>0, <2>1, <2>2, <2>3, <2>5, <2>6 DEF w
<1> HIDE DEF w, n
<1>3. \/ w = clients /\ \A k \in 1..n : clients[k].email # e
      \/ \E m \in 1..n :
           /\ clients[m].email = e /\ \A k \in 1..(m - 1) : clients[k].email # e
           /\ w \in Seq(Clients) /\ Len(w) = n - 1
           /\ \A k \in 1..(n - 1) : w[k] = IF k < m THEN clients[k] ELSE clients[k + 1]
  BY WithoutClientAt DEF w, n
<1> QED BY <1>0, <1>1, <1>2, <1>3 DEF w

(* Append adds its client and nothing else.                                *)
LEMMA AppendClient ==
  ASSUME NEW clients \in Seq(Clients), NEW c \in Clients, Unique(clients),
         \A k \in DOMAIN clients : clients[k].email # c.email
  PROVE  Unique(Append(clients, c))
BY DEF Unique

(* The list that SyncUsers makes has each of its users once.               *)
LEMMA ClientListUnique ==
  ASSUME NEW us \in SUBSET Emails, NEW r \in Requests
  PROVE  /\ ClientList(us, r) \in Seq(Clients)
         /\ Unique(ClientList(us, r))
         /\ \A k \in DOMAIN ClientList(us, r) : ClientList(us, r)[k].account = r
<1> DEFINE S == {[email |-> e, account |-> r] : e \in us}
           f == [e \in us |-> [email |-> e, account |-> r]]
           s == ClientList(us, r)
<1>1. IsFiniteSet(us)
  BY FS_Subset, UserSyncAssumption
<1>2. f \in Surjection(us, S)
  BY DEF Surjection
<1>3. IsFiniteSet(S)
  BY <1>1, <1>2, FS_Surjection
<1>4. Cardinality(S) \in Nat /\ \E b : b \in Bijection(1..Cardinality(S), S)
  BY <1>3, FS_CardinalityType DEF ExistsBijection
<1>5. \E b \in [1..Cardinality(S) -> S] : IsInjective(b)
  BY <1>4 DEF Bijection, Injection
<1>6. s \in [1..Cardinality(S) -> S] /\ IsInjective(s)
  BY <1>5 DEF ClientList, SetToSeq
<1>7. S \subseteq Clients
  BY DEF Clients
<1> HIDE DEF s
<1>8. s \in Seq(Clients)
  <2>1. s \in [1..Cardinality(S) -> Clients]
    BY <1>6, <1>7
  <2> QED BY <1>4, <2>1, FunctionIsSeq
<1>9. \A k \in DOMAIN s : s[k].account = r /\ s[k] = [email |-> s[k].email, account |-> r]
  BY <1>6
<1>10. Unique(s)
  BY <1>6, <1>9 DEF Unique, IsInjective
<1> QED BY <1>8, <1>9, <1>10 DEF s

-----------------------------------------------------------------------------
(* Types.                                                                  *)
LEMMA RangeOfClients ==
  ASSUME NEW clients \in Seq(Clients)
  PROVE  Range(clients) \in SUBSET Clients
BY DEF Range

LEMMA TypeInit == Init => TypeOK
<1> SUFFICES ASSUME Init
             PROVE  TypeOK
  OBVIOUS
<1> USE UserSyncAssumption
<1>1. config \in [Inbounds -> Seq(Clients)]
  <2>1. PICK us \in [Inbounds -> SUBSET Emails] :
          config = [i \in Inbounds |-> ClientList(us[i], 0)]
    BY DEF Init
  <2>2. 0 \in Requests
    BY DEF Requests
  <2> QED BY <2>1, <2>2, ClientListUnique
<1>2. live \in [Inbounds -> SUBSET Clients]
  BY <1>1, RangeOfClients DEF Init
<1>3. email \in [Syncers -> Emails]
  BY DEF Init
<1>4. /\ 1 \in Inbounds /\ 0 \in Requests
      /\ NoUsers \in [Inbounds -> SUBSET Clients]
      /\ NoUsers \in [Inbounds -> SUBSET Emails]
  BY DEF Inbounds, Requests, NoUsers
<1> QED BY <1>1, <1>2, <1>3, <1>4 DEF Init, TypeOK

(* The bookkeeping of a request keeps its types.                           *)
LEMMA TypeArrive ==
  ASSUME TypeOK, NEW g \in Goroutines, NEW us \in [Inbounds -> SUBSET Emails],
         NEW first \in {"remove", "replace"}, Arrive(g, first, us), email' \in [Syncers -> Emails]
  PROVE  TypeOK'
<1>1. issued + 1 \in Requests /\ 1 \in Inbounds
  BY UserSyncAssumption DEF Arrive, TypeOK, Requests, Inbounds
<1> QED BY <1>1 DEF Arrive, Goto, TypeOK

LEMMA TypeReturn ==
  ASSUME TypeOK, NEW g \in Goroutines, NEW good \in BOOLEAN, Return(g, good)
  PROVE  /\ acked' \subseteq Requests /\ at' \in [Goroutines -> Inbounds]
         /\ ok' \in [Goroutines -> BOOLEAN] /\ request' \in [Goroutines -> Requests]
         /\ users' \in [Goroutines -> [Inbounds -> SUBSET Emails]]
<1>1. 1 \in Inbounds /\ 0 \in Requests /\ NoUsers \in [Inbounds -> SUBSET Emails]
  BY UserSyncAssumption DEF Inbounds, Requests, NoUsers
<1> QED BY <1>1 DEF Return, TypeOK

LEMMA TypeNextInbound ==
  ASSUME TypeOK, NEW g \in Goroutines, NEW good \in BOOLEAN, NEW from,
         NextInbound(g, from, "remove", good)
  PROVE  /\ acked' \subseteq Requests /\ at' \in [Goroutines -> Inbounds]
         /\ ok' \in [Goroutines -> BOOLEAN] /\ request' \in [Goroutines -> Requests]
         /\ users' \in [Goroutines -> [Inbounds -> SUBSET Emails]]
         /\ pc' \in [Goroutines -> {"idle", "remove", "update", "add", "replace", "restart",
                                      "marshal", "launch"}]
<1>1. CASE at[g] < NInbounds /\ at' = [at EXCEPT ![g] = at[g] + 1]
           /\ Goto(g, from, "remove") /\ ok' = [ok EXCEPT ![g] = good]
           /\ UNCHANGED <<acked, request, users>>
  <2>1. at[g] + 1 \in Inbounds
    BY <1>1, UserSyncAssumption DEF TypeOK, Inbounds
  <2> QED BY <1>1, <2>1 DEF TypeOK, Goto
<1>2. CASE Goto(g, from, "idle") /\ Return(g, good)
  BY <1>2, TypeReturn DEF TypeOK, Goto
<1> QED BY <1>1, <1>2 DEF NextInbound

LEMMA NewClientType ==
  ASSUME TypeOK, NEW g \in Syncers
  PROVE  NewClient(g) \in Clients /\ g \in Goroutines /\ at[g] \in Inbounds
BY DEF TypeOK, NewClient, Clients, Goroutines

LEMMA TypeStep == TypeOK /\ [Next]_vars => TypeOK'
<1> SUFFICES ASSUME TypeOK, [Next]_vars
             PROVE  TypeOK'
  OBVIOUS
<1>a. \A g \in Syncers : g \in Goroutines
  BY DEF Goroutines
<1>b. \A g \in Bulks : g \in Goroutines /\ g \in Restarters
  BY DEF Goroutines, Restarters
<1>c. Health \in Goroutines /\ Health \in Restarters
  BY DEF Goroutines, Restarters
<1>d. NoUsers \in [Inbounds -> SUBSET Clients] /\ 1 \in Inbounds
  BY UserSyncAssumption DEF NoUsers, Inbounds
<1>1. ASSUME NEW g \in Syncers, UserEnter(g)
      PROVE  TypeOK'
  <2>1. PICK e \in Emails, wanted \in SUBSET Inbounds :
          /\ Arrive(g, "remove", [i \in Inbounds |-> IF i \in wanted THEN {e} ELSE {}])
          /\ email' = [email EXCEPT ![g] = e]
    BY <1>1 DEF UserEnter
  <2>2. [i \in Inbounds |-> IF i \in wanted THEN {e} ELSE {}] \in [Inbounds -> SUBSET Emails]
    OBVIOUS
  <2>3. email' \in [Syncers -> Emails]
    BY <2>1 DEF TypeOK
  <2> QED BY <1>a, <2>1, <2>2, <2>3, TypeArrive
<1>2. ASSUME NEW g \in Syncers, UserRemove(g)
      PROVE  TypeOK'
  <2>1. live' \in [Inbounds -> SUBSET Clients]
    <3>1. live \in [Inbounds -> SUBSET Clients] /\ at[g] \in Inbounds
      BY NewClientType DEF TypeOK
    <3>2. Others(live[at[g]], email[g]) \in SUBSET Clients
      BY <3>1 DEF Others
    <3>3. UNCHANGED live \/ live' = [live EXCEPT ![at[g]] = Others(live[at[g]], email[g])]
      BY <1>2 DEF UserRemove
    <3> QED BY <3>1, <3>2, <3>3
  <2> QED BY <1>2, <1>a, <2>1 DEF UserRemove, TypeOK, Goto
<1>3. ASSUME NEW g \in Syncers, UpdateUser(g)
      PROVE  TypeOK'
  <2>1. Append(WithoutClient(config[at[g]], email[g]), NewClient(g)) \in Seq(Clients)
    <3>1. config[at[g]] \in Seq(Clients)
      BY NewClientType DEF TypeOK
    <3> QED BY <3>1, NewClientType, WithoutClients
  <2>2. config' \in [Inbounds -> Seq(Clients)]
    BY <1>3, <2>1 DEF UpdateUser, TypeOK
  <2> QED BY <1>3, <1>a, <2>2 DEF UpdateUser, TypeOK, Goto
<1>4. ASSUME NEW g \in Syncers, RemoveUser(g)
      PROVE  TypeOK'
  <2>1. WithoutClient(config[at[g]], email[g]) \in Seq(Clients)
    <3>1. config[at[g]] \in Seq(Clients)
      BY NewClientType DEF TypeOK
    <3> QED BY <3>1, WithoutClients
  <2>2. config' \in [Inbounds -> Seq(Clients)]
    BY <1>4, <2>1 DEF RemoveUser, TypeOK
  <2>3. ok[g] \in BOOLEAN /\ NextInbound(g, "update", "remove", ok[g])
    BY <1>4, <1>a DEF RemoveUser, TypeOK
  <2> QED BY <1>4, <1>a, <2>2, <2>3, TypeNextInbound DEF RemoveUser, TypeOK
<1>5. ASSUME NEW g \in Syncers, UserAdd(g)
      PROVE  TypeOK'
  <2>1. CASE /\ NextInbound(g, "add", "remove", FALSE)
             /\ UNCHANGED <<config, running, live, mu, snap, email, issued>>
    <3>1. FALSE \in BOOLEAN
      OBVIOUS
    <3> QED BY <1>a, <2>1, <3>1, TypeNextInbound DEF TypeOK
  <2>2. CASE /\ live' = [live EXCEPT ![at[g]] = @ \cup {NewClient(g)}]
             /\ \E good \in {ok[g], FALSE} : NextInbound(g, "add", "remove", good)
             /\ UNCHANGED <<config, running, mu, snap, email, issued>>
    <3>1. ok[g] \in BOOLEAN
      BY <1>a DEF TypeOK
    <3>2. PICK good \in BOOLEAN : NextInbound(g, "add", "remove", good)
      BY <2>2, <3>1
    <3>3. live' \in [Inbounds -> SUBSET Clients]
      <4>1. live \in [Inbounds -> SUBSET Clients] /\ at[g] \in Inbounds
        BY NewClientType DEF TypeOK
      <4>2. live[at[g]] \cup {NewClient(g)} \in SUBSET Clients
        BY <4>1, NewClientType
      <4> QED BY <2>2, <4>1, <4>2
    <3> QED BY <1>a, <2>2, <3>2, <3>3, TypeNextInbound DEF TypeOK
  <2> QED BY <1>5, <2>1, <2>2, Zenon DEF UserAdd
<1>6. ASSUME NEW g \in Bulks, BulkEnter(g)
      PROVE  TypeOK'
  BY <1>6, <1>b, TypeArrive DEF BulkEnter, TypeOK
<1>7. ASSUME NEW g \in Bulks, BulkReplace(g)
      PROVE  TypeOK'
  <2>1. ClientList(users[g][at[g]], request[g]) \in Seq(Clients)
    <3>1. users[g] \in [Inbounds -> SUBSET Emails] /\ at[g] \in Inbounds /\ request[g] \in Requests
      BY <1>b DEF TypeOK
    <3>2. users[g][at[g]] \in SUBSET Emails
      BY <3>1
    <3> QED BY <3>1, <3>2, ClientListUnique
  <2>2. config' \in [Inbounds -> Seq(Clients)]
    BY <1>7, <2>1 DEF BulkReplace, TypeOK
  <2>3. at' \in [Goroutines -> Inbounds]
    <3>1. CASE at[g] < NInbounds
      <4>1. at[g] + 1 \in Inbounds
        BY <3>1, <1>b, UserSyncAssumption DEF TypeOK, Inbounds
      <4> QED BY <1>7, <3>1, <4>1 DEF BulkReplace, TypeOK
    <3>2. CASE ~(at[g] < NInbounds)
      BY <1>7, <3>2, <1>d DEF BulkReplace, TypeOK
    <3> QED BY <3>1, <3>2
  <2>4. UNCHANGED pc \/ pc' = [pc EXCEPT ![g] = "restart"]
    BY <1>7 DEF BulkReplace, Goto
  <2>5. UNCHANGED <<running, live, mu, snap, request, email, users, ok, issued, acked>>
    BY <1>7 DEF BulkReplace
  <2> QED BY <2>2, <2>3, <2>4, <2>5 DEF TypeOK
<1>8. ASSUME NEW g \in Restarters, Restart(g)
      PROVE  TypeOK'
  <2>1. CASE RestartStop(g)
    BY <2>1, <1>d DEF RestartStop, TypeOK, Goto
  <2>2. CASE RestartMarshal(g)
    <3>1. [i \in Inbounds |-> Range(config[i])] \in [Inbounds -> SUBSET Clients]
      BY RangeOfClients DEF TypeOK
    <3> QED BY <2>2, <3>1 DEF RestartMarshal, TypeOK, Goto
  <2>3. CASE RestartLaunch(g)
    <3>1. g \in Goroutines /\ (g \in Bulks) \in BOOLEAN /\ Return(g, g \in Bulks)
      BY <2>3 DEF RestartLaunch, Goroutines
    <3>2. live' \in [Inbounds -> SUBSET Clients] /\ running' \in BOOLEAN
      BY <2>3 DEF RestartLaunch, TypeOK
    <3>3. /\ snap' \in [Restarters -> [Inbounds -> SUBSET Clients]] /\ mu' = Free
          /\ UNCHANGED <<config, email, issued>>
      BY <2>3, <1>d DEF RestartLaunch, TypeOK
    <3>4. pc' = [pc EXCEPT ![g] = "idle"]
      BY <2>3 DEF RestartLaunch, Goto
    <3> QED BY <3>1, <3>2, <3>3, <3>4, TypeReturn DEF TypeOK
  <2>4. CASE RestartFails(g)
    BY <2>4, <1>d, TypeReturn DEF RestartFails, TypeOK, Goto, Goroutines
  <2> QED BY <1>8, <2>1, <2>2, <2>3, <2>4 DEF Restart
<1>9. CASE HealthError
  BY <1>9, <1>c DEF HealthError, TypeOK, Goto
<1>10. CASE ProcessDies
  BY <1>10, <1>d DEF ProcessDies, TypeOK
<1>11. CASE UNCHANGED vars
  BY <1>11 DEF vars, TypeOK
<1> QED BY <1>1, <1>2, <1>3, <1>4, <1>5, <1>6, <1>7, <1>8, <1>9, <1>10, <1>11, <1>b, <1>c
        DEF Next, SyncUser, SyncUsers, CheckXrayHealth

-----------------------------------------------------------------------------
(* The lists.                                                              *)
LEMMA UniqueIsUnique == UniqueClients <=> \A i \in Inbounds : Unique(config[i])
BY DEF UniqueClients, Unique

LEMMA UniqueInit == Init => UniqueClients
<1> SUFFICES ASSUME Init
             PROVE  UniqueClients
  OBVIOUS
<1>1. PICK us \in [Inbounds -> SUBSET Emails] :
        config = [i \in Inbounds |-> ClientList(us[i], 0)]
  BY DEF Init
<1>2. 0 \in Requests
  BY UserSyncAssumption DEF Requests
<1>3. \A i \in Inbounds : Unique(config[i])
  BY <1>1, <1>2, ClientListUnique
<1> QED BY <1>3, UniqueIsUnique

LEMMA UniqueStep == TypeOK /\ UniqueClients /\ [Next]_vars => UniqueClients'
<1> SUFFICES ASSUME TypeOK, UniqueClients, [Next]_vars
             PROVE  \A i \in Inbounds : Unique(config'[i])
  BY DEF UniqueClients, Unique
<1>a. \A i \in Inbounds : Unique(config[i]) /\ config[i] \in Seq(Clients)
  BY UniqueIsUnique DEF TypeOK
<1>b. config \in [Inbounds -> Seq(Clients)]
  BY DEF TypeOK
<1>1. ASSUME NEW g \in Syncers, UpdateUser(g)
      PROVE  \A i \in Inbounds : Unique(config'[i])
  <2>1. Unique(Append(WithoutClient(config[at[g]], email[g]), NewClient(g)))
    <3> DEFINE w == WithoutClient(config[at[g]], email[g])
    <3>1. w \in Seq(Clients) /\ Unique(w) /\ \A k \in DOMAIN w : w[k].email # email[g]
      BY <1>a, NewClientType, WithoutClients
    <3>2. NewClient(g) \in Clients /\ NewClient(g).email = email[g]
      BY NewClientType DEF NewClient
    <3> HIDE DEF w
    <3>3. \A k \in DOMAIN w : w[k].email # NewClient(g).email
      BY <3>1, <3>2
    <3>4. Unique(Append(w, NewClient(g)))
      BY <3>1, <3>2, <3>3, AppendClient
    <3> QED BY <3>4 DEF w
  <2> QED BY <1>1, <1>a, <1>b, <2>1 DEF UpdateUser
<1>2. ASSUME NEW g \in Syncers, RemoveUser(g)
      PROVE  \A i \in Inbounds : Unique(config'[i])
  <2>1. Unique(WithoutClient(config[at[g]], email[g]))
    BY <1>a, NewClientType, WithoutClients
  <2> QED BY <1>2, <1>a, <1>b, <2>1 DEF RemoveUser
<1>3. ASSUME NEW g \in Bulks, BulkReplace(g)
      PROVE  \A i \in Inbounds : Unique(config'[i])
  <2>1. Unique(ClientList(users[g][at[g]], request[g]))
    BY ClientListUnique DEF TypeOK, Goroutines, Restarters
  <2> QED BY <1>3, <1>a, <1>b, <2>1 DEF BulkReplace
<1>4. CASE UNCHANGED config
  BY <1>4, <1>a
<1>5. ASSUME NEW g \in Syncers, UserEnter(g) \/ UserRemove(g) \/ UserAdd(g)
      PROVE  UNCHANGED config
  BY <1>5 DEF UserEnter, Arrive, UserRemove, UserAdd
<1>6. ASSUME NEW g \in Restarters, Restart(g) \/ BulkEnter(g)
      PROVE  UNCHANGED config
  BY <1>6 DEF Restart, RestartStop, RestartMarshal, RestartLaunch, RestartFails, BulkEnter,
              Arrive
<1>7. HealthError \/ ProcessDies \/ UNCHANGED vars => UNCHANGED config
  BY DEF HealthError, ProcessDies, vars
<1> QED BY <1>1, <1>2, <1>3, <1>4, <1>5, <1>6, <1>7
        DEF Next, SyncUser, SyncUsers, CheckXrayHealth, Restarters

-----------------------------------------------------------------------------
(* Where a goroutine may be, and who holds the lock of Restart.            *)
Where ==
  /\ \A g \in Syncers : pc[g] \in {"idle", "remove", "update", "add"}
  /\ \A g \in Bulks : pc[g] \in {"idle", "replace", "restart", "marshal", "launch"}
  /\ pc[Health] \in {"idle", "restart", "marshal", "launch"}

Locked ==
  \A g \in Restarters : pc[g] \in {"marshal", "launch"} => mu = g /\ ~running

LEMMA WhereStep == TypeOK /\ Where /\ [Next]_vars => Where'
<1> SUFFICES ASSUME TypeOK, Where, [Next]_vars
             PROVE  Where'
  OBVIOUS
<1> USE UserSyncAssumption DEF Where, TypeOK, Goto, Goroutines, Restarters
<1>1. ASSUME NEW g \in Syncers, SyncUser(g)
      PROVE  Where'
  <2>1. CASE UserEnter(g)
    BY <2>1 DEF UserEnter, Arrive
  <2>2. CASE UserRemove(g)
    BY <2>2 DEF UserRemove
  <2>3. CASE UpdateUser(g)
    BY <2>3 DEF UpdateUser
  <2>4. CASE RemoveUser(g)
    BY <2>4 DEF RemoveUser, NextInbound
  <2>5. CASE UserAdd(g)
    BY <2>5 DEF UserAdd, NextInbound
  <2> QED BY <1>1, <2>1, <2>2, <2>3, <2>4, <2>5 DEF SyncUser
<1>2. ASSUME NEW g \in Bulks, BulkEnter(g) \/ BulkReplace(g)
      PROVE  Where'
  <2>1. UNCHANGED pc \/ \E to \in {"replace", "restart"} : pc' = [pc EXCEPT ![g] = to]
    BY <1>2 DEF BulkEnter, BulkReplace, Arrive
  <2> QED BY <2>1
<1>3. ASSUME NEW g \in Restarters, Restart(g)
      PROVE  Where'
  <2>1. \E to \in {"marshal", "launch", "idle"} : pc' = [pc EXCEPT ![g] = to]
    BY <1>3 DEF Restart, RestartStop, RestartMarshal, RestartLaunch, RestartFails
  <2> QED BY <2>1
<1>4. CASE HealthError
  <2>1. pc' = [pc EXCEPT ![Health] = "restart"]
    BY <1>4 DEF HealthError
  <2> QED BY <2>1
<1>5. CASE ProcessDies
  BY <1>5 DEF ProcessDies
<1>6. CASE UNCHANGED vars
  BY <1>6 DEF vars
<1> QED BY <1>1, <1>2, <1>3, <1>4, <1>5, <1>6 DEF Next, SyncUsers, CheckXrayHealth

LEMMA LockedStep == TypeOK /\ Where /\ Locked /\ [Next]_vars => Locked'
<1> SUFFICES ASSUME TypeOK, Where, Locked, [Next]_vars
             PROVE  Locked'
  OBVIOUS
<1> USE UserSyncAssumption DEF Locked, TypeOK, Goto, Goroutines, Restarters
<1>1. ASSUME NEW g \in Syncers, SyncUser(g)
      PROVE  Locked'
  <2>1. UNCHANGED <<mu, running>>
    BY <1>1 DEF SyncUser, UserEnter, Arrive, UserRemove, UpdateUser, RemoveUser, UserAdd
  <2>2. \E to : pc' = [pc EXCEPT ![g] = to]
    BY <1>1 DEF SyncUser, UserEnter, Arrive, UserRemove, UpdateUser, RemoveUser, UserAdd,
                NextInbound
  <2>3. \A h \in Restarters : pc'[h] = pc[h]
    BY <2>2
  <2> QED BY <2>1, <2>3
<1>2. ASSUME NEW g \in Bulks, BulkEnter(g) \/ BulkReplace(g)
      PROVE  Locked'
  <2>1. /\ UNCHANGED <<mu, running>> /\ \A h \in Restarters \ {g} : pc'[h] = pc[h]
        /\ pc'[g] \in {"replace", "restart"}
    BY <1>2 DEF BulkEnter, BulkReplace, Arrive
  <2> QED BY <2>1
<1>3. ASSUME NEW g \in Restarters, Restart(g)
      PROVE  Locked'
  <2>1. CASE RestartStop(g)
    BY <2>1 DEF RestartStop
  <2>2. CASE RestartMarshal(g)
    BY <2>2 DEF RestartMarshal
  <2>3. CASE RestartLaunch(g)
    BY <2>3 DEF RestartLaunch
  <2>4. CASE RestartFails(g)
    BY <2>4 DEF RestartFails
  <2> QED BY <1>3, <2>1, <2>2, <2>3, <2>4 DEF Restart
<1>4. CASE HealthError
  BY <1>4 DEF HealthError
<1>5. CASE ProcessDies
  BY <1>5 DEF ProcessDies
<1>6. CASE UNCHANGED vars
  BY <1>6 DEF vars
<1> QED BY <1>1, <1>2, <1>3, <1>4, <1>5, <1>6 DEF Next, SyncUsers, CheckXrayHealth

-----------------------------------------------------------------------------
(* The numbers of the requests: those in flight are distinct and not yet   *)
(* acknowledged, and no client carries one that is still to come.          *)
Numbered ==
  /\ 0 \in acked /\ acked \subseteq 0..issued
  /\ request[Health] = 0
  /\ \A g \in Syncers \cup Bulks : request[g] = 0 <=> pc[g] = "idle"
  /\ \A g \in Goroutines : request[g] <= issued /\ (request[g] # 0 => request[g] \notin acked)
  /\ \A g, h \in Goroutines : request[g] = request[h] /\ request[g] # 0 => g = h

NoneFromFuture ==
  \A i \in Inbounds : \A c \in Range(config[i]) : c.account <= issued

LEMMA NumberedArrive ==
  ASSUME TypeOK, Numbered, NEW g \in Syncers \cup Bulks, NEW us, NEW first, first # "idle",
         Arrive(g, first, us)
  PROVE  Numbered'
<1> USE UserSyncAssumption
<1>0. g \in Goroutines /\ g # Health /\ Health \in Goroutines
  BY DEF Goroutines, Restarters
<1>1. /\ issued \in Nat /\ issued' = issued + 1 /\ acked' = acked
      /\ request' = [request EXCEPT ![g] = issued + 1] /\ pc' = [pc EXCEPT ![g] = first]
  BY DEF Arrive, Goto, TypeOK, Requests
<1>2. \A h \in Goroutines : request[h] \in Nat
  BY DEF TypeOK, Requests
<1>3. \A h \in Goroutines : request'[h] = IF h = g THEN issued + 1 ELSE request[h]
  BY <1>1 DEF TypeOK
<1>4. \A h \in Goroutines : pc'[h] = IF h = g THEN first ELSE pc[h]
  BY <1>1 DEF TypeOK
<1>5. Syncers \cup Bulks \subseteq Goroutines
  BY DEF Goroutines, Restarters
<1> QED BY <1>0, <1>1, <1>2, <1>3, <1>4, <1>5 DEF Numbered

LEMMA NumberedReturn ==
  ASSUME TypeOK, Numbered, NEW g \in Goroutines, NEW good \in BOOLEAN, Return(g, good),
         pc' = [pc EXCEPT ![g] = "idle"], UNCHANGED issued
  PROVE  Numbered'
<1> USE UserSyncAssumption
<1>1. Health \in Goroutines /\ Syncers \cup Bulks \subseteq Goroutines
  BY DEF Goroutines, Restarters
<1>2. \A h \in Goroutines : request[h] \in Nat /\ issued \in Nat
  BY DEF TypeOK, Requests
<1>3. \A h \in Goroutines : request'[h] = IF h = g THEN 0 ELSE request[h]
  BY DEF TypeOK, Return
<1>4. \A h \in Goroutines : pc'[h] = IF h = g THEN "idle" ELSE pc[h]
  BY DEF TypeOK
<1>5. acked \subseteq acked' /\ acked' \subseteq acked \cup {request[g]}
  BY DEF Return
<1> QED BY <1>1, <1>2, <1>3, <1>4, <1>5 DEF Numbered

LEMMA NumberedOther ==
  ASSUME TypeOK, Numbered, UNCHANGED <<acked, issued, request>>,
         \A h \in Syncers \cup Bulks : pc'[h] = "idle" <=> pc[h] = "idle"
  PROVE  Numbered'
BY DEF Numbered

LEMMA NumberedNextInbound ==
  ASSUME TypeOK, Numbered, NEW g \in Syncers, NEW good \in BOOLEAN, NEW from, from # "idle",
         NextInbound(g, from, "remove", good), UNCHANGED issued
  PROVE  Numbered'
<1>1. g \in Goroutines /\ Syncers \cup Bulks \subseteq Goroutines
  BY DEF Goroutines, Restarters
<1>2. CASE Goto(g, from, "remove") /\ UNCHANGED <<acked, request>>
  BY <1>1, <1>2, NumberedOther DEF Goto, TypeOK
<1>3. CASE Goto(g, from, "idle") /\ Return(g, good)
  BY <1>1, <1>3, NumberedReturn DEF Goto
<1> QED BY <1>2, <1>3 DEF NextInbound

LEMMA NumberedStep == TypeOK /\ Where /\ Numbered /\ [Next]_vars => Numbered'
<1> SUFFICES ASSUME TypeOK, Where, Numbered, [Next]_vars
             PROVE  Numbered'
  OBVIOUS
<1>a. Syncers \cup Bulks \subseteq Goroutines /\ Restarters \subseteq Goroutines
  BY DEF Goroutines, Restarters
<1>1. ASSUME NEW g \in Syncers, SyncUser(g)
      PROVE  Numbered'
  <2>1. CASE UserEnter(g)
    BY <2>1, NumberedArrive DEF UserEnter
  <2>2. CASE UserRemove(g)
    BY <2>2, <1>a, NumberedOther DEF UserRemove, Goto, TypeOK
  <2>3. CASE UpdateUser(g)
    BY <2>3, <1>a, NumberedOther DEF UpdateUser, Goto, TypeOK
  <2>4. CASE RemoveUser(g)
    <3>1. ok[g] \in BOOLEAN /\ NextInbound(g, "update", "remove", ok[g]) /\ UNCHANGED issued
      BY <2>4, <1>a DEF RemoveUser, TypeOK
    <3> QED BY <3>1, NumberedNextInbound
  <2>5. CASE UserAdd(g)
    <3>1. PICK good \in BOOLEAN : NextInbound(g, "add", "remove", good)
      BY <2>5, <1>a DEF UserAdd, TypeOK
    <3>2. UNCHANGED issued
      BY <2>5 DEF UserAdd
    <3> QED BY <3>1, <3>2, NumberedNextInbound
  <2> QED BY <1>1, <2>1, <2>2, <2>3, <2>4, <2>5 DEF SyncUser
<1>2. ASSUME NEW g \in Bulks, BulkEnter(g)
      PROVE  Numbered'
  BY <1>2, NumberedArrive DEF BulkEnter
<1>3. ASSUME NEW g \in Bulks, BulkReplace(g)
      PROVE  Numbered'
  BY <1>3, <1>a, NumberedOther DEF BulkReplace, Goto, TypeOK
<1>4. ASSUME NEW g \in Restarters, Restart(g)
      PROVE  Numbered'
  <2>1. CASE RestartStop(g)
    BY <2>1, <1>a, NumberedOther DEF RestartStop, Goto, TypeOK
  <2>2. CASE RestartMarshal(g)
    BY <2>2, <1>a, NumberedOther DEF RestartMarshal, Goto, TypeOK
  <2>3. CASE RestartLaunch(g)
    <3>1. (g \in Bulks) \in BOOLEAN /\ Return(g, g \in Bulks) /\ UNCHANGED issued
      BY <2>3 DEF RestartLaunch
    <3>2. pc' = [pc EXCEPT ![g] = "idle"]
      BY <2>3 DEF RestartLaunch, Goto
    <3> QED BY <1>a, <3>1, <3>2, NumberedReturn
  <2>4. CASE RestartFails(g)
    <3>1. Return(g, FALSE) /\ UNCHANGED issued /\ pc' = [pc EXCEPT ![g] = "idle"]
      BY <2>4 DEF RestartFails, Goto
    <3> QED BY <1>a, <3>1, NumberedReturn
  <2> QED BY <1>4, <2>1, <2>2, <2>3, <2>4 DEF Restart
<1>5. CASE HealthError
  <2>1. Health \notin Syncers \cup Bulks
    BY UserSyncAssumption DEF Restarters
  <2> QED BY <1>5, <1>a, <2>1, NumberedOther DEF HealthError, Goto, TypeOK
<1>6. CASE ProcessDies
  BY <1>6, NumberedOther DEF ProcessDies
<1>7. CASE UNCHANGED vars
  BY <1>7, NumberedOther DEF vars
<1> QED BY <1>1, <1>2, <1>3, <1>4, <1>5, <1>6, <1>7
        DEF Next, SyncUsers, CheckXrayHealth, Restarters

-----------------------------------------------------------------------------
(* What the edits of a request leave in the lists, as sets.                *)
LEMMA WithoutRange ==
  ASSUME NEW clients \in Seq(Clients), Unique(clients), NEW e,
         NEW c \in Range(WithoutClient(clients, e))
  PROVE  c \in Range(clients) /\ c.email # e
BY WithoutClients DEF Range

LEMMA AppendRange ==
  ASSUME NEW clients \in Seq(Clients), NEW d \in Clients, NEW c \in Range(Append(clients, d))
  PROVE  c \in Range(clients) \/ c = d
BY DEF Range

LEMMA UpdateEdit ==
  ASSUME TypeOK, UniqueClients, NEW g \in Syncers, UpdateUser(g),
         NEW i \in Inbounds, NEW c \in Range(config'[i])
  PROVE  \/ c \in Range(config[i]) /\ (i = at[g] => c.email # email[g])
         \/ i = at[g] /\ c = NewClient(g)
<1>1. config[at[g]] \in Seq(Clients) /\ Unique(config[at[g]])
  BY NewClientType, UniqueIsUnique DEF TypeOK
<1> DEFINE w == WithoutClient(config[at[g]], email[g])
<1>2. w \in Seq(Clients)
  BY <1>1, WithoutClients
<1>3. i = at[g] => config'[i] = Append(w, NewClient(g))
  BY DEF UpdateUser, TypeOK
<1>4. i # at[g] => config'[i] = config[i]
  BY DEF UpdateUser, TypeOK
<1>5. CASE i = at[g]
  <2> HIDE DEF w
  <2>1. c \in Range(w) \/ c = NewClient(g)
    BY <1>2, <1>3, <1>5, AppendRange, NewClientType
  <2>2. c \in Range(w) => c \in Range(config[i]) /\ c.email # email[g]
    BY <1>1, <1>5, WithoutRange DEF w
  <2> QED BY <1>5, <2>1, <2>2
<1> QED BY <1>4, <1>5

LEMMA RemoveEdit ==
  ASSUME TypeOK, UniqueClients, NEW g \in Syncers, RemoveUser(g),
         NEW i \in Inbounds, NEW c \in Range(config'[i])
  PROVE  c \in Range(config[i]) /\ (i = at[g] => c.email # email[g])
<1>1. config[at[g]] \in Seq(Clients) /\ Unique(config[at[g]])
  BY NewClientType, UniqueIsUnique DEF TypeOK
<1>2. i = at[g] => config'[i] = WithoutClient(config[at[g]], email[g])
  BY DEF RemoveUser, TypeOK
<1>3. i # at[g] => config'[i] = config[i]
  BY DEF RemoveUser, TypeOK
<1> QED BY <1>1, <1>2, <1>3, WithoutRange

LEMMA ReplaceEdit ==
  ASSUME TypeOK, NEW g \in Bulks, BulkReplace(g),
         NEW i \in Inbounds, NEW c \in Range(config'[i])
  PROVE  c \in Range(config[i]) \/ c.account = request[g]
<1> DEFINE s == ClientList(users[g][at[g]], request[g])
<1>1. g \in Goroutines
  BY DEF Goroutines, Restarters
<1>2. \A k \in DOMAIN s : s[k].account = request[g]
  BY <1>1, ClientListUnique DEF TypeOK
<1> HIDE DEF s
<1>3. \A d \in Range(s) : d.account = request[g]
  BY <1>2 DEF Range
<1>4. config'[i] = IF i = at[g] THEN s ELSE config[i]
  BY DEF BulkReplace, TypeOK, s
<1> QED BY <1>3, <1>4

(* The steps that edit no list, for the proofs that look at the lists.     *)
LEMMA EditsOnly ==
  ASSUME [Next]_vars
  PROVE  \/ UNCHANGED config
         \/ \E g \in Syncers : UpdateUser(g) \/ RemoveUser(g)
         \/ \E g \in Bulks : BulkReplace(g)
<1>1. ASSUME NEW g \in Syncers, UserEnter(g) \/ UserRemove(g) \/ UserAdd(g)
      PROVE  UNCHANGED config
  BY <1>1 DEF UserEnter, Arrive, UserRemove, UserAdd
<1>2. ASSUME NEW g, Restart(g) \/ BulkEnter(g)
      PROVE  UNCHANGED config
  BY <1>2 DEF Restart, RestartStop, RestartMarshal, RestartLaunch, RestartFails, BulkEnter,
              Arrive
<1>3. HealthError \/ ProcessDies \/ UNCHANGED vars => UNCHANGED config
  BY DEF HealthError, ProcessDies, vars
<1> QED BY <1>1, <1>2, <1>3 DEF Next, SyncUser, SyncUsers, CheckXrayHealth

LEMMA IssuedGrows == TypeOK /\ [Next]_vars => issued \in Nat /\ issued' \in Nat /\ issued <= issued'
<1> SUFFICES ASSUME TypeOK, [Next]_vars
             PROVE  issued \in Nat /\ issued' \in Nat /\ issued <= issued'
  OBVIOUS
<1>1. issued \in Nat
  BY DEF TypeOK, Requests
<1>2. issued' = issued \/ issued' = issued + 1
  <2>1. ASSUME NEW g, SyncUser(g)
        PROVE  issued' = issued \/ issued' = issued + 1
    BY <2>1 DEF SyncUser, UserEnter, Arrive, UserRemove, UpdateUser, RemoveUser, UserAdd
  <2>2. ASSUME NEW g, SyncUsers(g)
        PROVE  issued' = issued \/ issued' = issued + 1
    BY <2>2 DEF SyncUsers, BulkEnter, Arrive, BulkReplace, Restart, RestartStop,
                RestartMarshal, RestartLaunch, RestartFails
  <2>3. CheckXrayHealth \/ ProcessDies \/ UNCHANGED vars => issued' = issued
    BY DEF CheckXrayHealth, HealthError, Restart, RestartStop, RestartMarshal, RestartLaunch,
           RestartFails, ProcessDies, vars
  <2> QED BY <2>1, <2>2, <2>3 DEF Next
<1> QED BY <1>1, <1>2

LEMMA NoneFromFutureStep ==
  TypeOK /\ UniqueClients /\ Numbered /\ NoneFromFuture /\ [Next]_vars => NoneFromFuture'
<1> SUFFICES ASSUME TypeOK, UniqueClients, Numbered, NoneFromFuture, [Next]_vars,
                    NEW i \in Inbounds, NEW c \in Range(config'[i])
             PROVE  c.account <= issued'
  BY DEF NoneFromFuture
<1>1. issued \in Nat /\ issued' \in Nat /\ issued <= issued'
  BY IssuedGrows
<1>2. c \in Clients
  <2>1. config' \in [Inbounds -> Seq(Clients)]
    BY TypeStep DEF TypeOK
  <2>2. config'[i] \in Seq(Clients)
    BY <2>1
  <2> QED BY <2>2 DEF Range
<1>3. c.account \in Nat
  BY <1>2 DEF Clients, Requests
<1>4. ASSUME c \in Range(config[i])
      PROVE  c.account <= issued'
  BY <1>1, <1>3, <1>4 DEF NoneFromFuture
<1>5. ASSUME NEW g \in Goroutines, c.account = request[g]
      PROVE  c.account <= issued'
  BY <1>1, <1>3, <1>5 DEF Numbered
<1>6. ASSUME NEW g \in Syncers, UpdateUser(g)
      PROVE  c.account <= issued'
  <2>1. CASE c = NewClient(g)
    BY <1>5, <2>1 DEF NewClient, Goroutines
  <2> QED BY <1>4, <1>6, <2>1, UpdateEdit
<1>7. ASSUME NEW g \in Syncers, RemoveUser(g)
      PROVE  c.account <= issued'
  BY <1>4, <1>7, RemoveEdit
<1>8. ASSUME NEW g \in Bulks, BulkReplace(g)
      PROVE  c.account <= issued'
  BY <1>4, <1>5, <1>8, ReplaceEdit DEF Goroutines, Restarters
<1> QED BY <1>4, <1>6, <1>7, <1>8, EditsOnly

-----------------------------------------------------------------------------
(* Every client of the config is in the core, or in the copy of a launch   *)
(* under way, or somebody is accountable for it: the SyncUser that is      *)
(* between its call and its edit, the SyncUser that is about to add it,    *)
(* the SyncUsers that still has its restart before it, or a SyncUser that  *)
(* is bound to return an error, if it has not yet done so.                 *)
InCore(c, i) ==
  IF running THEN c \in live[i]
             ELSE \A g \in Restarters : pc[g] = "launch" => c \in snap[g][i]

BeingUpdated(c, i) ==
  \E h \in Syncers : email[h] = c.email /\ pc[h] = "update" /\ at[h] = i
BeingAdded(c, i) ==
  \E h \in Syncers : pc[h] = "add" /\ at[h] = i /\ c = NewClient(h)
BeingRestarted(c) ==
  \E h \in Bulks : pc[h] \in {"replace", "restart"} /\ request[h] = c.account
Unacknowledged(c) ==
  /\ c.account \notin acked
  /\ \A h \in Goroutines : request[h] = c.account => h \in Syncers /\ ~ok[h]

Accounted(c, i) ==
  InCore(c, i) \/ BeingUpdated(c, i) \/ BeingAdded(c, i) \/ BeingRestarted(c) \/ Unacknowledged(c)

AllAccounted == \A i \in Inbounds : \A c \in Range(config[i]) : Accounted(c, i)

IInv ==
  /\ TypeOK /\ UniqueClients /\ Where /\ Locked /\ Numbered /\ NoneFromFuture
  /\ AllAccounted

LEMMA AccountsOfClients ==
  ASSUME TypeOK, NEW i \in Inbounds, NEW c \in Range(config[i])
  PROVE  c \in Clients /\ c.account \in Nat
<1>1. config[i] \in Seq(Clients)
  BY DEF TypeOK
<1>2. c \in Clients
  BY <1>1 DEF Range
<1> QED BY <1>2 DEF Clients, Requests

LEMMA SameCore ==
  ASSUME NEW c, NEW i, InCore(c, i), UNCHANGED <<running, live, snap>>,
         \A h \in Restarters : pc'[h] = "launch" => pc[h] = "launch"
  PROVE  InCore(c, i)'
BY DEF InCore

(* A new request is accountable for nothing yet, and takes nothing over.   *)
LEMMA AccountedArrive ==
  ASSUME IInv, NEW g \in Syncers \cup Bulks, NEW us, NEW first \in {"remove", "replace"},
         Arrive(g, first, us), \A h \in Syncers \ {g} : email'[h] = email[h],
         NEW i \in Inbounds, NEW c \in Range(config[i])
  PROVE  Accounted(c, i)'
<1> USE DEF IInv
<1>0. g \in Goroutines /\ Syncers \cup Restarters = Goroutines /\ Bulks \subseteq Restarters
  BY DEF Goroutines, Restarters
<1>1. /\ pc[g] = "idle" /\ pc' = [pc EXCEPT ![g] = first]
      /\ request' = [request EXCEPT ![g] = issued + 1]
      /\ at' = [at EXCEPT ![g] = 1] /\ ok' = [ok EXCEPT ![g] = TRUE]
      /\ UNCHANGED <<config, running, live, mu, snap, acked>>
  BY DEF Arrive, Goto
<1>2. \A h \in Goroutines \ {g} : /\ pc'[h] = pc[h] /\ request'[h] = request[h]
                                   /\ at'[h] = at[h] /\ ok'[h] = ok[h]
  BY <1>1 DEF TypeOK
<1>3. pc'[g] = first /\ request'[g] = issued + 1
  BY <1>0, <1>1 DEF TypeOK
<1>4. CASE InCore(c, i)
  BY <1>0, <1>1, <1>2, <1>3, <1>4, SameCore DEF Accounted
<1>5. CASE BeingUpdated(c, i)
  BY <1>0, <1>1, <1>2, <1>5 DEF BeingUpdated, Accounted
<1>6. CASE BeingAdded(c, i)
  <2>1. PICK h \in Syncers : pc[h] = "add" /\ at[h] = i /\ c = NewClient(h)
    BY <1>6 DEF BeingAdded
  <2>2. h \in Goroutines \ {g}
    BY <1>0, <1>1, <2>1
  <2>3. NewClient(h)' = NewClient(h)
    BY <1>2, <2>2, <2>1 DEF NewClient
  <2> QED BY <1>2, <2>1, <2>2, <2>3 DEF BeingAdded, Accounted
<1>7. CASE BeingRestarted(c)
  BY <1>0, <1>1, <1>2, <1>7 DEF BeingRestarted, Accounted
<1>8. CASE Unacknowledged(c)
  <2>1. c.account <= issued /\ c.account \in Nat /\ issued \in Nat
    BY AccountsOfClients DEF NoneFromFuture, TypeOK, Requests
  <2>2. request'[g] # c.account
    BY <1>3, <2>1
  <2> QED BY <1>1, <1>2, <1>8, <2>2 DEF Unacknowledged, Accounted
<1> QED BY <1>4, <1>5, <1>6, <1>7, <1>8 DEF AllAccounted, Accounted

(* A SyncUser that goes on to the next inbound, or returns, keeps what it  *)
(* was accountable for only if that has come to nothing.                   *)
LEMMA AccountedNextInbound ==
  ASSUME IInv, NEW g \in Syncers, NEW from \in {"update", "add"}, NEW good \in BOOLEAN,
         good => ok[g], NextInbound(g, from, "remove", good),
         UNCHANGED <<running, mu, snap, email, issued>>,
         NEW i \in Inbounds, NEW c \in Clients, Accounted(c, i),
         InCore(c, i) /\ running => c \in live'[i],
         ~running => UNCHANGED live,
         pc[g] = "update" /\ at[g] = i => c.email # email[g],
         pc[g] = "add" /\ at[g] = i /\ c = NewClient(g) =>
           (IF running THEN c \in live'[i] \/ ~good ELSE ~good)
  PROVE  Accounted(c, i)'
<1> USE DEF IInv
<1>0. /\ g \in Goroutines /\ Syncers \cup Restarters = Goroutines /\ Bulks \subseteq Restarters
      /\ g \notin Restarters
  BY UserSyncAssumption DEF Goroutines, Restarters
<1>a. \/ /\ Goto(g, from, "remove") /\ at' = [at EXCEPT ![g] = at[g] + 1]
         /\ ok' = [ok EXCEPT ![g] = good] /\ UNCHANGED <<acked, request, users>>
      \/ Goto(g, from, "idle") /\ Return(g, good)
  BY DEF NextInbound
<1>1. /\ pc[g] = from /\ (pc' = [pc EXCEPT ![g] = "remove"] \/ pc' = [pc EXCEPT ![g] = "idle"])
      /\ acked' = acked \/ (good /\ acked' = acked \cup {request[g]})
  BY <1>a DEF Goto, Return
<1>2. /\ \/ request' = request /\ ok' = [ok EXCEPT ![g] = good]
         \/ request' = [request EXCEPT ![g] = 0] /\ ok' = [ok EXCEPT ![g] = TRUE]
      /\ \A h \in Goroutines \ {g} : at'[h] = at[h]
  <2>1. \E n : at' = [at EXCEPT ![g] = n]
    BY <1>a DEF Return
  <2>2. \A h \in Goroutines \ {g} : at'[h] = at[h]
    BY <2>1 DEF TypeOK
  <2> QED BY <1>a, <2>2 DEF Return
<1>3. \A h \in Goroutines \ {g} : pc'[h] = pc[h] /\ request'[h] = request[h] /\ ok'[h] = ok[h]
  BY <1>1, <1>2 DEF TypeOK
<1>4. (request'[g] = request[g] /\ ok'[g] = good) \/ request'[g] = 0
  BY <1>0, <1>2 DEF TypeOK
<1>5. 0 \in acked /\ request[g] # 0 /\ request[g] \notin acked
  BY <1>0, <1>1 DEF Numbered
<1>6. CASE InCore(c, i)
  BY <1>0, <1>3, <1>6 DEF InCore, Accounted
<1>7. CASE BeingUpdated(c, i)
  BY <1>0, <1>3, <1>2, <1>7 DEF BeingUpdated, Accounted
<1>8. ASSUME ~good, c.account = request[g]
      PROVE  Unacknowledged(c)'
  BY <1>0, <1>1, <1>3, <1>4, <1>5, <1>8 DEF Unacknowledged, Numbered
<1>9. CASE BeingAdded(c, i)
  <2>1. PICK h \in Syncers : pc[h] = "add" /\ at[h] = i /\ c = NewClient(h)
    BY <1>9 DEF BeingAdded
  <2>2. CASE h = g
    <3>1. c.account = request[g]
      BY <2>1, <2>2 DEF NewClient
    <3>2. (running /\ c \in live'[i]) \/ ~good
      BY <2>1, <2>2
    <3> QED BY <1>8, <3>1, <3>2 DEF InCore, Accounted
  <2>3. CASE h # g
    <3>1. h \in Goroutines \ {g}
      BY <1>0, <2>3
    <3>2. NewClient(h)' = NewClient(h)
      BY <1>3, <3>1 DEF NewClient
    <3> QED BY <1>2, <1>3, <2>1, <3>1, <3>2 DEF BeingAdded, Accounted
  <2> QED BY <2>2, <2>3
<1>10. CASE BeingRestarted(c)
  BY <1>0, <1>3, <1>10 DEF BeingRestarted, Accounted
<1>11. CASE Unacknowledged(c)
  <2>1. c.account = request[g] => ~good
    BY <1>0, <1>11 DEF Unacknowledged
  <2>2. CASE c.account = request[g]
    BY <1>8, <2>1, <2>2 DEF Accounted
  <2>3. CASE c.account # request[g]
    <3>1. c.account \notin acked' /\ c.account # 0
      BY <1>1, <1>5, <1>11, <2>3 DEF Unacknowledged
    <3> QED BY <1>3, <1>4, <1>11, <2>3, <3>1 DEF Unacknowledged, Accounted
  <2> QED BY <2>2, <2>3
<1> QED BY <1>6, <1>7, <1>9, <1>10, <1>11 DEF Accounted

(* A step inside a request that moves none of the numbers: what is in the  *)
(* core stays, and the request keeps what it is accountable for.           *)
LEMMA AccountedMove ==
  ASSUME IInv, NEW g \in Goroutines, NEW i \in Inbounds, NEW c, Accounted(c, i),
         \A h \in Goroutines \ {g} : pc'[h] = pc[h] /\ at'[h] = at[h],
         UNCHANGED <<request, email, ok, acked>>,
         InCore(c, i) => Accounted(c, i)',
         g \in Syncers /\ pc[g] = "update" /\ at[g] = i /\ email[g] = c.email => Accounted(c, i)',
         g \in Syncers /\ pc[g] = "add" /\ at[g] = i /\ c = NewClient(g) => Accounted(c, i)',
         g \in Bulks /\ pc[g] \in {"replace", "restart"} /\ request[g] = c.account =>
           Accounted(c, i)'
  PROVE  Accounted(c, i)'
<1>0. Syncers \subseteq Goroutines /\ Bulks \subseteq Goroutines
  BY DEF Goroutines, Restarters
<1>1. CASE BeingUpdated(c, i)
  BY <1>0, <1>1 DEF BeingUpdated, Accounted
<1>2. CASE BeingAdded(c, i)
  <2>1. \A h \in Syncers : NewClient(h)' = NewClient(h)
    BY DEF NewClient
  <2> QED BY <1>0, <1>2, <2>1 DEF BeingAdded, Accounted
<1>3. CASE BeingRestarted(c)
  BY <1>0, <1>3 DEF BeingRestarted, Accounted
<1>4. CASE Unacknowledged(c)
  BY <1>4 DEF Unacknowledged, Accounted
<1> QED BY <1>1, <1>2, <1>3, <1>4 DEF Accounted

LEMMA AccountedSyncUser ==
  ASSUME IInv, NEW g \in Syncers, SyncUser(g)
  PROVE  AllAccounted'
<1> USE DEF IInv
<1>0. g \in Goroutines /\ g \notin Restarters /\ g \notin Bulks /\ at[g] \in Inbounds
  BY UserSyncAssumption DEF Goroutines, Restarters, TypeOK
<1> SUFFICES ASSUME NEW i \in Inbounds, NEW c \in Range(config'[i])
             PROVE  Accounted(c, i)'
  BY DEF AllAccounted
<1>1. CASE UserEnter(g)
  <2>1. /\ config' = config
        /\ \E us : Arrive(g, "remove", us)
        /\ \A h \in Syncers \ {g} : email'[h] = email[h]
    BY <1>1 DEF UserEnter, Arrive, TypeOK
  <2> QED BY <2>1, AccountedArrive
<1>2. CASE UserRemove(g)
  <2>1. /\ Goto(g, "remove", "update")
        /\ UNCHANGED <<config, running, mu, snap, at, request, email, users, ok, issued, acked>>
        /\ (running /\ live' = [live EXCEPT ![at[g]] = Others(@, email[g])]) \/ UNCHANGED live
    BY <1>2 DEF UserRemove
  <2>2. Accounted(c, i)
    BY <2>1 DEF AllAccounted
  <2>3. pc[g] = "remove" /\ pc'[g] = "update" /\ \A h \in Goroutines \ {g} : pc'[h] = pc[h]
    BY <1>0, <2>1 DEF Goto, TypeOK
  <2>4. CASE at[g] = i /\ email[g] = c.email
    BY <2>1, <2>3, <2>4 DEF BeingUpdated, Accounted
  <2>5. CASE ~(at[g] = i /\ email[g] = c.email)
    <3>1. c \in live[i] => c \in live'[i]
      BY <1>0, <2>1, <2>5 DEF Others, TypeOK
    <3>2. ~running => live' = live
      BY <2>1
    <3>3. \A h \in Restarters : pc'[h] = pc[h]
      BY <1>0, <2>3 DEF Goroutines
    <3>4. InCore(c, i) => Accounted(c, i)'
      BY <2>1, <3>1, <3>2, <3>3 DEF InCore, Accounted
    <3> QED BY <1>0, <2>1, <2>2, <2>3, <3>4, AccountedMove
  <2> QED BY <2>4, <2>5
<1>3. CASE UpdateUser(g)
  <2>1. /\ Goto(g, "update", "add")
        /\ UNCHANGED <<running, live, mu, snap, at, request, email, users, ok, issued, acked>>
    BY <1>3 DEF UpdateUser
  <2>2. pc[g] = "update" /\ pc'[g] = "add" /\ \A h \in Goroutines \ {g} : pc'[h] = pc[h]
    BY <1>0, <2>1 DEF Goto, TypeOK
  <2>3. \/ c \in Range(config[i]) /\ (i = at[g] => c.email # email[g])
        \/ i = at[g] /\ c = NewClient(g)
    BY <1>3, UpdateEdit
  <2>4. CASE i = at[g] /\ c = NewClient(g)
    <3>1. NewClient(g)' = NewClient(g)
      BY <2>1 DEF NewClient
    <3> QED BY <2>1, <2>2, <2>4, <3>1 DEF BeingAdded, Accounted
  <2>5. CASE c \in Range(config[i]) /\ (i = at[g] => c.email # email[g])
    <3>1. Accounted(c, i)
      BY <2>5 DEF AllAccounted
    <3>2. \A h \in Restarters : pc'[h] = pc[h]
      BY <1>0, <2>2 DEF Goroutines
    <3>3. InCore(c, i) => Accounted(c, i)'
      BY <2>1, <3>2 DEF InCore, Accounted
    <3> QED BY <1>0, <2>1, <2>2, <2>5, <3>1, <3>3, AccountedMove
  <2> QED BY <2>3, <2>4, <2>5
<1>4. CASE RemoveUser(g)
  <2>1. c \in Range(config[i]) /\ (i = at[g] => c.email # email[g])
    BY <1>4, RemoveEdit
  <2>2. Accounted(c, i) /\ c \in Clients
    BY <2>1, AccountsOfClients DEF AllAccounted
  <2>3. /\ NextInbound(g, "update", "remove", ok[g]) /\ ok[g] \in BOOLEAN
        /\ UNCHANGED <<running, live, mu, snap, email, issued>>
    BY <1>0, <1>4 DEF RemoveUser, TypeOK
  <2>4. pc[g] = "update"
    BY <2>3 DEF NextInbound, Goto
  <2> QED BY <2>1, <2>2, <2>3, <2>4, AccountedNextInbound DEF InCore
<1>5. CASE UserAdd(g)
  <2>1. CASE /\ NextInbound(g, "add", "remove", FALSE)
             /\ UNCHANGED <<config, running, live, mu, snap, email, issued>>
    <3>1. Accounted(c, i) /\ c \in Clients
      BY <2>1, AccountsOfClients DEF AllAccounted
    <3>2. pc[g] = "add"
      BY <2>1 DEF NextInbound, Goto
    <3> QED BY <2>1, <3>1, <3>2, AccountedNextInbound DEF InCore
  <2>2. CASE /\ running /\ live' = [live EXCEPT ![at[g]] = @ \cup {NewClient(g)}]
             /\ \E good \in {ok[g], FALSE} : NextInbound(g, "add", "remove", good)
             /\ UNCHANGED <<config, running, mu, snap, email, issued>>
    <3>1. Accounted(c, i) /\ c \in Clients
      BY <2>2, AccountsOfClients DEF AllAccounted
    <3>2. PICK good \in {ok[g], FALSE} : NextInbound(g, "add", "remove", good)
      BY <2>2
    <3>3. good \in BOOLEAN /\ (good => ok[g])
      BY <1>0 DEF TypeOK
    <3>4. pc[g] = "add"
      BY <3>2 DEF NextInbound, Goto
    <3>5. /\ c \in live[i] => c \in live'[i]
          /\ at[g] = i /\ c = NewClient(g) => c \in live'[i]
      BY <1>0, <2>2 DEF TypeOK
    <3>6. InCore(c, i) /\ running => c \in live'[i]
      BY <3>5 DEF InCore
    <3> QED BY <2>2, <3>1, <3>2, <3>3, <3>4, <3>5, <3>6, AccountedNextInbound
  <2> QED BY <1>5, <2>1, <2>2, Zenon DEF UserAdd
<1> QED BY <1>1, <1>2, <1>3, <1>4, <1>5 DEF SyncUser

LEMMA AccountedBulk ==
  ASSUME IInv, NEW g \in Bulks, BulkEnter(g) \/ BulkReplace(g)
  PROVE  AllAccounted'
<1> USE DEF IInv
<1>0. g \in Goroutines /\ g \in Restarters
  BY DEF Goroutines, Restarters
<1> SUFFICES ASSUME NEW i \in Inbounds, NEW c \in Range(config'[i])
             PROVE  Accounted(c, i)'
  BY DEF AllAccounted
<1>1. CASE BulkEnter(g)
  <2>1. config' = config /\ email' = email /\ \E us : Arrive(g, "replace", us)
    BY <1>1 DEF BulkEnter, Arrive
  <2> QED BY <2>1, AccountedArrive
<1>2. CASE BulkReplace(g)
  <2>1. /\ pc[g] = "replace"
        /\ UNCHANGED <<running, live, mu, snap, request, email, users, ok, issued, acked>>
    BY <1>2 DEF BulkReplace
  <2>2. /\ pc'[g] \in {"replace", "restart"}
        /\ \A h \in Goroutines \ {g} : pc'[h] = pc[h] /\ at'[h] = at[h]
    BY <1>0, <1>2 DEF BulkReplace, Goto, TypeOK
  <2>3. CASE c.account = request[g]
    BY <2>1, <2>2, <2>3 DEF BeingRestarted, Accounted
  <2>4. CASE c \in Range(config[i]) /\ c.account # request[g]
    <3>1. Accounted(c, i)
      BY <2>4 DEF AllAccounted
    <3>2. g \notin Syncers
      BY <1>0, UserSyncAssumption
    <3>3. \A h \in Restarters : pc'[h] = "launch" => pc[h] = "launch"
      BY <2>1, <2>2 DEF Goroutines
    <3>4. InCore(c, i) => Accounted(c, i)'
      BY <2>1, <3>3, SameCore DEF Accounted
    <3> QED BY <1>0, <2>1, <2>2, <2>4, <3>1, <3>2, <3>4, AccountedMove
  <2> QED BY <1>2, <2>3, <2>4, ReplaceEdit
<1> QED BY <1>1, <1>2

(* The end of a restart: the request of g is no longer in flight.          *)
LEMMA AccountedEnd ==
  ASSUME IInv, NEW g \in Restarters, Goto(g, "launch", "idle"),
          Return(g, g \in Bulks) \/ Return(g, FALSE),
         UNCHANGED <<config, email, issued>>,
         NEW i \in Inbounds, NEW c \in Range(config[i]),
         InCore(c, i) => InCore(c, i)'
  PROVE  Accounted(c, i)'
<1> USE DEF IInv
<1>0. g \in Goroutines /\ g \notin Syncers /\ Syncers \cup Bulks \subseteq Goroutines
  BY UserSyncAssumption DEF Goroutines, Restarters
<1>1. Accounted(c, i)
  BY DEF AllAccounted
<1>2. /\ \A h \in Goroutines \ {g} : /\ pc'[h] = pc[h] /\ at'[h] = at[h] /\ ok'[h] = ok[h]
                                    /\ request'[h] = request[h]
      /\ request'[g] = 0 /\ pc[g] = "launch"
      /\ acked' \subseteq acked \cup {request[g]} /\ acked \subseteq acked'
  BY <1>0 DEF Goto, Return, TypeOK
<1>3. CASE BeingUpdated(c, i)
  BY <1>0, <1>2, <1>3 DEF BeingUpdated, Accounted
<1>4. CASE BeingAdded(c, i)
  <2>1. PICK h \in Syncers : pc[h] = "add" /\ at[h] = i /\ c = NewClient(h)
    BY <1>4 DEF BeingAdded
  <2>2. h \in Goroutines \ {g}
    BY <1>0
  <2>3. NewClient(h)' = NewClient(h)
    BY <1>2, <2>2 DEF NewClient
  <2> QED BY <1>2, <2>1, <2>2, <2>3 DEF BeingAdded, Accounted
<1>5. CASE BeingRestarted(c)
  BY <1>0, <1>2, <1>5 DEF BeingRestarted, Accounted
<1>6. CASE Unacknowledged(c)
  <2>1. c.account # request[g] /\ c.account # 0
    BY <1>0, <1>6 DEF Unacknowledged, Numbered
  <2> QED BY <1>2, <1>6, <2>1 DEF Unacknowledged, Accounted
<1> QED BY <1>1, <1>3, <1>4, <1>5, <1>6 DEF Accounted

LEMMA AccountedRestart ==
  ASSUME IInv, NEW g \in Restarters, Restart(g)
  PROVE  AllAccounted'
<1> USE DEF IInv
<1>0. g \in Goroutines /\ g \notin Syncers /\ Restarters \subseteq Goroutines
  BY UserSyncAssumption DEF Goroutines, Restarters
<1>a. config' = config
  BY DEF Restart, RestartStop, RestartMarshal, RestartLaunch, RestartFails
<1> SUFFICES ASSUME NEW i \in Inbounds, NEW c \in Range(config[i])
             PROVE  Accounted(c, i)'
  BY <1>a DEF AllAccounted
<1>b. Accounted(c, i)
  BY DEF AllAccounted
<1>c. \A h \in Restarters : pc[h] \in {"marshal", "launch"} => mu = h /\ ~running
  BY DEF Locked
<1>1. CASE RestartStop(g)
  <2>1. /\ mu = Free /\ ~running'
        /\ Goto(g, "restart", "marshal")
        /\ UNCHANGED <<config, snap, at, request, email, users, ok, issued, acked>>
    BY <1>1 DEF RestartStop
  <2>2. \A h \in Restarters : pc'[h] # "launch"
    BY <1>0, <1>c, <2>1, UserSyncAssumption DEF Goto, TypeOK
  <2> QED BY <2>1, <2>2 DEF InCore, Accounted
<1>2. CASE RestartMarshal(g)
  <2>1. /\ Goto(g, "marshal", "launch")
        /\ snap' = [snap EXCEPT ![g] = [j \in Inbounds |-> Range(config[j])]]
        /\ UNCHANGED <<config, running, live, mu, at, request, email, users, ok, issued, acked>>
    BY <1>2 DEF RestartMarshal
  <2>2. \A h \in Restarters \ {g} : pc'[h] # "launch"
    BY <1>0, <1>c, <2>1 DEF Goto, TypeOK
  <2>3. ~running' /\ c \in snap'[g][i]
    BY <1>c, <2>1 DEF Goto, TypeOK
  <2> QED BY <2>2, <2>3 DEF InCore, Accounted
<1>3. CASE RestartLaunch(g)
  <2>1. /\ Goto(g, "launch", "idle") /\ Return(g, g \in Bulks)
        /\ running' /\ live' = snap[g] /\ UNCHANGED <<config, email, issued>>
    BY <1>3 DEF RestartLaunch
  <2>2. ~running /\ pc[g] = "launch"
    BY <1>c, <2>1 DEF Goto
  <2>3. InCore(c, i) => InCore(c, i)'
    BY <2>1, <2>2 DEF InCore
  <2> QED BY <2>1, <2>3, AccountedEnd
<1>4. CASE RestartFails(g)
  <2>1. /\ Goto(g, "launch", "idle") /\ Return(g, FALSE)
        /\ snap' = [snap EXCEPT ![g] = NoUsers]
        /\ UNCHANGED <<config, running, live, email, issued>>
    BY <1>4 DEF RestartFails
  <2>2. ~running
    BY <1>c, <2>1 DEF Goto
  <2>3. \A h \in Restarters : pc'[h] # "launch"
    BY <1>0, <1>c, <2>1 DEF Goto, TypeOK
  <2>4. InCore(c, i) => InCore(c, i)'
    BY <2>1, <2>2, <2>3 DEF InCore
  <2> QED BY <2>1, <2>4, AccountedEnd
<1> QED BY <1>1, <1>2, <1>3, <1>4 DEF Restart

LEMMA AccountedElse ==
  ASSUME IInv, HealthError \/ ProcessDies \/ UNCHANGED vars
  PROVE  AllAccounted'
<1> USE DEF IInv
<1>0. Health \in Goroutines /\ Health \notin Syncers /\ Health \notin Bulks
  BY UserSyncAssumption DEF Goroutines, Restarters
<1>a. config' = config
  BY DEF HealthError, ProcessDies, vars
<1> SUFFICES ASSUME NEW i \in Inbounds, NEW c \in Range(config[i])
             PROVE  Accounted(c, i)'
  BY <1>a DEF AllAccounted
<1>b. Accounted(c, i)
  BY DEF AllAccounted
<1>1. CASE HealthError
  <2>1. /\ pc' = [pc EXCEPT ![Health] = "restart"]
        /\ UNCHANGED <<config, running, live, mu, snap, at, request, email, users, ok,
                       issued, acked>>
    BY <1>1 DEF HealthError, Goto
  <2>2. \A h \in Restarters : pc'[h] = "launch" => pc[h] = "launch"
    BY <2>1 DEF TypeOK, Goroutines
  <2>3. InCore(c, i) => Accounted(c, i)'
    BY <2>1, <2>2, SameCore DEF Accounted
  <2>4. \A h \in Goroutines \ {Health} : pc'[h] = pc[h] /\ at'[h] = at[h]
    BY <2>1 DEF TypeOK
  <2> QED BY <1>0, <1>b, <2>1, <2>3, <2>4, AccountedMove
<1>2. CASE ProcessDies
  <2>1. /\ running /\ ~running'
        /\ UNCHANGED <<config, mu, snap, pc, at, request, email, users, ok, issued, acked>>
    BY <1>2 DEF ProcessDies
  <2>2. \A h \in Restarters : pc'[h] # "launch"
    BY <2>1 DEF Locked
  <2> QED BY <2>1, <2>2 DEF InCore, Accounted
<1>3. CASE UNCHANGED vars
  <2>1. \A h \in Syncers : NewClient(h)' = NewClient(h)
    BY <1>3 DEF vars, NewClient
  <2> QED BY <1>3, <1>b, <2>1 DEF vars, Accounted, InCore, BeingUpdated, BeingAdded, BeingRestarted,
                               Unacknowledged
<1> QED BY <1>1, <1>2, <1>3

-----------------------------------------------------------------------------
(* The inductive invariant, and what follows from it.                      *)
LEMMA IInvInit == Init => IInv
<1> SUFFICES ASSUME Init
             PROVE  IInv
  OBVIOUS
<1>1. TypeOK /\ UniqueClients
  BY TypeInit, UniqueInit
<1>2. Where /\ Locked
  BY DEF Init, Where, Locked, Goroutines, Restarters
<1>3. Numbered
  BY UserSyncAssumption DEF Init, Numbered, Goroutines, Restarters
<1>4. NoneFromFuture
  <2>1. PICK us \in [Inbounds -> SUBSET Emails] :
          config = [i \in Inbounds |-> ClientList(us[i], 0)]
    BY DEF Init
  <2>2. 0 \in Requests
    BY UserSyncAssumption DEF Requests
  <2>3. ASSUME NEW i \in Inbounds, NEW c \in Range(config[i])
        PROVE  c.account = 0
    <3>1. config[i] = ClientList(us[i], 0)
      BY <2>1
    <3>2. \A k \in DOMAIN config[i] : config[i][k].account = 0
      BY <2>2, <3>1, ClientListUnique
    <3> QED BY <3>2 DEF Range
  <2> QED BY <2>3 DEF Init, NoneFromFuture
<1>5. AllAccounted
  BY DEF Init, AllAccounted, Accounted, InCore
<1> QED BY <1>1, <1>2, <1>3, <1>4, <1>5 DEF IInv

LEMMA IInvStep == IInv /\ [Next]_vars => IInv'
<1> SUFFICES ASSUME IInv, [Next]_vars
             PROVE  IInv'
  OBVIOUS
<1>1. (TypeOK /\ UniqueClients /\ Where /\ Locked /\ Numbered /\ NoneFromFuture)'
  BY TypeStep, UniqueStep, WhereStep, LockedStep, NumberedStep, NoneFromFutureStep DEF IInv
<1>2. AllAccounted'
  BY AccountedSyncUser, AccountedBulk, AccountedRestart, AccountedElse
     DEF Next, SyncUsers, CheckXrayHealth, Restarters
<1> QED BY <1>1, <1>2 DEF IInv

LEMMA IInvServes == IInv => AckedServed
<1> SUFFICES ASSUME IInv, running, NEW i \in Inbounds, NEW c \in Range(config[i]),
                    c.account \in acked, ~InFlight(c.email)
             PROVE  c \in live[i]
  BY DEF AckedServed
<1>1. Accounted(c, i)
  BY DEF IInv, AllAccounted
<1>2. ~BeingUpdated(c, i)
  BY DEF InFlight, BeingUpdated
<1>3. ~BeingAdded(c, i)
  <2>1. \A h \in Syncers : c = NewClient(h) => c.email = email[h]
    BY DEF NewClient
  <2> QED BY <2>1 DEF InFlight, BeingAdded
<1>4. ~BeingRestarted(c)
  BY DEF IInv, Numbered, BeingRestarted, Goroutines, Restarters
<1> QED BY <1>1, <1>2, <1>3, <1>4 DEF Accounted, Unacknowledged, InCore

(* user.go, config.go: every variable keeps its type, for any number of    *)
(* inbounds, users, requests and goroutines.                               *)
THEOREM UserSyncTypeCorrect == Spec => []TypeOK
<1>1. IInv => TypeOK
  BY DEF IInv
<1> QED BY <1>1, IInvInit, IInvStep, PTL DEF Spec

(* config.go:146-232: no interleaving of requests, restarts and deaths     *)
(* leaves an inbound of the config with two clients of one email.          *)
THEOREM NoDuplicateClients == Spec => []UniqueClients
<1>1. IInv => UniqueClients
  BY DEF IInv
<1> QED BY <1>1, IInvInit, IInvStep, PTL DEF Spec

(* user.go:128-188: a client whose request returned nil and which nobody   *)
(* has replaced or is replacing is in the running core.                    *)
THEOREM AckedClientsServed == Spec => []AckedServed
BY IInvInit, IInvStep, IInvServes, PTL DEF Spec
=============================================================================
