----------------------------- MODULE Provisioning -----------------------------
(***************************************************************************)
(* What one backend makes of the data it is given, from the panel's config *)
(* to the traffic it reports: NewXray completes the config (XrayConfig),   *)
(* fills the client lists (Accounts) and launches the core; SyncUser and   *)
(* SyncUsers change the users; the core counts their traffic and the panel *)
(* collects it (Stats).  Requests are atomic here and calls of the core    *)
(* succeed: UserSync has the interleavings and the failures, Xray the life *)
(* of the backend.                                                         *)
(***************************************************************************)
EXTENDS XrayConfig, Accounts, Stats, FiniteSetsExt

CONSTANTS Starts,       \* what the panel may send to Start: [config, exclude, users]
          UserLists,    \* lists of users it may send later
          Users,        \* users it may send alone
          MaxRequests,  \* bound: requests of one backend explored
          MaxTraffic    \* bound: traffic of one user or outbound explored

VARIABLES
  phase,      \* "stopped", "up", "failed" (an error) or "panicked"
  sent,       \* the config as it came, exclusions marked if that was possible
  config,     \* Xray.config
  live,       \* live[k]: the clients of inbound k in the running core
  wanted,     \* what the panel sent last of each user
  bad,        \* it has sent an id that is no UUID
  broken,     \* a request has panicked since all users were last replaced
  requests,   \* requests so far
  counters,   \* the counters of the core
  used,       \* the traffic there was, by the name of its counter
  told,       \* the traffic that the answers with reset told the panel
  gap         \* an answer with reset was lost, or the core was restarted

data == <<sent, config, live, wanted, bad, broken, requests>>
traffic == <<counters, used, told, gap>>
vars == <<phase, data, traffic>>

NoConfig == [inbounds |-> <<>>, router |-> {}, policy |-> {}, log |-> FALSE, outbounds |-> {}]

Inbounds == (UNION {Range(s.config.inbounds) : s \in Starts}) \ {NilInbound}
SentLists == UserLists \cup {s.users : s \in Starts}
SentUsers == Users \cup UNION {Range(us) : us \in SentLists}
SentClients == UNION {Range(i.clients) : i \in Inbounds}
Emails == {u.email : u \in SentUsers} \cup {a.email : a \in SentClients}
Tags == {ApiTag} \cup {i.tag : i \in Inbounds}
Outbounds == UNION {s.config.outbounds : s \in Starts}

(* The panel's users have different emails, and the inbounds of protocols  *)
(* that the node does not know have no clients.                            *)
ASSUME ProvisioningAssumption ==
  /\ MaxRequests \in Nat /\ MaxTraffic \in Nat
  /\ Users \subseteq UserSet
  /\ \A us \in SentLists : /\ us \in Seq(UserSet)
                          /\ \A j, k \in DOMAIN us : us[j].email = us[k].email => j = k
  /\ \A s \in Starts :
       /\ s.config \in [inbounds : Seq(InboundSet \cup {NilInbound}),
                        router : SUBSET Seq(STRING), policy : {s.config.policy},
                        log : BOOLEAN, outbounds : SUBSET STRING]
       /\ \A p \in s.config.policy :
            p.levels \in [DOMAIN p.levels -> LevelSet] /\ p.system \subseteq SystemSet
  /\ \A i \in Inbounds : i.protocol \notin KnownProtocols => i.clients = <<>>

Names == {CounterName("user", e) : e \in Emails} \cup {CounterName("inbound", t) : t \in Tags} \cup
         {CounterName("outbound", o) : o \in Outbounds}

(* The traffic the panel bills, by counter.  It leaves out the inbounds    *)
(* and the clients of another level in the panel's own config, which its   *)
(* policy decides on, and an owner whose name ends in the name of a class: *)
(* he is told with that class.                                             *)
Unmetered == {a.email : a \in {b \in SentClients : b.level # 0}}
Billed == {n \in {CounterName("user", e) : e \in Emails \ Unmetered} \cup
                 {CounterName("outbound", o) : o \in Outbounds} :
             \A class \in Classes : <<n[2], class>> \notin EndsIn}

SomeBad(us) == \E u \in us : BadId \in {p.id : p \in u.vmess} \cup {p.id : p \in u.vless}

NoCounters == [n \in {} |-> 0]

TypeOK ==
  /\ phase \in {"stopped", "up", "failed", "panicked"}
  /\ DOMAIN live = DOMAIN config.inbounds
  /\ \A k \in DOMAIN live : \A a \in live[k] : a.email \in Emails
  /\ {u.email : u \in wanted} \subseteq Emails /\ bad \in BOOLEAN /\ broken \in BOOLEAN
  /\ requests \in 0..MaxRequests
  /\ DOMAIN counters \subseteq Names /\ \A n \in DOMAIN counters : counters[n] \in Nat
  /\ used \in [Billed -> 0..MaxTraffic] /\ told \in [Billed -> Nat] /\ gap \in BOOLEAN

Init ==
  /\ phase = "stopped" /\ sent = NoConfig /\ config = NoConfig /\ live = <<>>
  /\ wanted = {} /\ bad = FALSE /\ broken = FALSE /\ requests = 0
  /\ counters = NoCounters /\ used = [n \in Billed |-> 0] /\ told = [n \in Billed |-> 0]
  /\ gap = FALSE

-----------------------------------------------------------------------------
(* Where a panic stops a loop over the inbounds: past the end if nowhere.  *)
FirstOf(set, inbounds) == Min(set \cup {Len(inbounds) + 1})

(* Config.syncUsers.                                                       *)
SyncUsersStopsAt(inbounds, us) ==
  FirstOf({k \in DOMAIN inbounds : ~inbounds[k].exclude /\ SyncUsersPanics(inbounds[k], us)},
          inbounds)
SyncAllUsers(inbounds, us) ==                                   \* mutant
  [k \in DOMAIN inbounds |-> IF k < SyncUsersStopsAt(inbounds, us)
                             THEN SyncUsersIn(inbounds[k], us) ELSE inbounds[k]]
ConfigSyncUsers(inbounds, us) ==
  [k \in DOMAIN inbounds |-> IF ~inbounds[k].exclude /\ k < SyncUsersStopsAt(inbounds, us)
                             THEN SyncUsersIn(inbounds[k], us) ELSE inbounds[k]]

(* The core takes the lists of the config it is launched with.             *)
Loaded(inbounds) == [k \in DOMAIN inbounds |-> Range(inbounds[k].clients) \ {NilAccount}]
NullClient(inbounds) == \E k \in DOMAIN inbounds : NilAccount \in Range(inbounds[k].clients)
TwiceTagged(inbounds) ==
  \E j, k \in DOMAIN inbounds : j # k /\ inbounds[j].tag = inbounds[k].tag

(* Core.Start refuses a config without a log section; the core itself may  *)
(* refuse a null client, and refuses two inbounds of one tag.              *)
MayStart(c) == c.log /\ ~TwiceTagged(c.inbounds)
MayFail(c) == ~MayStart(c) \/ NullClient(c.inbounds)

(* A launched core has the config's lists and no counters.                 *)
LaunchFailsUnclean(c) ==                                        \* mutant
  /\ config' = c
  /\ counters' = NoCounters
  /\ \/ MayStart(c) /\ phase' = "up" /\ live' = Loaded(c.inbounds)
     \/ MayFail(c) /\ phase' = "failed" /\ UNCHANGED live
Launch(c) ==
  /\ config' = c
  /\ counters' = NoCounters
  /\ \/ MayStart(c) /\ phase' = "up" /\ live' = Loaded(c.inbounds)
     \/ MayFail(c) /\ phase' = "failed" /\ live' = [k \in DOMAIN c.inbounds |-> {}]

-----------------------------------------------------------------------------
(* detectBackend, StartBackend and NewXray.                                *)
Start(c, exclude, us) ==
  LET parsed == NewXRayConfig(c, exclude)
      applied == ApplyAPI(parsed)
      synced == [applied EXCEPT !.inbounds = ConfigSyncUsers(@, us)]
  IN  /\ phase = "stopped"
      /\ sent' = IF NewXRayConfigPanics(c) THEN c ELSE parsed
      /\ wanted' = Range(us) /\ bad' = SomeBad(Range(us))
      /\ IF \/ NewXRayConfigPanics(c)
            \/ ApplyAPIPanics(parsed)
            \/ SyncUsersStopsAt(applied.inbounds, us) <= Len(applied.inbounds)
           THEN /\ phase' = "panicked"
                /\ UNCHANGED <<config, live, counters>>
           ELSE Launch(synced)
      /\ UNCHANGED <<broken, requests, used, told, gap>>

(* The backend is shut down and forgotten, and all that the panel counts.  *)
Stop ==
  /\ phase # "stopped"
  /\ phase' = "stopped" /\ sent' = NoConfig /\ config' = NoConfig /\ live' = <<>>
  /\ wanted' = {} /\ bad' = FALSE /\ broken' = FALSE /\ requests' = 0
  /\ counters' = NoCounters /\ used' = [n \in Billed |-> 0] /\ told' = [n \in Billed |-> 0]
  /\ gap' = FALSE

(* A panic in a request ends the node if the session is gRPC; the REST     *)
(* router recovers, and what was done so far stays.                        *)
Panicked == broken' = TRUE /\ phase' \in {"up", "panicked"}

Request(us) ==
  /\ phase = "up" /\ requests < MaxRequests
  /\ requests' = requests + 1
  /\ bad' = (bad \/ SomeBad(us))

(* SyncUser: in each inbound the user goes from the core, then the config  *)
(* is edited, then he is added to the core again.                          *)
SyncUser(u) ==
  LET Mine(k) == ~config.inbounds[k].exclude
      Active(k) == ActiveAccounts(config.inbounds[k], u)
      stop == FirstOf({k \in DOMAIN live :
                         Mine(k) /\ ScanPanics(config.inbounds[k], u.email)}, config.inbounds)
      Removed(k) == {a \in live[k] : a.email # u.email}
  IN  /\ Request({u})
      /\ wanted' = {v \in wanted : v.email # u.email} \cup {u}
      /\ config' = [config EXCEPT !.inbounds =
                      [k \in DOMAIN @ |-> IF Mine(k) /\ k < stop THEN SyncUserIn(@[k], u)
                                                                 ELSE @[k]]]
      /\ live' = [k \in DOMAIN live |->
                    IF ~Mine(k) \/ k > stop THEN live[k]
                    ELSE Removed(k) \cup IF k < stop THEN Active(k) ELSE {}]
      /\ IF stop > Len(config.inbounds) THEN UNCHANGED <<phase, broken>> ELSE Panicked
      /\ UNCHANGED <<sent, traffic>>

(* SyncUsers: all lists are replaced, then the core is restarted.          *)
SyncUsers(us) ==
  LET inbounds == ConfigSyncUsers(config.inbounds, us)
  IN  /\ Request(Range(us))
      /\ wanted' = Range(us)
      /\ IF SyncUsersStopsAt(config.inbounds, us) <= Len(inbounds)
           THEN /\ Panicked
                /\ config' = [config EXCEPT !.inbounds = inbounds]
                /\ UNCHANGED <<live, counters, gap>>
           ELSE /\ Launch([config EXCEPT !.inbounds = inbounds])
                /\ broken' = FALSE /\ gap' = TRUE
      /\ UNCHANGED <<sent, used, told>>

(* The core dies and the health check restarts it.                         *)
CheckXrayHealth ==
  /\ phase = "up"
  /\ Launch(config)
  /\ gap' = TRUE
  /\ UNCHANGED <<sent, wanted, bad, broken, requests, used, told>>

-----------------------------------------------------------------------------
(* The core counts what a client of an inbound sends out, as the policy    *)
(* for his level and for the system says.                                  *)
Counted(class, level) ==
  LET policy == CHOOSE p \in config.policy : TRUE
      system == CHOOSE s \in policy.system : TRUE
  IN  CASE class = "user" -> level \in DOMAIN policy.levels /\ policy.levels[level].traffic
        [] class = "inbound" -> system.inbound
        [] class = "outbound" -> system.outbound

Traffic(k, client, out) ==
  LET passed == {CounterName("user", client.email), CounterName("inbound", config.inbounds[k].tag),
                 CounterName("outbound", out)}
      counted == {n \in passed : Counted(n[1], client.level)}
      Count(n) == IF n \in DOMAIN counters THEN counters[n] ELSE 0
  IN  /\ phase = "up"
      /\ \A n \in passed \cap Billed : used[n] < MaxTraffic
      /\ used' = [n \in Billed |-> used[n] + IF n \in passed THEN 1 ELSE 0]
      /\ counters' = [n \in DOMAIN counters \cup counted |->
                        Count(n) + IF n \in counted THEN 1 ELSE 0]
      /\ UNCHANGED <<phase, data, told, gap>>

Volume(stats) == MapThenSumSet(LAMBDA s : s.value, stats)

(* Xray.GetStats for a class, or for one owner; the answer may be lost.    *)
Ask(class, owner, reset, arrives) ==
  LET stats == GetStats(counters, class, owner)
      Told(n) == {s \in stats : n = CounterName(class, s.name)}
  IN  /\ phase = "up" /\ ~Refused(owner)
      /\ counters' = IF reset THEN Reset(counters, Pattern(class, owner)) ELSE counters
      /\ told' = [n \in Billed |-> told[n] + IF reset /\ arrives
                                              THEN Volume(Told(n)) ELSE 0]
      /\ gap' = (gap \/ (reset /\ ~arrives))
      /\ UNCHANGED <<phase, data, used>>

Next ==
  \/ \E s \in Starts : Start(s.config, s.exclude, s.users)
  \/ Stop
  \/ \E u \in Users : SyncUser(u)
  \/ \E us \in UserLists : SyncUsers(us)
  \/ CheckXrayHealth
  \/ \E k \in DOMAIN live : \E client \in live[k], out \in config.outbounds :
       Traffic(k, client, out)
  \/ \E class \in Classes, reset, arrives \in BOOLEAN :
       \E owner \in {{}, {""}} \cup {{n[2]} : n \in DOMAIN counters} :
         Ask(class, owner, reset, arrives)

Spec == Init /\ [][Next]_vars

-----------------------------------------------------------------------------
(* Whatever API inbound and rules the panel's config had, the core of a    *)
(* backend that is up has one way in for the node's own calls, first among *)
(* its inbounds, and one rule that leads there, first among the rules; the *)
(* other inbounds are there in their order, and the other rules too unless *)
(* one was not an object.                                                  *)
OtherRules(c) ==
  Omit(Given(c.router, <<>>), {ApiRule, StaleRule})
TagsOf(inbounds) == [k \in DOMAIN inbounds |-> inbounds[k].tag]

CompletedConfig ==
  phase = "up" =>
    /\ Head(config.inbounds) = ApiInbound
    /\ TagsOf(Tail(config.inbounds)) = Omit(TagsOf(sent.inbounds), {ApiTag})
    /\ LET rules == CHOOSE r \in config.router : TRUE
       IN  /\ Head(rules) = ApiRule
           /\ Tail(rules) = IF BadRule \in Range(OtherRules(sent)) THEN <<>> ELSE OtherRules(sent)

(* Neither a Start nor a request ever panics unless the panel sent a null  *)
(* inbound, two API inbounds, a null level 0, an inbound of a protocol with*)
(* users that has no settings, or an id that is no UUID.                   *)
PanicHasCause ==
  phase = "panicked" \/ broken =>
    \/ NilInbound \in Range(sent.inbounds)
    \/ \E j, k \in DOMAIN sent.inbounds :
         j # k /\ sent.inbounds[j].tag = ApiTag /\ sent.inbounds[k].tag = ApiTag
    \/ \E p \in sent.policy : 0 \in DOMAIN p.levels /\ p.levels[0].null
    \/ \E k \in DOMAIN sent.inbounds :
         ~sent.inbounds[k].settings /\ sent.inbounds[k].protocol \in KnownProtocols
    \/ bad

(* The two ways to a client list agree: after any number of SyncUser and   *)
(* SyncUsers each inbound that is not excluded has the accounts of the     *)
(* users that the panel sent last, each once, as far as their ids are      *)
(* valid.                                                                  *)
Clients(k) == Range(config.inbounds[k].clients) \ {NilAccount}

ClientsAsWanted ==
  phase = "up" /\ ~broken =>
    \A k \in DOMAIN config.inbounds :
      ~config.inbounds[k].exclude =>
        /\ Clients(k) = UNION {ActiveAccounts(config.inbounds[k], u) : u \in wanted}
        /\ LET clients == config.inbounds[k].clients
           IN  \A m, n \in DOMAIN clients :
                 clients[m] = clients[n] /\ clients[m] # NilAccount => m = n

(* The core serves the accounts of the config and no others: a restart     *)
(* changes nobody's password, flow or access.                              *)
ServedAsListed ==
  phase = "up" /\ ~broken =>
    \A k \in DOMAIN live : live[k] = Clients(k)

(* The clients of an excluded inbound are those of the panel's config.     *)
ExcludedUntouched ==
  phase = "up" =>
    \A k \in DOMAIN config.inbounds : config.inbounds[k].exclude =>
      \E j \in DOMAIN sent.inbounds : /\ config.inbounds[k] = sent.inbounds[j]
                                      /\ live[k] = Range(sent.inbounds[j].clients) \ {NilAccount}

(* The traffic of every user and every outbound, whatever the panel's      *)
(* policy says, has been told or is still counted, and none is told twice; *)
(* only an answer that is lost or a restart loses some.                    *)
NothingUnbilled ==
  phase = "up" =>
    \A n \in Billed :
      LET count == IF n \in DOMAIN counters THEN counters[n] ELSE 0
      IN  /\ told[n] + count <= used[n]
          /\ gap \/ told[n] + count = used[n]

(* The type of every stat that the panel could be told now is "traffic",   *)
(* as the comment in GetUsersStats says.                                   *)
TypeIsTraffic ==
  \A class \in Classes : \A s \in GetStats(counters, class, {}) : s.type = "traffic"
=============================================================================
