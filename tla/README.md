# TLA+ specifications of the node

The node is a Go server that a panel drives over REST or gRPC. It runs one
xray-core child process, keeps its configuration and its users in memory,
restarts it when it fails, and forwards its log. This directory holds TLA+
modules translated from the Go source, TLC configurations that model-check them
on small instances, and proofs checked by TLAPS. `PROJECT.json` lists the
components, the runs, the mutants that show that each property can fail, the
source lines of every definition, the disagreements found, the hazards and the
theorems.

Run a check with `tlc -config MCCore.cfg MCCore`, a proof with
`tlapm CoreProofs.tla`.

## Inventory

| Component (source) | State | Operations | What is hard |
|---|---|---|---|
| Core (`backend/xray/core.go`, `logger/logger.go`) | the tracked child `process`, `cancelFunc` of its log capture, `restarting`, `logger`, the log paths in the shared config | `Start`, `Stop`, `Restart`, the goroutine in `cmd.Wait`, the death of the child | `Restart` releases the lock three times; `Started` reads `ProcessState`, which lags behind the death |
| Log capture (`backend/xray/log.go`, `controller/*/log.go`) | two goroutines per child, the bounded `logsChan` | scan, check the context, offer, classify; streams receive | the logger is read without the lock; nobody need receive; lines race with `Stop` and with `Wait` closing the pipes |
| Xray (`backend/xray/xray.go`, `jobs.go`) | `config`, `core`, `handler`, the context of the health check, `mu` | `NewXray`, `checkXrayStatus`, `checkXrayHealth`, `Restart`, `Shutdown` | four kinds of goroutine restart, stop and use one core; the API client is used without a lock |
| Users (`backend/xray/user.go`, `config.go`, `api/account.go`, `api/proxyman.go`) | the client list of each inbound in the config, and in the running core | `SyncUser`, `SyncUsers`, `updateUser`, `removeUser`, `ToBytes` | two copies of the users, edited inbound by inbound, with calls that fail or lose their answer and restarts in between |
| Controller (`controller/controller.go`) | `backend`, `cancelFunc` of the session, `lastRequest`, `mu` | `Connect`, `Disconnect`, `NewRequest`, `StartBackend`, `Backend`, `keepAliveTracker`, `recordSystemStats` | each is atomic, their compositions in handlers are not; `Disconnect` cancels before it locks |
| REST and gRPC services (`controller/rest`, `controller/rpc`) | none of their own | authentication, the backend gate, `Start`, `Stop`, everything else | the backend is read twice; the two protocols order `Connect` and `StartBackend` differently; a panic is recovered in REST and ends the node in gRPC |
| main (`main.go`) | none | signal, drain of at most ten seconds, `Disconnect`, exit | handlers may outlive the drain |
| Config completion (`backend/xray/config.go`) | the config | `NewXRayConfig`, `ApplyAPI`, `filterRules`, `checkPolicy`, `RemoveLogFiles` | loops that change the slice they range over; an error that is overwritten; values that are null; data shared with everything above |
| Statistics (`backend/xray/stats.go`, `api/stats.go`, `common/helper.go`) | the counters of the core | queries with and without reset, for all owners of a class or one | names of counters are split by position; a query is a substring; a reset that succeeds may lose its answer; a restart loses the counters |
| Node configuration, tools, protocol messages (`config`, `tools`, `common`) | none | environment, certificates, host statistics, free ports, generated code | I/O and data only |

How they interact. A handler of a service reads and changes the `Controller`;
`Controller.StartBackend` calls `NewXray` under `Controller.mu`, `Disconnect`
calls `Xray.Shutdown` under it, and every other handler takes the backend out of
the controller and calls it with no lock held. `Xray` calls `Core` under
`Xray.mu` when it restarts or shuts down; the health check, which `NewXray`
starts, calls `Xray.Restart` from its own goroutine. `Core` starts the child and
two capture goroutines for each, which send on `Core.logsChan` to
`checkXrayStatus` and to the log streams. `SyncUser` and `SyncUsers` edit
`Xray.config`, which `Core.Start` marshals.

What makes each component correct:

- Core: at most one xray runs and it is the one the core tracks; the context and
  the logger belong to it; two restarts exclude each other and each ends.
- Log capture: no line is invented, duplicated or reordered; the child is never
  blocked because nobody reads; goroutines end with their child; stopping a core
  harms nobody.
- Xray: a failed creation leaves nothing; a dead core is launched again until
  `Shutdown`, and none after it; the lock is given back on every path; users that
  were acknowledged are served whoever launches the core.
- Users: the config never holds a user twice in an inbound; what was acknowledged
  is in the running core; both requests that bring a user give him the same
  accounts, in the config and in the core.
- Config: a completed config has exactly one way in for the node's own calls and keeps
  the rest of what the panel sent; a panic has a cause in the panel's data.
- Statistics: traffic is told once, and what is not told is still counted.
- Controller and services: the current backend is up; no backend is left behind;
  a silent client's backend is disconnected; a request that was let through misses its
  backend only after a `Shutdown`; every request ends, also when it or another panics; the
  node exits clean.

## Modules

| Module | Models | Notes |
|---|---|---|
| `Supervisor` | what a supervisor of processes promises | abstract specification |
| `UserStore` | what a backend promises of the lists that `SyncUsers` brings | abstract specification |
| `Core` | `core.go` | one action per critical section of `Core.mu`; implements `Supervisor` |
| `Logs` | `log.go` on top of `Core` | EXTENDS `Core`: every step of `Core` is a step here |
| `Xray` | `xray.go`, `jobs.go` | `Core` reduced to whether its process runs; implements `UserStore` |
| `UserSync` | `user.go`, client lists of `config.go` | config and running core, inbound by inbound |
| `Lists` | the loops of `config.go` that make a new slice or leave an element out | operators on sequences, which the next two and `UserSync` share |
| `XrayConfig` | `NewXRayConfig`, `ApplyAPI`, `filterRules`, `checkPolicy` of `config.go` | operators on a config |
| `Accounts` | `api/account.go`, `isActiveInbound`, `syncUsers`, `updateUser`, `removeUser`, `EnsureBase64Password` | operators on users, accounts and client lists |
| `Stats` | `stats.go`, `api/stats.go` | operators on the core's counters |
| `Provisioning` | one backend's data, from `Start` to the statistics | EXTENDS the three: their operators run in the order of `NewXray`, `SyncUser`, `SyncUsers` and `GetStats` |
| `Controller` | `controller.go`, the handlers, `main.go` | a backend reduced to whether it is up; with one starter at a time its backends are processes of a `Supervisor` |
| `CoreProofs`, `LogsProofs`, `XrayProofs`, `ListsProofs`, `UserSyncProofs`, `AccountsProofs`, `ProvisioningProofs`, `ControllerProofs` | the proofs | each EXTENDS its module and TLAPS; `LogsProofs` builds on `CoreProofs`, `UserSyncProofs` and `AccountsProofs` on `ListsProofs`, `ProvisioningProofs` on `AccountsProofs` |
| `MC*` | instances for TLC | sets of model values |

How state and actions correspond to the code, module by module:

**Core.** The variables are the fields of the struct, the state of every child
in the operating system (`os`), the children whose capture context is cancelled,
and a program counter for each goroutine inside a method. `Start` is two steps:
`Prepare`, before the lock (it takes the log paths off the shared config), and
one of `LaunchRefused`, `LaunchFails` and `Launch`, under it. `Stop` is one step.
`Restart` is the check of `restarting`, a `Stop`, the two steps of a `Start` and
the deferred reset. `Exit` and `Reap` are the death of the child and the moment
`cmd.Wait` notices, which `Started` depends on. Any goroutine may call any
method: `Core` is checked with callers that are less disciplined than `Xray`,
whose lock keeps some of these interleavings from happening.

**Logs.** A capture goroutine scans, checks its context, offers the line to the
channel without waiting, and classifies it with the logger that `Core` has at
that moment. Lines are numbered per pipe. `ReapAndClose` models that `cmd.Wait`
closes the pipes: an arbitrary part of what was not yet read is lost. A scan may
end early, at a line longer than the scanner's buffer.

**Xray.** `NewXray`, from the launch over `checkXrayStatus` to the start of the
health check, runs first; then the health check, requests that run `SyncUsers`,
callers of `Shutdown` and the death of the process interleave. The users in the
config are a version number that each `SyncUsers` raises. `Restart` is split at
the moment the config is read, with `Xray.mu` held on both sides. The exit of
the health check on `context.Canceled` has no action, because
`GetSysStats` wraps every error in a way that `errors.Is` does not see through.

**UserSync.** Each inbound has a list of clients in the config, a sequence in the
order of the code, and a set of clients in the running core. `SyncUser` is, for
each inbound, a removal in the core (error ignored), an edit of the list, and an
addition to the core (error collected). The core refuses an email it already
has, may be down at any moment, and may carry out a call whose answer is lost.
`SyncUsers` replaces the lists one by one and restarts; the health check restarts
at any time. Which accounts a user has is reduced to whether an inbound is to
have the user. An account is the number of the request that brought it.
Lists of `SyncUsers` do not name a user twice, as the panel's do not.

**XrayConfig, Accounts, Stats and Provisioning.** What the modules above take for a
version, a number or nothing at all is here the data itself, reduced to what the code
looks at: tags, protocols and the settings that decide about flows and ciphers; of a
routing rule whether it leads to the API and whether it is an object; of a
policy level whether it is null and what it counts. A pointer that may be nil is a set of
at most one element. A password is the text the panel sent and the lengths of the keys it was
hashed to. The methods of Shadowsocks 2022 are the three that the core has; the code tests for
the prefix `2022-blake3`, and a panel that made up another method with it would get an inbound
to which the core can add no user. An inbound may be null (`NilInbound`), which `NewXRayConfig`
dereferences. `ApplyAPI` has its loop over a slice that it shortens, so the element
after a removed one is skipped and a second API inbound either stays or makes the
slice expression panic; `FilterRules` returns no rules at all if one of them
is no object, because the error is overwritten (`config.go:374`, `:395`).
`isActiveInbound` and `Inbound.syncUsers` are separate operators, for the
code has the decision twice. `Provisioning` starts a backend with a config and users of the
panel, lets requests and restarts come in any order, the core count traffic
where the policy says so, and the panel ask for it. Each request is one step, and the
core's API does what it is asked: the interleavings and the lost
calls are in `UserSync`. A panic in a request ends the node or is recovered, as
in `Controller`, and leaves the lists as far as they were edited. The history
variables `wanted`, `used` and `told` are what the panel sent last of each user, the traffic
there was, and what answers with reset have reported; `bad`, `broken`
and `gap` remember an invalid id, a recovered panic, and an answer or a
core that was lost. Assumed of xray-core: it refuses two inbounds of one tag, may
refuse a null client, and takes a query for a substring of a counter's name.

**Controller.** One action per critical section of `Controller.mu`, except
`StartBackend`, which holds the lock while xray starts and is therefore a
beginning and an end. `Disconnect` is two steps because it calls `cancelFunc`
before it locks. `Start` is the handler of both protocols, which differ in the
order of `Connect` and `StartBackend`; a request that is not `Start` passes the
gate, reads the backend again and uses it, or stops it. Requests for the base
information pass no gate and only read: they are covered by `Refused`, which
ends a request that changed nothing but `lastRequest`. A panic ends the node in
gRPC and only the request in REST. It is possible wherever the code has one: in
`detectBackend` (a null inbound, `config.go:457`), in `NewXray` under the lock, which a
`defer` gives back (`config.go:97`, `:358`, `:421`), where a handler finds no backend, and in
any use of one, be it down (the API client is nil) or up (an invalid id, `config.go:97`,
`:159`, `:246`). What must hold of them is that they hang nobody (`RequestsEnd`), that no
backend is missed without a `Shutdown` (`NilNeedsShutdown`), and, in `Provisioning`, that
those that come from the data have a cause in what the panel sent (`PanicHasCause`).
`main` drains, cancels and cuts like any `Disconnect`, and leaves; requests that outlive the
drain run on between these steps, and `drained` says that no `Start` was among them. Two backends share `apiPort` when a second
one starts without a `Disconnect`; whether its xray starts then is up to
xray and the operating system, so both outcomes are in the model.

## Runs

| Run | Question and answer | Bounds |
|---|---|---|
| `core` | Do two goroutines that start, stop and restart at will ever lose a process, mix up contexts or block restarts? No, and `Core` implements `Supervisor`. | 2 goroutines, 3 launches |
| `core_log_files` | Does a restarted core still write to the log files the config names? **No.** | same |
| `logs` | What reaches the channel, when can a goroutine find no logger, do pipes drain with no reader, do goroutines end? Lines are neither duplicated nor reordered, at most one leaves after the stop, the logger is missing only after a `Stop`, and nobody blocks. | 1 child, two pipes, 2 lines, buffer of 2 |
| `logs_panic` | Is stopping a core always graceful? **No**: a goroutine between the context check and the logger panics. | 2 children, one pipe each, 2 lines, buffer of 2 |
| `xray` | Creation, health check, two `SyncUsers`, a `Shutdown` and deaths of the process: are acknowledged users served, does a dead core come back, does the lock? Yes, and `Xray` implements `UserStore`: no restart brings an older list back. | 2 requests, 1 stopper, 2 versions |
| `xray_stays_down` | Does nothing run after `Shutdown` has returned? **No**: a health check in flight restarts the core. | no requests |
| `user_sync` | Two `SyncUser`, one `SyncUsers`, restarts, deaths and failing calls: is what was acknowledged served, and is a user never listed twice? Yes. | 2 inbounds, 1 user, 3 requests |
| `provisioning` | What becomes of the panel's config, users and questions? The completed config has the API's inbound and rule once and first, panics have a cause in the panel's data, both ways to the client lists agree with each other and with the core, and traffic is told once or still counted. | every sequence of up to 3 inbounds from three kinds, some with a null, and 5 richer ones; 2 requests, 2 units of traffic |
| `stats_list` | Is the type of every stat "traffic"? **No**: lists of stats have link and type swapped. | same |
| `controller` | With REST and with gRPC, one client that starts, other requests, trackers and the exit of the node: is no backend left behind, do they live one after another, is none missed without a `Shutdown`, do requests end whoever panics, is a silent client disconnected (gRPC)? Yes. | 2 starts, keep-alive or not |
| `controller_two_starters` | Are two clients that start at once safe? **No**: a backend is orphaned. | 2 starters, 2 starts |
| `controller_rest_idle` | Is a silent client's backend always disconnected with REST? **No**: its session may be cancelled before the backend exists. | 2 starts |

Why the bounds are enough for the question asked. In `Core` a third launch is
needed for a stale view of one child to meet its successor's successor; every
method has at least two callers inside it at once. In `Logs` two pipes share the
channel, whose buffer holds two of the four lines, so it overflows in every
order; a goroutine of one child that meets the logger of the
next needs a second child, as in `logs_panic`, and the proofs cover any number. In `Provisioning` two requests after
the start are needed for a user to come by one way and to change by the other, and an
inbound per protocol and per branch of `checkVless` and of the ciphers covers the accounts;
three inbounds are needed for two that are to be removed to be neighbours or not. In
`Xray`, two requests and the health check make three goroutines that compete for
the lock. In `UserSync` the property speaks of each user and inbound by itself; two
inbounds are there for the error of one to meet the success of the other,
and three requests for a request to be overtaken twice. The two goroutines of
`SyncUser` are declared symmetric, which is sound because every definition
treats them alike and the run has no liveness. In `Controller`, two starts are a
current backend and its successor, with a session that outlives the first; the clock
distinguishes only "a request just came" from "the keep-alive time has passed"
(`MaxIdle` = 1). The bounds `MaxProcs`, `MaxLines`, `MaxVersion`, `MaxRequests` and
`MaxStarts` cut off calls that would follow, never a step within one.
All of these models but `Provisioning` may stop when a bound is reached or the node has exited or
panicked, so deadlock is not checked; that goroutines do not wait for each
other forever is stated by `LockReleased`, `RestartEnds` and `RequestsEnd`.

Each run that passes has for each property a mutant in the modules, marked
`\* mutant`: a definition changed as a plausible error in that code would.

## Fairness

A goroutine inside a method, a capture goroutine, a handler and a tracker run
on, because Go schedules every goroutine that can run: weak fairness of their
steps. Strong fairness is used where a step waits for a `sync.RWMutex`, for
which Go guarantees that a waiting writer is not starved, and, in `Controller`, where
a step is interrupted by others that take the lock. A killed process dies and
`cmd.Wait` returns. Time passes. Assumptions on the world beyond that: in `Xray`,
launches do not fail forever (`CoreRevived` is about retrying, not about a
broken binary); in `Controller`, a backend call returns or its stream is left.
Nobody is obliged to call, to read the log, to send a signal, and no child is
obliged to die.

## Disagreements between the code and what it says

1. `Start` removes the log paths from the shared config, so a restarted core
   writes no log files (`core.go:116`, against `log.go:24`).
2. `detectLogType` uses the logger without the lock after the context was
   checked; a `Stop` in between makes it panic and ends the node (`log.go:25`,
   against `log.go:33`).
3. A health check in flight at `Shutdown` takes the failure for an error of the
   core and launches a new process (`jobs.go:65`, against `jobs.go:66-67`).
4. Two `Start` requests at once orphan a backend (`controller.go:101`, against
   `core.go:133`).
5. The queries for all users, inbounds or outbounds report the direction as the type
   of a stat and "traffic" as its link (`stats.go:88`, against the comment at
   `stats.go:84` and the queries for one owner).
6. With REST, a `Disconnect` between `Connect` and `StartBackend` leaves a backend
   with no keep-alive tracker (`controller.go:66`, against `controller.go:125` and
   `rpc_test.go:352`).

Each has a run that ends with a counterexample. What follows are oddities that the
models contain and that no text of the repository contradicts, so they are
hazards or notes and not disagreements:

- a user whom `SyncUser` removed may remain in the running core until the next
  restart, and overlapping `SyncUsers` may leave a mixture of their lists;
- two API inbounds in the panel's config make `ApplyAPI` panic, or one of them
  stays and the core refuses the config;
- one routing rule that is not an object loses all the others (`config.go:374`);
- `checkVless` looks for the header's key `Type` (`user.go:68`), while the sample
  configuration writes `type` (`backend/xray/config.json:99`);
- a null inbound, or a null level 0 of the policy, is dereferenced (`config.go:457`, `:421`);
- an invalid VMess id puts a null account into the list, which a later
  `SyncUser` dereferences; an invalid VLESS id is dereferenced at once;
- traffic counted since the last answer is gone when the core restarts or an answer
  with reset is lost;
- a tag that ends in the name of a class is told as an owner of that class.

## Proofs

For all values of the constants, hence any number of goroutines, launches,
requests, users and backends:

- `CoreProofs`: `TypeOK`, `OneProcess`, `ContextFollowsProcess`,
  `RestartExclusive`, and that `Core` implements `Supervisor`. Assumptions: the
  bound is a natural number. The properties are not inductive: `Stop` kills what
  `process` points to and cancels what `cancelFunc` points to, so the invariant
  must say that both are the same child as long as one is tracked, that it was not
  killed and its context is live (`TrackedAlive`), and that children are numbered in launch
  order (`Numbered`), so that a new one is nobody's. The proof treats the pieces
  that `Start`, `Stop` and `Restart` share once, for any control points. The
  refinement maps both kinds of death to `gone`, and every step that launches,
  kills or ends a child to the step of that name; all others stutter.
- `LogsProofs`: `LogsTypeOK`, `LateLinesBounded`, `ChannelFaithful`, `PanicNeedsStop`,
  from the invariant of `CoreProofs`, which holds because every step of `Logs` is a step
  or a stutter of `Core` for the variables of `Core`. What is added: a
  goroutine that has a line has scanned one that was written, and nothing is
  written before the launch (`LinesWritten`); what waits in the channel is older than
  the line in hand (`QueueBehind`); a late line is the last (`LateOnce`); there is a logger
  from the first launch to the first cancellation (`LoggerGiven`).
- `UserSyncProofs`: `TypeOK`, `UniqueClients`, `AckedServed`. Assumptions: goroutines
  have distinct names, there is a user, and users are finitely many. Lemmas say what the edits of
  a list (`WithoutClient`, `Append`, `ClientList`) do to it as a sequence and as a set. The heart of the
  invariant is `AllAccounted`: every client of the config is in the core, or in
  every copy about to be launched, or a goroutine is accountable for it,
  namely a `SyncUser` between its call and its edit or about to add it, or a
  `SyncUsers` with its restart still before it, or the requests that brought it
  are bound to fail. `Numbered` says that requests in flight are distinct
  and unacknowledged, so nobody else can acknowledge what only one is accountable for;
  `Locked` says that the copy about to be launched is the only one.
- `AccountsProofs`: the normalised password has the length the cipher needs
  (`PasswordFitsCipher`), normalising twice is normalising once (`NormalisedOnce`), and
  for a user with a valid VMess id `isActiveInbound` and `syncUsers` make the same
  accounts (`TwoWaysAgree`), for every inbound of a protocol that has clients and every user.
- `XrayProofs`: `TypeOK`, `FailedCreateLeavesNothing`, `AckedUsersAreServed`,
  `PanicNeedsShutdown`. Assumptions: the names of the goroutines are distinct.
  What the invariant adds: whoever is between reading the config
  and launching holds the lock (`LockHeld`), so there is only one, and what it has read is
  no older than anything acknowledged, than what the core before had and than its own
  update (`SnapFresh`); nobody
  but the creator works before the backend is published (`CreationFirst`); the
  handler is closed only after the context (`HandlerLife`). With it `Implements` shows that
  `Xray` implements `UserStore`: the two kinds of launch (of `NewXray` and of a restart) map to `Launch`, a kill or
  a death to `End`, the update of the config to `Bring`, and all else stutters.
- `ControllerProofs`: `CurrentBackendIsUp`, `TypeOK` and `NilNeedsShutdown` without further
  assumptions. For `TypeOK`, the calls of `Start` that have yet to make a backend (or a session) are
  counted together with those that have (`CountInv`). For `NilNeedsShutdown`, a request that
  is about to read the backend follows the one it saw (`HeldInv`): that one is current, or a
  later one is, or one of those from it to the last made is down; a new backend only makes
  the range longer, and every way to no backend is a `Shutdown` of the current one.
  `NoOrphan`, `OneAfterAnother` and `CleanExit` for at most one starter at a
  time (`OneStarter`), an assumption on the panel that the code does not enforce; the run
  `controller_two_starters` shows that it is needed. What the invariant adds: the starter has disposed
  of the old backend by the time it boots the next (`Disposed`), a backend that is not yet
  made is nobody's (`Numbered`), each `Start` makes one backend and one session
  (`Counted`), and after a drain that saw every `Start` end none begins (`Drained`).

- `ListsProofs`: the lemmas that the others need about recursive functions. What a
  loop over a slice computes for every slice needs induction, and the library's
  induction theorems take an operator, which the provers cannot instantiate.
  `InductionUpTo` states induction with a set in its place (a set with 0 and with
  k + 1 for each of its k has every number up to n), from the library's theorem that a set of
  numbers has a least member, and `LoopExists` follows from it: the function of
  the intermediate results of a loop exists. With them come the lemmas on `Omit` (which elements it keeps,
  in which order, and that an element it skips may as well be taken out before) and on `WithoutClient`.
- `ProvisioningProofs`: all seven invariants of the run `provisioning`, for every
  config, exclusion, list of users and sequence of requests, restarts, units of traffic
  and questions. Assumptions (`ProvisioningAssumption`): the data is of the types that the JSON and
  the messages have, null inbounds included; the users of one list have different emails, which is how
  the panel keys them; an inbound whose protocol the node does not know has no
  clients that it would have to keep. The proof has three parts.
  First, what `NewXRayConfig` and `ApplyAPI` make of a config as a function of it: the loop with
  the removals (`RemovalStep`, `LoopOverInbounds`, `LeftAfterRemoval`) leaves the other
  inbounds in their order if it does not panic, but keeps an old API inbound that moved into
  a gap, which a core that is up cannot have (`OneApiInbound`: two inbounds of one tag are
  refused); it panics only if there are two (`ApplyAPIPanicHasCause`). The configs considered are
  those without a null inbound (`Came`); with one, the `Start` panics at once.
  Second, the invariant `DataInv`. `ClientsAsWanted` alone is not inductive: which accounts
  a user gets depends on the settings of the inbound, and the edit of a list is right only
  if the list was. So each inbound of the node is related to
  the inbound of the completed config it came from: nothing but its clients has changed
  (`SameButClients`, `Kept`), each client is there once, by his email (`Distinct`), and is the
  account of somebody the panel has named; and, unless a panic cut a request short, its
  clients are those of `wanted` and the core has them (`AsWanted`, `InboundInv`).
  `SyncedInbound` and `EditedInbound` show that a `SyncUsers` and a `SyncUser` keep that,
  the latter by `TwoWaysAgree`; `PartlySynced` that an edit that is cut short keeps what
  the other properties need.
  Third, `BillInv` for the traffic: a launched policy counts users of level 0 and outbounds
  (`PolicyCounts`); the names of two counters differ in class or owner (`NameParts`), so
  an answer reports a billed counter once if the query resets it and not at all otherwise
  (`ToldOnce`). Left out are the owners whose name ends in the name of a class (an oddity listed above) and the clients of another level in the panel's own config,
  which its policy decides on.

Each proof is a lemma for `Init`, one for a step with a step per action, and a
temporal conclusion. Every safety property of a run that passes is stated by a theorem. Only
model-checked: the liveness properties (`RestartEnds`, `LockReleased`, `CoreRevived`,
`SleeperExits`, `PipeDrains`, `CapturesEnd`, `KeepAliveReapsGrpc`, `RequestsEnd`), which
the prover cannot treat.

## Not modelled, and why

`config.Load`, certificates, host statistics, `FindFreePort`, the platform files
and generated code have no state and no interleavings. Authentication decides
whether a request reaches the handler and is modelled by its side effect on
`lastRequest`. `recordSystemStats` lives exactly as long as its session is not
cancelled. `clientIP`, `stats` and `apiPort` are only reported or passed on. Rotation
of sessions' resources below the level of goroutines (file descriptors,
timers) is left out. Of the statistics, the online queries only pass a value of the core on,
and the table from gRPC to HTTP codes only decides how an error is worded.
That `UserSync` implements the update that
`Xray` takes as one step is not claimed: two `SyncUsers` that overlap may leave a mixture of their lists.
The accounts that the node makes have level 0, and traffic is counted under one link, as every link is treated
alike. Properties of the traffic of inbounds are not stated, because the panel's policy alone
decides whether it is counted.

## Plan

In the order of importance; the first eight steps are done.

1. `Core` with `Supervisor`, and its proofs.
2. `Logs` on top of `Core`.
3. `Xray` and `Controller`, their proofs.
4. `UserSync`, inbound by inbound, where `Xray` takes an update as one step, and its proofs.
5. `XrayConfig`, `Accounts` and `Stats`, composed in `Provisioning`.
6. Proofs about `Logs`, from the invariant of `CoreProofs`, and about the operators of `Accounts`.
7. Induction over loops (`Lists`), and proofs about `Provisioning` with it.
8. `UserStore`, and backends as processes of a `Supervisor`, with the refinements proved.
9. Sessions below the level of backends: the tracker and the recorder that a failed REST
   start leaves to its successor.
