# BKNetwork: a verification development

BKNetwork is a Windows program: a Go process that serves a page on
`127.0.0.1:13335` and, on request, switches the machine between network modes
that a campus network does not bill (IPv6 only, with Cloudflare WARP or a home
WireGuard tunnel on top), routes a few sites through a local Clash proxy with a
PAC script, and restarts one external program (quota-float) with proxy
variables.  It changes shared state that outlives it: adapter bindings, IPv6
options, host routes, Windows services, the registry, other processes.  What can
go wrong is therefore mostly about order: handlers beside each other, commands
that fail half way, and a process that ends between two steps.

This directory holds TLA+ models of that code, TLC configurations that check
them, and proofs checked by TLAPS.  `PROJECT.json` maps every definition to the
lines it models and lists runs, mutants, hazards and findings.

## The system

| component | state | operations | interacts with | what is hard |
|---|---|---|---|---|
| Shared snapshot (`snapshot_collection.go`) | the running collection | `collect`, `invalidate` | every status request and WebSocket refresh; every POST handler | a request that joins a collection older than the operation it follows |
| Home routing (`home_routing.go`) | `home-routing.json`; IPv6 options and `/128` routes of the adapter | `prepare`, `protectEndpoints`, `restore`, `verifyProtection` | home mode handlers; other software changing the same routes and options | crash between file and change; retries; ownership of routes |
| Tunnel modes (`handlers.go`, `home_network.go`, `mode_state.go`, `network.go`) | mode claim (memory), `tunnelModeMu`, adapter stacks, configured tunnel | switch, warp start/stop, warp mode on/off, home start/stop | WARP daemon, WireGuard services, home routing, settings | partial failure and rollback; unlocked paths; the claim lost at a restart |
| WARP control (`warp.go`) | the daemon's status and protocol | connect, disconnect, set protocol, wait loops | Cloudflare daemon | a daemon that moves on its own; sampled stability |
| Traffic guard and probes (`home_network.go`) | two counter readings, the attempts of a probe | `homeCounterDelta`, `homeTrafficRunaway`, port pressure, handshake wait, connectivity probe | home start; packets; other software restarting the tunnel | counter resets, integer division, traffic that escapes between two checks |
| Settings (`settings.go`) | `settings.json` | `Load`, `Save` | four handlers, start-up, exit | load-modify-save without a common lock |
| PAC routing (`chatgpt_proxy.go`) | settings, registry PAC, the PAC served | configure, activate, suspend, restore | settings, quota-float, start-up and exit | two stores and crashes between them |
| quota-float (`internal/quotafloat`) | managed and failed processes | `Configure`, `Restore`, the 3 s tick, process replacement | PAC routing; the user closing or starting quota-float | exchange of a live process that may end by itself |
| Event hub, WebSocket (`events.go`, `handlers.go`) | subscribers and their channels, last event | publish, subscribe, unsubscribe, the serving loop | all handlers, the page | replay outside the lock, full channels, dead connections |
| Snapshot content (`snapshot*.go`, `netsh.go`) | none | derivation of adapters, target, claim | system commands | text formats; what counts as free-flow |
| Process lifecycle (`cmd/bknetwork`) | ready server, port, tray, shutdown | run, activate PAC, auto-start WARP, shut down once | all; a second process on the same registry and files | start-up work racing shutdown; a server that ends while its process stays |
| Web page (`web/app.js`) | toggles, caches, socket | coalesced loads, optimistic toggles, reconnect | HTTP API, WebSocket | stale answers, events lost while disconnected |
| DNS (`dns.go`), HTTP server, version check, start-up task | none, or the operating system's | one command sequence or request each | handlers | failing half way |

What correctness means for them, in short: a status request never shows the
network from before an operation that ended; whatever was changed on an adapter
can be undone, even after a crash; two tunnels never carry the default route
together and a failed start leaves no half of itself; the user's own PAC and the
user's quota-float processes are never lost; every wait ends and every dead
connection gives back what it holds.

## Modules

| module | models | composed with |
|---|---|---|
| `SnapshotCollection` | `snapshot_collection.go` and its callers | `SnapshotCollectionProofs`; extended by `StatusPage` |
| `StatusPage` | the page's refreshes, its free-flow and home switches, and the snapshots it shows | extends `SnapshotCollection`; proved about in `SnapshotCollectionProofs` |
| `SnapshotContent` | what a collection concludes from what it read, as operators | theorems in the module |
| `RoutingLease` | the promise of the home routing, abstractly | instantiated by `HomeRouting` |
| `HomeRouting` | `home_routing.go` step by step | implements `RoutingLease`; `HomeRoutingProofs` |
| `TunnelModes` | the mode handlers, WARP and home WireGuard | takes the routing record as one step with three results; `TunnelModesProofs`, `MCTunnelModes` |
| `HomeConnect` | the home start with its traffic guard and probes | implements the start of `TunnelModes`; `HomeConnectProofs`, `MCHomeConnect` |
| `QuotaFloat` | `internal/quotafloat` | `QuotaFloatProofs`, `MCQuotaFloat` |
| `PacRouting` | `chatgpt_proxy.go`, the settings file, the registry | `PacRoutingProofs`, `MCPacRouting`; extended by `Lifecycle` |
| `Lifecycle` | `cmd/bknetwork`, `server.go`: several processes, the port, the tray | extends `PacRouting`; proved about in `PacRoutingProofs` |
| `EventHub` | `events.go`, `serveWebSocket`, the page's socket and WARP switch | takes the collection of a snapshot as one step that ends; `EventHubProofs` |

Two conventions recur.  *History variables* (marked so) record what a property
needs and no action reads.  *Disturbances* are unfriendly events a run may
enable by name; where a variable `calm` appears, every behaviour chooses at the
start whether the enabled disturbances can happen, so that one run checks both
what holds when nothing interferes (`calm => ...`) and what holds always.

### SnapshotCollection

One `snapshotCall` per element of `Calls`; `current` is the field of
`snapshotCollection`.  `Join`/`Start` are the two outcomes of the critical
section of `collect`, `Receive`/`GiveUp` the two cases of its `select`;
`CollectReturns` and `Close` are the two halves of the goroutine, before and
inside `g.mu`.  `ReadPart` reads some part of the network at the current
version, so a snapshot is the set of versions seen: `FreshSnapshot` says that a
request answered after an operation ended gets none older than that end.  An
operation invalidates on entry and on exit; the network changes inside it.

The module has no run of its own: its properties are checked in the composition
with the page, below, and proved for any number of readers, operations and calls.

### StatusPage

The page is two readers of the server (its GET requests, its WebSocket) and one
operation (its switch).  `promise` and `followUp` are the two promises of
`coalesceRequest` (app.js), `action` is where `applyEasyMode` or
`applyHomeNetwork` stands, `awaited` which promise it waits for, `shown` the
versions at which what a GET answer brought was read, and `warp` the version of
the WARP status on the page, if it came with that answer.  `Settle` is what the end of a
request does to all of them, `AskAgain` is `await refreshStatus(true)`.

`RefreshedStaysFresh` is the end-to-end claim: once the refresh after an
operation has ended with an answer, nothing that a later GET answer brings was
read before that operation.  It needs both halves, the forced follow-up in the page
and the two invalidations in the server: the mutants of it and of
`FreshSnapshot` drop one each.  Two things are outside of it, and both may show
data of before: a snapshot of the WebSocket, which app.js:1982 compares only with
others of the WebSocket, and a kept WARP status.  For when an answer has no valid
WARP status, `getNetworkWithValidWarpStatus` (app.js:1122-1133) keeps the one on
the page, as the program's README.md:67 says; the model then sets `warp` to
`Foreign`, and so does `WarpPoll`, the page's own poll of the WARP status, which
asks for a refresh besides when the status has changed.  `RefreshEnds`: the
operation of the page ends.

Bounds: one operation, two calls, one change of the network, two invalidations:
a collection of before the operation and one of after it alive together, with
every order of `Close` against a newer `current`.  A second change adds no
comparison, because versions are only compared with the floor of the last
boundary.  Fairness (`PageFairSpec`): every command of a collection has a
deadline, goroutines and promises that can go on do, a handler that has ended has
answered.  Operations, refreshes, connections and clients that give up are free.

### SnapshotContent

The conclusions of `collectNetworkSnapshotUnshared` are a function of a reading
and of the claim, so the module has operators and no variables.  An adapter is a
name with three facts (up, virtual, has a gateway); a name is virtual if it has a
marker of `isWARPOrVirtualAdapter`.  The theorems say that only a physical
adapter is recommended, that a claim wins over routes, and that the two places
that report free flow agree and never report it of an adapter with IPv4.  There
is nothing for TLC to explore.

### HomeRouting and RoutingLease

`RoutingLease` is the promise: what BKNetwork changes on an adapter is leased in
a record first, changes happen only under the lease, and the record goes away
only when everything is back.  `HomeRouting` is the code: a program counter per
script or file operation of `prepare`, `protectEndpoints`, `stopHomeTunnel` and
`restore`, and `StartFails`, `RestoreFails`, `Crash` from every step.  Other
software changes options and routes at will (`Outside...`); `orig` is what it
left.  `ImplementsLease` is the refinement (`lease <- record`, `owned <-` routes
with BKNetwork's marker).

Taken as undisturbed: the moment between the snapshot script and writing the
file, and between restoring the options and removing the file (two adjacent steps
of BKNetwork, `Undisturbed`).  Bounds: two tunnels, two adapters, one option, one
endpoint and one marker.  With two adapters a record can name another adapter
than the one that is asked for; that several routes are handled one by one is a
matter of safety alone, which `HomeRoutingProofs` proves for any endpoints,
options, markers and adapters.  Safety and `RetryCleansUp` are checked in one
run, under `RetryFairness`: the user repeats the stop, and what is tried again
and again succeeds eventually.  With several routes each attempt could fail at
another one, and strong fairness of each removal would be needed.

### TunnelModes

The handlers hold `tunnelModeMu` from their first step to their answer, so one
record `task` is the handler in progress and, while idle, the answer of the last
one.  Every external command with its wait is one step with all its outcomes
(`ApplyFails` leaves any prefix of the changes of `applyNetworkMode` in effect;
an unconfirmed stop leaves the tunnel running or not).  The phases of a home
start after the service runs (`Protect`, `AwaitHandshake`, `ProbeInternet`,
`VerifyAgain`) change no state, but each is a point where the start turns to its
rollback and where the rest of the world moves.  Beside the lock run the daemon,
WARP "stop" (two steps, unlocked), `StartWarp` of a new process and
`SettingsHandler`.

`TunnelsExclusive` is a part of the invariant `IInv` of the run `tunnel_modes`,
which also checks that the adapter of a live tunnel does not get IPv4 back except
on request (`LiveTunnelStaysIPv6Only`).  In it nothing of `Disturbances` happens,
but every command can fail, the daemon moves, WARP is stopped beside the lock and
the process crashes.  Each of the four
disturbances breaks it alone: `"autostart"` (the run `autostart_exclusion`),
`"probe"` (a failed WARP status query counts as disconnected), `"retry"` (the
home start takes "Unable" for stopped, and the daemon connects again later) and
`"settings"` (an old `HomeTunnelName` written back; the next WARP start stops no
tunnel); changing `Disturbances` in `TunnelModesAutoStart.cfg` shows the other
three.  `"settings"` also breaks `LiveTunnelStaysIPv6Only` (the WARP mode stops
no tunnel and gives the adapter of the live one IPv4), and is the only one that
does.  So the hypotheses of the theorems about both are as weak as they can be.

Bounds: two adapters and two tunnels (one each in the disturbed run), two primary
attempts instead of four and one fallback attempt: enough for "another round" and
"last round".  In-flight WARP stops are bounded by one per adapter.  Fairness:
the goroutine that holds the lock goes on, since all its waits end by their own
deadlines; nothing is assumed of the daemon.  The model assumes that nobody but
BKNetwork starts a tunnel or WARP, and that requests name an adapter.

The rollbacks of failed starts and `EveryHandlerAnswers` hold with all
disturbances and are checked there.  `FailedStartRollsBack` distinguishes the one
case in which the code does less than README.md:26 promises: when the tunnel has
stopped but its endpoint clean-up failed (`"unclean"`), a home start still gives
dual stack back, but a switch to WARP answers the error and leaves the adapter
IPv6-only (handlers.go:213-217, 330-334).  `CleanupFailureRestoresStack` is the
promise as it stands there; it is violated (below).

### HomeConnect

`handleHomeNetworkStart` after WARP is off, step by step: `TakeBaseline` reads
WireGuard's counters, `Check` stands for each `probeHomeTrafficGuard` between the
steps, `AwaitHandshake` and `HandshakeTimeout` for the wait, `BeginProbe` to
`CheckResolved` for `probeHomeTunnelInternet` with a baseline of its own, and
`FinalCheck` for the comparison with the first baseline before `Claim`.  Beside
it `Carry` moves bytes, and `OutsideRestart` sets the counters to zero and may
change the peers.  The history variables `flow` and `checked` say what was
really carried since the baseline and when the counters were read last.

A reading of the counters has three outcomes (`Readings`, and an error).
`probeHomeWireGuardMetrics` ignores the error of `wg show` if it printed
anything, its output includes what it wrote to stderr, and the parser makes of
that text one peer without traffic (home_network.go:792-800, 835-868): `Misread`.
So a failed reading may pass the guard, and at `BeginProbe` it may give the probe
a baseline of zero.  `blind` remembers which of the three readings that matter
were not true: the first baseline, that of the probe, the last check.

`SurgeIsReal`: a start that is aborted for a surge has really sent that much, so
a reset is never taken for traffic.  `ClaimMeansNoSurge`: traffic that the
probe's own baseline hides is still counted by the last check.  The exceptions
are those of `blind`.  A first baseline of zero for a tunnel that already runs
(home_network.go:191, or text read as counters) makes its earlier traffic count
as new, and so does a zero for the probe's; a misread last check claims the mode
over a surge.  README.md:28 knows no such exception: `SurgeNeverClaimed` drops
that of the last check and is violated (below).  `ImplementsTunnelModes` maps every step to a step of the
start of `TunnelModes` or to none, so that what holds of the coarse start holds
with these checks.  `HomeConnectProofs` proves it for any constants: `Begin`,
`WarpIsOff`, `Apply`, `Prepare`, `EnsureService`, `Claim`, the rollbacks and
`UndoStack` are one coarse action each; the checks of the phases `protect`,
`handshake`, `internet` and `verify` end their phase, turn to the rollback, or
are not seen; `TakeBaseline` and the traffic are never seen.

Bounds: a surge is one unit sent and twice what is received instead of 64 MiB and
256 times; at most two units sent and one received during a start, which covers
sent alone, a balanced flow, the ratio met exactly, and a restart between; two
targets of the probe, two classes of local failures, ports below and at the
limit.  No liveness: the waits are bounded by deadlines that are not modelled,
and that a start ends is `EveryHandlerAnswers` of the coarse model.

### QuotaFloat

`op` and `pc` say who holds the manager's mutex and at which step of
`reconcileLocked` or `restartProcess` it is; `managed`, `failed`, `report` are the
fields of the `Manager`; `status`, `env` and `origin` are the processes as
Windows has them.  The exchange is an action per system call after which another
process can matter, each with a failing twin: opening the original and reading
its environment (`Open`), the last look at it (`StillThere`), the creation of the
replacement (`Create`), its verification, the termination, the wait, the resume.
Queries that only read the identity, token or environment of a process are a part
of these actions.  A terminated process is `"dying"` until Windows ends it, which is why the
exchange has to wait.  Beside the manager the user starts and closes instances
at any step.

Disturbances: `"crash"` ends BKNetwork between any two steps, `"miss"` lets
`listProcesses` leave out a live instance it cannot open for a moment.
Calm or not, entries are true (`EntriesMatchEnvironment`, a part of what
`QuotaFloatProofs` proves) and an original is
terminated only beside its replacement (`SwitchOnlyWhenPrepared`); that one
instance runs per origin, that reports are true, that nothing is tried twice and
that what was closed stays closed needs calm: after a crash a suspended replacement stays behind, and a missed
instance is forgotten.

`closed` says for each program the user started whether the user closed it, and
whether that was before or after the last look of an exchange at it
(`"before"`, `"during"`).  `ClosedStaysClosed` speaks of the first: the code looks
once, at process_windows.go:217-221, and from there on creates and resumes the
replacement whatever ended the original (253-261).  README.md:38 says without
that limit that a closed quota-float is not opened again: `ClosedNeverReopened`,
which is violated (below).

Bounds: three instances (two the user starts and one replacement, or one with
two exchanges), two addresses, two attempts as in the code.  The liveness run
has one address and no disturbances.  Fairness: the holder of the mutex goes on,
the ticker ticks, `Restore` gets the mutex some time (`sync.Mutex` starves no
waiter) and a process list asked for again and again is complete some time.

### PacRouting

`pac` is the registry value, `file` the settings file, `op`/`step`/`cfg`/`seen`
the locals of whoever holds `chatGPTProxyMu`.  The two stores are written one
after the other, each write can fail and is undone; `SettingsHandler` writes the
whole file without the lock (`EditLoad`, `EditSave`); `userPac` is what the user
or other software chose last.

Disturbances: `"crash"`, `"settings"` (the handler overlaps a change of the
switch), `"outside"` (the user chooses a PAC in the middle of one), `"rollback"`
(undoing fails too).  Calm runs keep the user's PAC; `NeverOursAfterSuspend` is
claimed of all.  `PacBackOnExit`, the comment's claim about a regular exit, fails
with `"settings"` (the run `pac_settings_race`) and also with `"crash"`, between
the registry and the file.  `PacRouting` is the part of one process; it is
checked in the composition below, and proved for any set of scripts.

### Lifecycle

`phase[p]` is where process `p` is in `main` and `runDesktopApp`, `port` who
listens on 127.0.0.1:13335.  The lock and the stopping flag of `PacRouting` belong
to one process each; the port is the only thing that keeps two apart, and
`OneServes` (in `LifecycleInv`) says that it does: what works on the PAC is the
one process past `Listen` and before `Release`.  `Quit` is the menu or
`WM_CLOSE`, `BeginSuspend` and `Release` are the two halves of `shutdownServer`,
`ServeFails` is a server that ends while the message loop goes on, `Kill` the end
without either.

`PacNeverDangles`: in a calm run BKNetwork's PAC is never in force while nobody
serves it, unless a quit could not put the user's back.  `QuitEnds` is liveness:
the window procedure waits for the suspension, which waits for the lock.
Disturbances are those of `PacRouting` and `"serve"`.

Bounds: two processes and one script of the user besides "none"; two scripts
would distinguish "the recorded one" from "another one", which the proofs cover.
Fairness: the holder of the lock and a settings request go on, the window
procedure runs, and `sync.Mutex` lets the suspension in some time (strong
fairness of `BeginSuspend`, since requests take the lock again and again).

### EventHub

`published` is the sequence of event types, an event is its number; `queue[c]`
is the channel of a subscription, `held[c]` the last event `Subscribe` took along
under the lock and replays after it; `pc[c]` is where `serveWebSocket` is;
`link[c]` is whether the connection carries data, which the server learns only by
reading or writing.  The page has one socket and reconnects; its WARP switch is
`pending` from the click until an error is read or any `warp.ok` arrives.
`WarpHandler` writes its answer first and publishes second (`WarpAnswers`,
`WarpSucceeded`), so the two race.

`InOrder` states precisely how far the order goes: the replayed event may come
after newer ones, since it is sent after the unlock.  `ToggleSettles` says that a
pending switch is released or nothing that would release it is left: an event
that a full channel refused, or that another event replaced as the last one while
the page was disconnected, is gone, and the page does not notice.  The temporary
disabling of the switch (`setBusy`) is left out since any other operation of the
page lifts it.

Bounds: two connections (the dead and the new one), channels of two, two WARP
requests, two other events, one broken connection.  Fairness: goroutines are
scheduled, the collection a connection waits for returns (its commands have deadlines),
the select takes a ready `readDone` sooner or later, the browser delivers answers
and close events and reconnects.  The system may stop when nobody clicks, hence no
deadlock check there.

## What is checked

| run | module | shows |
|---|---|---|
| `status_page` | `StatusPage` | freshness and sharing of snapshots under every interleaving, what the page shows after an operation, the end of its refreshes |
| `home_routing` | `HomeRouting` | recoverability, refinement of the lease, protection of live tunnels, foreign routes untouched, repeated stops remove the record |
| `tunnel_modes` | `TunnelModes` | exclusion of the tunnels and the rest of the invariant, no IPv4 for the adapter of a live tunnel except on request |
| `tunnel_modes_disturbed` | `TunnelModes` | the rollbacks of failed starts (stack and protocol) with all disturbances; every handler answers |
| `home_connect` | `HomeConnect` | the traffic guard against what really flowed, blame for local failures, refinement of the start of `TunnelModes` |
| `quota_float` | `QuotaFloat` | one running instance per program, true reports, one try per Configure, what the user closed before the last look stays closed |
| `quota_float_liveness` | `QuotaFloat` | instances started later are handled; Restore ends |
| `pac_routing` | `Lifecycle` | the user's PAC is in force or on record, exits restore, no PAC without a server, a stopping process stays quiet, quitting ends |
| `event_hub` | `EventHub` | registration, order, release of dead subscriptions, release of the WARP switch |

Three runs expect a violation; each is a disagreement between the code and its
documentation, listed under `findings` with the lines:

* `autostart_exclusion`: `StartWarp` takes no lock and does not look at the home
  tunnel, which survives the process; the two then run together.
* `quota_original_kept`: a wait that times out or a failing resume, after the
  original was terminated, ends the replacement too, and no instance is left.
* `pac_settings_race`: a settings request that overlaps turning the switch on
  writes the old fields back; the exit then finds nothing to restore.

Three more sentences of the documentation are not kept.  For each, the run of the
module checks what does hold, with the exception named in the property, and a
configuration of its own lets TLC find the trace that breaks the sentence
(`findings` names them with the lines):

| configuration | sentence | what the code does |
|---|---|---|
| `HomeConnectMisread.cfg` | README.md:28, `SurgeNeverClaimed`: a surge fails the start | a last check whose `wg show` fails with a message passes |
| `QuotaFloatClosed.cfg` | README.md:38, `ClosedNeverReopened`: a closed quota-float is not opened again | one closed during its exchange, after the last look, is |
| `TunnelModesCleanup.cfg` | README.md:26, `CleanupFailureRestoresStack`: dual stack although the endpoint clean-up failed | a switch to WARP answers the error and leaves IPv6 only |

They are run like the others, for example
`tlc -config HomeConnectMisread.cfg MCHomeConnect`, with `MCQuotaFloat` and
`MCTunnelModes` for the other two; each stops with the violation.

Each property of a passing run has a mutant: a named variant of one action (in
the module, before that action, marked *Mutant* or *Mutated*) that contains a
plausible bug and makes the run fail on that property.

## What is proved

With TLAPS, for all values of the constants that satisfy the assumptions stated
beside them (which TLC evaluates in every run):

* `SnapshotCollectionProofs`: the inductive invariant `IInv` (types; the current
  call is still joinable; an unfinished call of the present generation is the
  current one; readers' floors lie in the past), and from it `FreshSnapshot`,
  `OneCollectionPerGeneration` and `NoJoinAfterCompletion` (a call that has
  completed is joined by nobody).  `FreshSnapshot`
  alone is not inductive: a reader that joins inherits what the current call has
  read, so that call's readings must be known to lie after the last boundary.
* `HomeRoutingProofs`: `IInv` (types; what each program counter implies for the
  locals; the recorded options are the original ones; `Recoverable`), preserved
  by every action in three lemmas (types, control, data), and from it
  `Recoverable`, `ProtectionOutlivesTunnel`, `ForeignRoutesUntouched` and the
  refinement `SpecImplementsLease`, one case per action.  `Recoverable` alone is
  not inductive: `RestoreFlags` needs `RecordedFlags`, `Save` needs that the
  snapshot read is still right, `Forget` that every recorded route is gone.
* `QuotaFloatProofs`: `IInv`, whose parts `ExchangeOK`, `FreshOK` and the truth
  of the entries hold in every run and `OriginOK`, `RecordOK` in calm ones, with
  one lemma per part; from it all the safety properties of the run `quota_float`,
  `EntriesMatchEnvironment`, and, as an action property, `SwitchOnlyWhenPrepared`.  One instance per origin
  is inductive only together with what the exchange in progress knows (its
  replacement is the only suspended process, and at `resume` the original is
  dead); a true report only with what is still to be done while it is computed.
* `PacRoutingProofs`: `IInv` (types always; in calm runs what each step knows of
  the two stores), from it `UserPacSafe` and `ExitRestores`; and
  `NeverOursAfterSuspend` for all disturbances, from the part of the invariant
  that says that only a suspension runs in a stopping process.  Then for
  `Lifecycle` and any number of processes: `LifecycleImplements` (every step of
  the processes is one of `PacRouting` or leaves its variables alone), so all of
  the above holds with them (`PacKeptWithProcesses`); `LifecycleInv`; and
  `PacNeverDangles`.  `OneServes` is inductive with the types alone, since the
  port is taken and released in single steps.  `PacNeverDangles` needs `Answered`
  besides (a stopping process without a task has the answer of its suspension):
  without it a process could release the port over its own PAC silently.
* `SnapshotCollectionProofs`, for `StatusPage`: `PageImplements` (the page is
  readers and an operation of the collection), `PageInv`, and
  `RefreshedStaysFresh`.  The last is not inductive: `PageBound` adds that
  `confirmed` and `since` are no later than the last boundary, and that the floor
  of the page's request in flight is not below `confirmed`, nor below `since` when
  the action waits for that very request.  With `FreshSnapshot` what an
  answer brings then lies behind neither; what it only keeps (`Foreign`) is not
  claimed.
* `TunnelModesProofs`: `TypeOK`; with every disturbance `FailedStartRollsBack`,
  from what each step of a start knows of the stack (as found or dual before the
  switch, dual after the undo, which a home start makes even after a failed
  clean-up), and `ProtocolRolledBack`, from what
  `protocolChanged` says of the protocol.  If `"settings" \notin Disturbances`:
  `TunnelIsKnown` and `LiveTunnelStaysIPv6Only`.  `TunnelIsKnown` is inductive
  only in `KnownInv`: the tunnel of a start under way is the configured one; its
  record is written when the service is started; and the WARP starts past
  `stop`, the rollback past its stop and the home stop past its own know their
  tunnel down.  If `Disturbances = {}`: `IInv`, with `HomeAlone` as what makes
  `TunnelsExclusive` inductive.
* `HomeConnectProofs`: `IInv`, inductive once a stopped tunnel is known to have no
  counters (`Settled`); it says nothing of a baseline that could not be read
  (`blind`), except that a zero for the probe is right where the start began with
  zero; from it `SurgeIsReal`, with what an abort knows of the
  reading it blames, and `ClaimMeansNoSurge`, by `RatioByProduct`
  (`sent \div received >= Ratio` exactly when `sent >= Ratio * received`);
  `LocalFailureMeansAllTargets`; and the refinement `ImplementsTunnelModes`, from
  the invariant that a start under way has its tunnel in the settings (`Named`).
* `EventHubProofs`: `IInv` and `InOrder`, for any connections, any number of
  events and any capacity.  `IInv` needs that a handler leaves only a broken
  connection (`Linked`).  `InOrder` needs `Delivered`: the events sent and queued
  are those up to the last published one, and while the replay is still to come
  the held event is not among them, so that it is delivered once.
* `SnapshotContent`: the three theorems named above, from `LeastIsLeast` (a
  nonempty set of naturals has a least element, by the well-founded order).

Assumptions: the markers exclude the metric of foreign routes
(`MarkerAssumption`), absent values are distinct from real ones, the numbers of
attempts, targets and channel places are positive, and so are the thresholds of
the guard; the classes of local failures are none of the other causes.  No bound
of a run is an assumption of a proof, except that `MaxUserStarts` and the like
stay unspecified constants.  The hypotheses on `Disturbances` are stated in the
theorems.

Every safety property of a run that expects to pass is proved.  Only
model-checked: liveness (`RefreshEnds`, `RetryCleansUp`, `EveryHandlerAnswers`,
`EveryInstanceHandled`, `RestoreAnswers`, `QuitEnds`, `SubscriptionReleased`,
`ToggleSettles`), which rests on fairness, out of TLAPS's reach.

## Hazards

`PROJECT.json` lists the hazards at their lines with the properties that watch
them.  Without a property, with the reason beside each: an adapter that
disappears for good while its record exists; a torn settings file; a crash
between the registry and the settings file; a crash inside a quota-float
exchange, and what an earlier run adapted; a process list that leaves an instance
out; a server that ends under its tray; two DNS requests at once.  All but the
last happen in the models or are named as exceptions, but no document of the
program promises anything for them.

## Not modelled, and why

* Parsing of `netsh`, PowerShell, `warp-cli`, `wg` output, environment blocks and
  process tokens, the text of the PAC: data without control.  A result is a value
  or a failure.
* The timing of the WARP wait loops (stability window, grace periods): each wait
  is a step with all its results, among them a daemon that moves right after.
  Whether the samples of a window are enough depends on how fast the daemon
  moves, of which the repository says nothing.
* `DnsHandler`: reads an adapter's servers and writes them back; no other
  component touches them.
* Version check (one HTTP request and a comparison of version strings), shortcuts
  and the scheduled task: no state of their own, no concurrency.
* The Windows service, elevation, the Win32 calls of the window and the tray.
* A second desktop process beside one whose server has ended by itself; the five
  seconds `Shutdown` gives to requests in progress.
* In the page: the DNS editor, markup and styles.

## Plan

1. What the coarse start promises, for the detailed one: `FailedStartRollsBack` of
   `TunnelModes` for `HomeConnect`, through its refinement.
2. `HomeRouting` with verified protection: which routes a start that has passed
   `verifyProtection` can rely on, as a further invariant of `HomeRoutingProofs`.
3. The safety half of the liveness properties: for each wait of `EventHub` and
   `Lifecycle` an invariant that names who will end it, so that only the fairness
   is left to TLC.
