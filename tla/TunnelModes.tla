---------------------------- MODULE TunnelModes ----------------------------
(***************************************************************************)
(* The operations that decide which tunnel carries the machine's traffic   *)
(* (internal/handlers/handlers.go, home_network.go, warp.go, network.go):  *)
(* switching the protocol stack of an adapter, starting and stopping WARP, *)
(* the WARP free-flow mode and the home WireGuard mode.                    *)
(*                                                                         *)
(* The handlers run one at a time, under tunnelModeMu; what runs beside    *)
(* them is the Cloudflare daemon, WarpHandler's "stop" (no lock), the WARP *)
(* start of a new process (no lock) and SettingsHandler, which writes the  *)
(* settings file it read earlier.  The process may be killed at any time:  *)
(* the mode claim is lost, everything else stays.                          *)
(*                                                                         *)
(* Every external command with its wait is one step with all its results.  *)
(* HomeRouting has the detail of prepare, protectEndpoints and restore;    *)
(* here they succeed, fail, or leave the record behind.                    *)
(***************************************************************************)
EXTENDS Integers

CONSTANTS
  Adapters, NoAdapter,
  Tunnels, NoTunnel,
  PrimaryAttempts, FallbackAttempts, \* warpPrimaryAttempts, warpFallbackAttempts
  Disturbances   \* which of AllDisturbances can happen

\* autostart: WarpAutoStart is set; probe: warp-cli status can fail;
\* retry: the daemon leaves "Unable" by itself; settings: SettingsHandler
\* is called while another handler works.
AllDisturbances == {"autostart", "probe", "retry", "settings"}

ASSUME ConstantsAssumption ==
  /\ NoAdapter \notin Adapters
  /\ NoTunnel \notin Tunnels
  /\ PrimaryAttempts \in Nat \ {0}
  /\ FallbackAttempts \in Nat \ {0}
  /\ Disturbances \subseteq AllDisturbances

VARIABLES
  warp,        \* the daemon's status
  protocol,    \* the daemon's tunnel protocol
  stack,       \* the protocols bound to each adapter
  running,     \* the WireGuard tunnels whose service is running
  record,      \* tunnel and adapter of home-routing.json
  configured,  \* HomeTunnelName of settings.json
  mode,        \* freeFlowRuntime: the mode claimed, and its adapter
  task,        \* the handler that holds tunnelModeMu, or the last that did
  stopping,    \* adapters of WarpHandler "stop" calls between command and clear
  loaded,      \* the HomeTunnelName SettingsHandler has read and will write
  booting      \* the process has not come to its WARP auto-start yet

daemon == <<warp, protocol>>
home == <<running, record>>
beside == <<stopping, loaded, booting>>
vars == <<daemon, stack, home, configured, mode, task, beside>>

Both == {"IPv4", "IPv6"}
OnlyIPv6 == {"IPv6"}
NoMode == [kind |-> "none", adapter |-> NoAdapter]
NoRecord == [tunnel |-> NoTunnel, adapter |-> NoAdapter]
NotLoading == [busy |-> FALSE, tunnel |-> NoTunnel]
InProgress == {"connecting", "connected"}

Protocols == {"MASQUE", "WireGuard"}
Operations == {"none", "switch", "warpStart", "warpDisable", "warpEnable",
               "homeStart", "homeStop"}
Steps == {"idle", "stop", "restore", "preflight", "disconnect", "protocol",
          "apply", "underlay", "connect", "await", "clean", "again", "fallback",
          "undoWarp", "undoStack", "undoProtocol", "prepare", "service",
          "protect", "handshake", "internet", "verify", "claim", "rollback"}

Tasks ==
  [op: Operations, pc: Steps, adapter: Adapters \cup {NoAdapter},
   tunnel: Tunnels \cup {NoTunnel},
   target: SUBSET Both,                 \* the stack SwitchStack asks for
   home: Adapters \cup {NoAdapter},     \* the adapter to give dual stack back
   original: Protocols,                 \* originalProtocol
   changed: BOOLEAN,                    \* protocolChanged
   fallback: BOOLEAN,                   \* fallbackAttempted
   attempt: 0 .. PrimaryAttempts + FallbackAttempts,
   cause: {"", "stack", "underlay", "connect", "disconnect", "unclean"},
   result: {"", "ok", "error"},
   before: SUBSET Both,                 \* history: the adapter's stack
   trouble: SUBSET {"unrestored", "unverified", "undo", "unclean"}]

NoTask == [op |-> "none", pc |-> "idle", adapter |-> NoAdapter,
           tunnel |-> NoTunnel, target |-> {}, home |-> NoAdapter,
           original |-> "MASQUE", changed |-> FALSE, fallback |-> FALSE,
           attempt |-> 0, cause |-> "", result |-> "", before |-> {},
           trouble |-> {}]

TypeOK ==
  /\ warp \in {"disconnected", "connecting", "connected", "unable"}
  /\ protocol \in Protocols
  /\ stack \in [Adapters -> SUBSET Both]
  /\ running \in SUBSET Tunnels
  /\ record \in [tunnel: Tunnels, adapter: Adapters] \cup {NoRecord}
  /\ configured \in Tunnels \cup {NoTunnel}
  /\ mode \in [kind: {"home", "warp"}, adapter: Adapters] \cup {NoMode}
  /\ task \in Tasks
  /\ stopping \in SUBSET Adapters
  /\ loaded \in [busy: BOOLEAN, tunnel: Tunnels \cup {NoTunnel}]
  /\ booting \in BOOLEAN

Init ==
  /\ warp = "disconnected"
  /\ protocol \in Protocols
  /\ stack = [a \in Adapters |-> Both]
  /\ running = {}
  /\ record = NoRecord
  /\ configured = NoTunnel
  /\ mode = NoMode
  /\ task = NoTask
  /\ stopping = {}
  /\ loaded = NotLoading
  /\ booting = TRUE

-----------------------------------------------------------------------------
(* What the handlers call                                                  *)

At(op, pc) == task.op = op /\ task.pc = pc

Goto(to) == task' = [task EXCEPT !.pc = to]
GotoWith(to, trouble) ==
  task' = [task EXCEPT !.pc = to, !.trouble = @ \cup trouble]
Answer(result, trouble) ==
  task' = [task EXCEPT !.pc = "idle", !.result = result, !.trouble = @ \cup trouble]

\* tunnelModeMu.Lock() and the fields every handler starts with
Begin(op, pc, a) == [NoTask EXCEPT !.op = op, !.pc = pc, !.adapter = a,
                                   !.original = protocol, !.before = stack[a]]

Cleared(a) == IF mode.adapter = a THEN NoMode ELSE mode

\* applyNetworkMode changes IPv4 first, then IPv6; when it fails, any prefix
\* of its changes is in effect (all of them if only the confirmation failed).
Apply(a, wanted) == stack' = [stack EXCEPT ![a] = wanted]
ApplyFails(a, wanted) ==
  \E s \in {stack[a], (stack[a] \cap OnlyIPv6) \cup (wanted \ OnlyIPv6), wanted} :
    stack' = [stack EXCEPT ![a] = s]

\* disconnectWarpAndWait: nil only when the daemon says "Disconnected".
Disconnect == warp' = "disconnected"
DisconnectFails == warp' \in {warp, "disconnected"}

\* warp-cli connect
Connect == warp' = IF warp \in InProgress THEN warp ELSE "connecting"

\* setWarpTunnelProtocolVerified
SetProtocol(p) == protocol' = p
SetProtocolFails(p) == protocol' \in {protocol, p}

\* stopHomeTunnel returns nil,
TunnelStopped(t) ==
  /\ running' = running \ {t}
  /\ record' = IF record.tunnel = t THEN NoRecord ELSE record
\* a homeRoutingRestoreError (the service is stopped, the record stays),
TunnelUnclean(t) ==
  /\ t # NoTunnel
  /\ record.tunnel = t
  /\ running' = running \ {t}
  /\ UNCHANGED record
\* or another error: the service may or may not run.
TunnelUnconfirmed(t) ==
  /\ t # NoTunnel
  /\ running' \in {running, running \ {t}}
  /\ UNCHANGED record

-----------------------------------------------------------------------------
(* SwitchStackHandler                                                      *)

BeginSwitch(a, wanted) ==
  /\ task.pc = "idle"
  /\ LET stopsHome == mode.kind = "home" /\ mode.adapter = a /\ wanted # OnlyIPv6
     IN  task' = [Begin("switch", IF stopsHome THEN "stop" ELSE "apply", a)
                    EXCEPT !.target = wanted]
  /\ UNCHANGED <<daemon, stack, home, configured, mode, beside>>

StopForSwitch ==
  /\ At("switch", "stop")
  /\ UNCHANGED <<daemon, stack, configured, beside>>
  /\ \/ TunnelStopped(configured) /\ mode' = NoMode /\ Goto("apply")
     \/ TunnelUnclean(configured) /\ UNCHANGED mode /\ Answer("error", {"unclean"})
     \/ TunnelUnconfirmed(configured) /\ UNCHANGED mode /\ Answer("error", {})

SwitchApply ==
  /\ At("switch", "apply")
  /\ UNCHANGED <<daemon, home, configured, mode, beside>>
  /\ \/ Apply(task.adapter, task.target) /\ Answer("ok", {})
     \/ ApplyFails(task.adapter, task.target) /\ Answer("error", {"unrestored"})

-----------------------------------------------------------------------------
(* WarpHandler "start"; its first steps are also those of WarpModeHandler  *)

BeginWarpStart(a) ==
  /\ task.pc = "idle"
  /\ task' = Begin("warpStart", "stop", a)
  /\ UNCHANGED <<daemon, stack, home, configured, mode, beside>>

\* WarpModeHandler takes homeState before it stops the tunnel.
BeginWarpEnable(a) ==
  /\ task.pc = "idle"
  /\ task' = [Begin("warpEnable", "stop", a) EXCEPT
                !.home = IF mode.kind = "home" THEN mode.adapter ELSE NoAdapter]
  /\ UNCHANGED <<daemon, stack, home, configured, mode, beside>>

\* The tunnel is down: WarpHandler reads the claim now, WarpModeHandler
\* clears any claim as soon as there is no dual stack to restore.
HomeStopped ==
  LET restore == CASE task.op = "warpEnable" -> task.home
                   [] mode.kind = "home"     -> mode.adapter
                   [] OTHER                  -> NoAdapter
  IN  /\ task' = [task EXCEPT !.home = restore,
                    !.pc = IF restore = NoAdapter THEN "preflight" ELSE "restore"]
      /\ mode' = IF task.op = "warpEnable" /\ restore = NoAdapter THEN NoMode ELSE mode

\* Mutated: the error of stopConfiguredHomeTunnel is ignored
StopIgnoresError ==
  /\ At("warpStart", "stop") \/ At("warpEnable", "stop")
  /\ UNCHANGED <<daemon, stack, configured, beside>>
  /\ \/ TunnelStopped(configured)
     \/ TunnelUnclean(configured)
     \/ TunnelUnconfirmed(configured)
  /\ HomeStopped

StopBeforeWarp ==
  /\ At("warpStart", "stop") \/ At("warpEnable", "stop")
  /\ UNCHANGED <<daemon, stack, configured, beside>>
  /\ \/ TunnelStopped(configured) /\ HomeStopped
     \/ TunnelUnclean(configured) /\ UNCHANGED mode /\ Answer("error", {"unclean"})
     \/ TunnelUnconfirmed(configured) /\ UNCHANGED mode /\ Answer("error", {})

RestoreBeforeWarp ==
  /\ At("warpStart", "restore") \/ At("warpEnable", "restore")
  /\ UNCHANGED <<daemon, home, configured, beside>>
  /\ \/ Apply(task.home, Both) /\ mode' = NoMode /\ Goto("preflight")
     \/ ApplyFails(task.home, Both) /\ UNCHANGED mode /\ Answer("error", {"unrestored"})

\* probeWarpPreflight, and for the free-flow mode probeWarpSettings
Preflight ==
  /\ At("warpStart", "preflight") \/ At("warpEnable", "preflight")
  /\ \/ Goto(IF task.op = "warpStart" THEN "connect" ELSE "disconnect")
     \/ Answer("error", {})
  /\ UNCHANGED <<daemon, stack, home, configured, mode, beside>>

WarpStart ==
  /\ At("warpStart", "connect")
  /\ Connect \/ UNCHANGED warp
  /\ \E result \in {"ok", "error"} : Answer(result, {})
  /\ UNCHANGED <<protocol, stack, home, configured, mode, beside>>

-----------------------------------------------------------------------------
(* WarpModeHandler, enabled = false                                        *)

BeginWarpDisable(a) ==
  /\ task.pc = "idle"
  /\ task' = Begin("warpDisable", "disconnect", a)
  /\ UNCHANGED <<daemon, stack, home, configured, mode, beside>>

DisableDisconnect ==
  /\ At("warpDisable", "disconnect")
  /\ \/ Disconnect /\ Goto("apply")
     \/ DisconnectFails /\ task' = [task EXCEPT !.pc = "apply", !.cause = "disconnect"]
  /\ UNCHANGED <<protocol, stack, home, configured, mode, beside>>

\* The claim is kept when WARP could not be disconnected.
DisableApply ==
  /\ At("warpDisable", "apply")
  /\ UNCHANGED <<daemon, home, configured, beside>>
  /\ \/ /\ Apply(task.adapter, Both)
        /\ IF task.cause = "" THEN mode' = Cleared(task.adapter) /\ Answer("ok", {})
                              ELSE UNCHANGED mode /\ Answer("error", {})
     \/ ApplyFails(task.adapter, Both) /\ UNCHANGED mode /\ Answer("error", {"unrestored"})

-----------------------------------------------------------------------------
(* WarpModeHandler, enabled = true, after Preflight                        *)

\* "Stop any retry loop before changing protocol or the Windows IP stack."
EnableDisconnect ==
  /\ At("warpEnable", "disconnect")
  /\ \/ Disconnect /\ Goto("protocol")
     \/ DisconnectFails /\ Answer("error", {})
  /\ UNCHANGED <<protocol, stack, home, configured, mode, beside>>

PreferMASQUE ==
  /\ At("warpEnable", "protocol")
  /\ UNCHANGED <<warp, stack, home, configured, mode, beside>>
  /\ IF task.original = "MASQUE"
     THEN Goto("apply") /\ UNCHANGED protocol
     ELSE \/ /\ SetProtocol("MASQUE")
             /\ task' = [task EXCEPT !.pc = "apply", !.changed = TRUE]
          \/ SetProtocolFails("MASQUE") /\ Answer("error", {"unverified"})

EnableApply ==
  /\ At("warpEnable", "apply")
  /\ UNCHANGED <<daemon, home, configured, mode, beside>>
  /\ \/ Apply(task.adapter, OnlyIPv6) /\ Goto("underlay")
     \/ /\ ApplyFails(task.adapter, OnlyIPv6)
        /\ task' = [task EXCEPT !.pc = "undoStack", !.cause = "stack"]

\* Mutated: the answer for a missing underlay forgets the rollback
UnderlayForgetsRollback ==
  /\ At("warpEnable", "underlay")
  /\ \/ task' = [task EXCEPT !.pc = "connect", !.attempt = 1]
     \/ Answer("error", {})
  /\ UNCHANGED <<daemon, stack, home, configured, mode, beside>>

\* waitForWarpIPv6Underlay
WaitUnderlay ==
  /\ At("warpEnable", "underlay")
  /\ \/ task' = [task EXCEPT !.pc = "connect", !.attempt = 1]
     \/ task' = [task EXCEPT !.pc = "undoStack", !.cause = "underlay"]
  /\ UNCHANGED <<daemon, stack, home, configured, mode, beside>>

\* tryWarpConnection: a failed command whose status is not in progress ends
\* the attempt,
TryConnect ==
  /\ At("warpEnable", "connect")
  /\ \/ Connect /\ Goto("await")
     \/ warp \notin InProgress /\ UNCHANGED warp /\ Goto("clean")
  /\ UNCHANGED <<protocol, stack, home, configured, mode, beside>>

\* otherwise waitForWarpConnected decides: connected over IPv6 only, or a
\* terminal failure, an unstable connection or a timeout.
AwaitConnected ==
  /\ At("warpEnable", "await")
  /\ \/ warp = "connected" /\ Goto("claim")
     \/ Goto("clean")
  /\ UNCHANGED <<daemon, stack, home, configured, mode, beside>>

AfterRounds ==
  task' = [task EXCEPT !.pc = IF task.fallback THEN "undoWarp" ELSE "fallback",
                       !.cause = "connect"]

Rounds == IF task.fallback THEN FallbackAttempts ELSE PrimaryAttempts

\* tryWarpConnectionRounds disconnects after every failed attempt; when that
\* fails, or the underlay does not come back, it gives up early.
CleanRound ==
  /\ At("warpEnable", "clean")
  /\ \/ Disconnect /\ IF task.attempt < Rounds THEN Goto("again") ELSE AfterRounds
     \/ DisconnectFails /\ AfterRounds
  /\ UNCHANGED <<protocol, stack, home, configured, mode, beside>>

\* Mutated: the attempts are not counted
UncountedRound ==
  /\ At("warpEnable", "again")
  /\ Goto("connect") \/ AfterRounds
  /\ UNCHANGED <<daemon, stack, home, configured, mode, beside>>

NextRound ==
  /\ At("warpEnable", "again")
  /\ \/ task' = [task EXCEPT !.pc = "connect", !.attempt = @ + 1]
     \/ AfterRounds
  /\ UNCHANGED <<daemon, stack, home, configured, mode, beside>>

\* Mutated: protocolChanged keeps the value it had for MASQUE
FallbackKeepsChanged ==
  /\ At("warpEnable", "fallback")
  /\ \/ /\ SetProtocol("WireGuard")
        /\ task' = [task EXCEPT !.pc = "connect", !.fallback = TRUE, !.attempt = 1]
     \/ SetProtocolFails("WireGuard") /\ GotoWith("undoWarp", {"unverified"})
  /\ UNCHANGED <<warp, stack, home, configured, mode, beside>>

\* protocolChanged is updated only when the fallback protocol was verified.
Fallback ==
  /\ At("warpEnable", "fallback")
  /\ \/ /\ SetProtocol("WireGuard")
        /\ task' = [task EXCEPT !.pc = "connect", !.fallback = TRUE, !.attempt = 1,
                                !.changed = task.original # "WireGuard"]
     \/ SetProtocolFails("WireGuard") /\ GotoWith("undoWarp", {"unverified"})
  /\ UNCHANGED <<warp, stack, home, configured, mode, beside>>

UndoWarp ==
  /\ At("warpEnable", "undoWarp")
  /\ Disconnect \/ DisconnectFails
  /\ Goto("undoStack")
  /\ UNCHANGED <<protocol, stack, home, configured, mode, beside>>

UndoStack ==
  /\ At("warpEnable", "undoStack")
  /\ \/ Apply(task.adapter, Both) /\ Goto("undoProtocol")
     \/ ApplyFails(task.adapter, Both) /\ GotoWith("undoProtocol", {"unrestored"})
  /\ UNCHANGED <<daemon, home, configured, mode, beside>>

\* Which failures clear the claim differs: always after a missing underlay,
\* after failed connections only if the dual stack is back, never after a
\* failed switch of the stack.
UndoProtocol ==
  /\ At("warpEnable", "undoProtocol")
  /\ \/ ~task.changed /\ UNCHANGED protocol /\ Answer("error", {})
     \/ task.changed /\ SetProtocol(task.original) /\ Answer("error", {})
     \/ task.changed /\ SetProtocolFails(task.original) /\ Answer("error", {"undo"})
  /\ mode' = IF \/ task.cause = "underlay"
                \/ task.cause = "connect" /\ "unrestored" \notin task.trouble
             THEN Cleared(task.adapter) ELSE mode
  /\ UNCHANGED <<warp, stack, home, configured, beside>>

-----------------------------------------------------------------------------
(* HomeNetworkHandler "start"                                              *)

\* checkOwnership
OwnedBy(a, t) == record = NoRecord \/ record = [tunnel |-> t, adapter |-> a]

\* Mutated: the record of another tunnel or adapter does not refuse the start
BeginHomeUnowned(a, t) ==
  /\ task.pc = "idle"
  /\ mode.kind = "home" => configured \in {NoTunnel, t}
  /\ configured' = t
  /\ task' = [Begin("homeStart", "disconnect", a) EXCEPT !.tunnel = t]
  /\ UNCHANGED <<daemon, stack, home, mode, beside>>

BeginHomeStart(a, t) ==
  /\ task.pc = "idle"
  /\ OwnedBy(a, t)
  /\ mode.kind = "home" => configured \in {NoTunnel, t}
  /\ configured' = t
  /\ task' = [Begin("homeStart", "disconnect", a) EXCEPT !.tunnel = t]
  /\ UNCHANGED <<daemon, stack, home, mode, beside>>

\* disconnectWarpForHomeNetwork takes a status that is neither connected nor
\* in progress, that of a failed query included, for "disconnected".
HomeDisconnect ==
  /\ At("homeStart", "disconnect")
  /\ UNCHANGED <<protocol, stack, home, configured, beside>>
  /\ \/ /\ warp \notin InProgress \/ "probe" \in Disturbances
        /\ UNCHANGED warp /\ mode' = NoMode /\ Goto("apply")
     \/ warp \in InProgress /\ Disconnect /\ mode' = NoMode /\ Goto("apply")
     \/ warp \in InProgress /\ DisconnectFails /\ UNCHANGED mode /\ Answer("error", {})

HomeApply ==
  /\ At("homeStart", "apply")
  /\ \/ Apply(task.adapter, OnlyIPv6) /\ Goto("prepare")
     \/ ApplyFails(task.adapter, OnlyIPv6) /\ Goto("rollback")
  /\ UNCHANGED <<daemon, home, configured, mode, beside>>

\* homeRoutingManager.prepare saves the record before it changes anything.
Prepare ==
  LET owned == [tunnel |-> task.tunnel, adapter |-> task.adapter]
  IN  /\ At("homeStart", "prepare")
      /\ \/ record' = owned /\ Goto("service")
         \/ record' \in {record, owned} /\ Goto("rollback")
      /\ UNCHANGED <<daemon, stack, running, configured, mode, beside>>

\* ensureHomeTunnelService and waitForHomeTunnelRunning
StartService ==
  LET started == running \cup {task.tunnel}
  IN  /\ At("homeStart", "service")
      /\ \/ running' = started /\ Goto("protect")
         \/ running' \in {running, started} /\ Goto("rollback")
      /\ UNCHANGED <<daemon, stack, record, configured, mode, beside>>

\* A look at the running tunnel, with the traffic guard that follows it
\* (probeHomeTrafficGuard, evaluateHomeTrafficGuard): the start goes on, or a
\* finding, a surge or a read without any output send it to its rollback.
Check(pc, next) ==
  /\ At("homeStart", pc)
  /\ Goto(next) \/ Goto("rollback")
  /\ UNCHANGED <<daemon, stack, home, configured, mode, beside>>

\* Endpoint routes, allowed IPs and routes
Protect == Check("protect", "handshake")

\* triggerHomeTunnelTraffic and waitForHomeNetworkConnected
AwaitHandshake == Check("handshake", "internet")

\* probeHomeTunnelInternet
ProbeInternet == Check("internet", "verify")

\* Routes and guard once more: what is claimed has been seen after the probes.
VerifyAgain == Check("verify", "claim")

\* setFreeFlowRuntimeState, here and at the end of WarpModeHandler
Claim ==
  /\ task.pc = "claim"
  /\ mode' = [kind |-> IF task.op = "homeStart" THEN "home" ELSE "warp",
              adapter |-> task.adapter]
  /\ Answer("ok", {})
  /\ UNCHANGED <<daemon, stack, home, configured, beside>>

\* Mutated: a tunnel that may still run loses its IPv6-only adapter
RollbackUnconfirmed ==
  /\ At("homeStart", "rollback")
  /\ UNCHANGED <<daemon, stack, configured, beside>>
  /\ \/ TunnelStopped(task.tunnel) /\ Goto("undoStack")
     \/ TunnelUnclean(task.tunnel) /\ GotoWith("undoStack", {"unclean"})
     \/ TunnelUnconfirmed(task.tunnel) /\ GotoWith("undoStack", {"unclean"})
  /\ mode' = NoMode

\* failHomeNetworkStart: "A live tunnel must retain its protected Endpoint
\* routes and host settings."
Rollback ==
  /\ At("homeStart", "rollback")
  /\ UNCHANGED <<daemon, stack, configured, beside>>
  /\ \/ TunnelStopped(task.tunnel) /\ mode' = NoMode /\ Goto("undoStack")
     \/ /\ TunnelUnclean(task.tunnel) /\ mode' = NoMode
        /\ GotoWith("undoStack", {"unclean"})
     \/ /\ TunnelUnconfirmed(task.tunnel) /\ UNCHANGED mode
        /\ Answer("error", {"unrestored"})

UndoHomeStack ==
  /\ At("homeStart", "undoStack")
  /\ \/ Apply(task.adapter, Both) /\ Answer("error", {})
     \/ ApplyFails(task.adapter, Both) /\ Answer("error", {"unrestored"})
  /\ UNCHANGED <<daemon, home, configured, mode, beside>>

-----------------------------------------------------------------------------
(* HomeNetworkHandler "stop"                                               *)

\* The tunnel of an active home mode is the configured one, whatever the
\* request names; the adapter is the record's, else the claim's, else the
\* requested one. Without any tunnel there is only the dual stack to restore.
BeginHomeStop(a, requested) ==
  LET t == IF requested = NoTunnel \/ (mode.kind = "home" /\ configured # NoTunnel)
           THEN configured ELSE requested
      restore == CASE t # NoTunnel /\ record.tunnel = t -> record.adapter
                   [] mode.kind = "home"                -> mode.adapter
                   [] OTHER                             -> a
  IN  /\ task.pc = "idle"
      /\ task' = [Begin("homeStop", IF t = NoTunnel THEN "restore" ELSE "stop", a)
                    EXCEPT !.tunnel = t, !.home = restore]
      /\ mode' = IF t = NoTunnel THEN NoMode ELSE mode
      /\ UNCHANGED <<daemon, stack, home, configured, beside>>

StopForHomeStop ==
  /\ At("homeStop", "stop")
  /\ UNCHANGED <<daemon, stack, configured, beside>>
  /\ \/ TunnelStopped(task.tunnel) /\ mode' = NoMode /\ Goto("restore")
     \/ TunnelUnclean(task.tunnel) /\ mode' = NoMode /\ GotoWith("restore", {"unclean"})
     \/ TunnelUnconfirmed(task.tunnel) /\ UNCHANGED mode /\ Answer("error", {})

HomeStopRestore ==
  /\ At("homeStop", "restore")
  /\ UNCHANGED <<daemon, home, configured, mode, beside>>
  /\ \/ /\ Apply(task.home, Both)
        /\ Answer(IF "unclean" \in task.trouble THEN "error" ELSE "ok", {})
     \/ ApplyFails(task.home, Both) /\ Answer("error", {"unrestored"})

-----------------------------------------------------------------------------
(* What runs beside the handlers                                           *)

\* WarpHandler "stop" does not take tunnelModeMu: warp-cli disconnect,
WarpStop(a) ==
  /\ a \notin stopping
  /\ warp' = "disconnected"
  /\ stopping' = stopping \cup {a}
  /\ UNCHANGED <<protocol, stack, home, configured, mode, task, loaded, booting>>

\* then, after a look at the status, clearFreeFlowRuntimeState.
WarpStopClear(a) ==
  /\ a \in stopping
  /\ stopping' = stopping \ {a}
  /\ mode' = Cleared(a)
  /\ UNCHANGED <<daemon, stack, home, configured, task, loaded, booting>>

\* StartWarp in a new process whose settings say WarpAutoStart
AutoStart ==
  /\ "autostart" \in Disturbances
  /\ booting
  /\ booting' = FALSE
  /\ Connect
  /\ UNCHANGED <<protocol, stack, home, configured, mode, task, stopping, loaded>>

\* SettingsHandler reads the whole file, changes its own fields, and
SettingsLoad ==
  /\ "settings" \in Disturbances
  /\ ~loaded.busy
  /\ loaded' = [busy |-> TRUE, tunnel |-> configured]
  /\ UNCHANGED <<daemon, stack, home, configured, mode, task, stopping, booting>>

\* writes the whole file.
SettingsSave ==
  /\ loaded.busy
  /\ configured' = loaded.tunnel
  /\ loaded' = NotLoading
  /\ UNCHANGED <<daemon, stack, home, mode, task, stopping, booting>>

\* The daemon connects, gives up, or reconnects.
DaemonMoves ==
  /\ \/ warp = "connecting" /\ warp' \in {"connected", "unable"}
     \/ warp = "connected"  /\ warp' = "connecting"
     \/ warp = "unable" /\ "retry" \in Disturbances /\ warp' = "connecting"
  /\ UNCHANGED <<protocol, stack, home, configured, mode, task, beside>>

\* The process is killed and started again.
Crash ==
  /\ mode' = NoMode
  /\ task' = NoTask
  /\ stopping' = {}
  /\ loaded' = NotLoading
  /\ booting' = TRUE
  /\ UNCHANGED <<daemon, stack, home, configured>>

-----------------------------------------------------------------------------
\* The handler in progress takes its next step.
Proceed ==
  \/ StopForSwitch \/ SwitchApply
  \/ StopBeforeWarp \/ RestoreBeforeWarp \/ Preflight \/ WarpStart
  \/ DisableDisconnect \/ DisableApply
  \/ EnableDisconnect \/ PreferMASQUE \/ EnableApply \/ WaitUnderlay
  \/ TryConnect \/ AwaitConnected \/ CleanRound \/ NextRound \/ Fallback
  \/ UndoWarp \/ UndoStack \/ UndoProtocol
  \/ HomeDisconnect \/ HomeApply \/ Prepare \/ StartService
  \/ Protect \/ AwaitHandshake \/ ProbeInternet \/ VerifyAgain \/ Claim \/ Rollback \/ UndoHomeStack
  \/ StopForHomeStop \/ HomeStopRestore

Request ==
  \E a \in Adapters :
    \/ \E wanted \in {{"IPv4"}, OnlyIPv6, Both} : BeginSwitch(a, wanted)
    \/ BeginWarpStart(a) \/ BeginWarpEnable(a) \/ BeginWarpDisable(a)
    \/ \E t \in Tunnels : BeginHomeStart(a, t)
    \/ \E t \in Tunnels \cup {NoTunnel} : BeginHomeStop(a, t)

Beside ==
  \/ \E a \in Adapters : WarpStop(a) \/ WarpStopClear(a)
  \/ AutoStart \/ SettingsLoad \/ SettingsSave \/ DaemonMoves \/ Crash

Next == Request \/ Proceed \/ Beside

Spec == Init /\ [][Next]_vars

\* Every wait of a handler ends by its own deadline, so the goroutine that
\* holds the lock goes on whatever the daemon and the services do.
FairSpec == Spec /\ WF_vars(Proceed)

-----------------------------------------------------------------------------
(* Properties                                                              *)

Finished(ops) == task.pc = "idle" /\ task.op \in ops
Failed(ops) == Finished(ops) /\ task.result = "error"

\* A running tunnel is the one of the recovery record and of the settings:
\* whoever stops "the configured tunnel" stops the one that runs.
TunnelIsKnown ==
  \A t \in running : record.tunnel = t /\ configured = t

\* "tunnelModeMu shares WARP's mode lock so the two default-route tunnels are
\* mutually exclusive": WARP is never connected or connecting while a home
\* tunnel runs.
TunnelsExclusive == warp \in InProgress => running = {}

\* The steps before a tunnel is used have seen the other one stopped.
WarpAlone ==
  task.pc \in {"restore", "preflight", "connect", "await", "clean", "again",
               "fallback", "protocol", "underlay", "undoWarp"}
    /\ task.op \in {"warpStart", "warpEnable"} => running = {}
HomeAlone ==
  task.op = "homeStart" /\ task.pc \in {"apply", "prepare", "service"}
    => warp \notin InProgress

IInv == TypeOK /\ TunnelIsKnown /\ TunnelsExclusive /\ WarpAlone /\ HomeAlone

\* A start that fails leaves its adapter dual stack, or as it found it, unless
\* stopping the tunnel or switching the stack back failed too. When only the
\* endpoint clean-up of a stopped tunnel failed ("unclean"), a home start still
\* gives dual stack back, as README.md:26 promises; a WARP mode does not, see
\* CleanupFailureRestoresStack, and nothing is claimed of it here.
FailedStartRollsBack ==
  Failed({"warpEnable", "homeStart"}) /\ "unrestored" \notin task.trouble =>
    IF "unclean" \in task.trouble
    THEN task.op = "homeStart" => stack[task.adapter] = Both
    ELSE stack[task.adapter] \in {Both, task.before}

\* README.md:26 of disconnecting, switching to WARP and failed starts: "If the
\* tunnel has stopped but the endpoint clean-up failed, dual stack is restored
\* all the same". Not so: WarpHandler and WarpModeHandler answer the error of
\* stopConfiguredHomeTunnel (handlers.go:213-217, 330-334) and leave the
\* adapter of the stopped tunnel IPv6-only. TunnelModesCleanup.cfg shows it.
CleanupFailureRestoresStack ==
  Failed({"warpStart", "warpEnable", "homeStart", "homeStop"})
    /\ "unclean" \in task.trouble /\ "unrestored" \notin task.trouble
    => stack[record.adapter] = Both

\* A WARP mode that fails leaves the tunnel protocol it found, unless a
\* command that sets a protocol could not be verified.
ProtocolRolledBack ==
  Failed({"warpEnable"}) /\ {"unverified", "undo"} \cap task.trouble = {}
    => protocol = task.original

\* The adapter of a running tunnel gets IPv4 back only where the user asked
\* for it: by a switch of the stack, by switching WARP off, or by a stop that
\* names another tunnel. A start, and the rollback of a start, never do it.
LiveTunnelStaysIPv6Only ==
  [][\A a \in Adapters :
       "IPv4" \in stack'[a] \ stack[a] /\ record.adapter = a /\ record.tunnel \in running
         => \/ task.op \in {"switch", "warpDisable"}
            \/ task.op = "homeStop" /\ task.tunnel # record.tunnel]_vars

\* Every handler answers and releases the lock.
EveryHandlerAnswers == task.pc # "idle" ~> task.pc = "idle"
=============================================================================
