----------------------------- MODULE HomeRouting -----------------------------
(***************************************************************************)
(* internal/handlers/home_routing.go with the part of home_network.go that *)
(* drives it: taking the recovery record, disabling the adapter options    *)
(* that would loop WireGuard's packets back into the tunnel, pinning every *)
(* endpoint to the physical gateway, and undoing all of it once the tunnel *)
(* is stopped.  One operation runs at a time (tunnelModeMu); the process   *)
(* may be killed between any two steps, and other software changes options *)
(* and routes as it likes.                                                 *)
(*                                                                         *)
(* Every PowerShell script is one step; a script that fails, or is cut off *)
(* by its timeout after it took effect, is that step followed by Fails.    *)
(* The next hop of a record never changes, so it is left out.              *)
(***************************************************************************)
EXTENDS Integers

CONSTANTS
  Tunnels, Adapters,
  Options,     \* {Forwarding, WeakHostSend}
  Endpoints,   \* addresses of WireGuard peers
  Markers,     \* 32768..65535: metrics that mark a route as BKNetwork's
  Foreign,     \* the metric of routes that are not BKNetwork's
  NoRecord     \* the recovery file does not exist

ASSUME MarkerAssumption == Foreign \notin Markers
ASSUME NoRecordAssumption ==
  NoRecord \notin [tunnel: Tunnels, adapter: Adapters, flags: SUBSET Options,
                   routes: SUBSET (Endpoints \X Markers)]

VARIABLES
  record,      \* home-routing.json
  flags,       \* the options enabled on each adapter
  routes,      \* the active host routes <<adapter, endpoint, metric>>
  running,     \* the tunnels whose service is running
  pc,          \* where the operation in progress is
  adapter,     \* its adapter,
  tunnel,      \* its tunnel,
  snap,        \* the options read by prepare's snapshot,
  todo,        \* the endpoints still to be protected,
  route,       \* the <<endpoint, metric>> protectEndpoints is working on,
  pass,        \* 1: first protection, 2: the one after the connectivity tests,
  removing,    \* and the recorded routes restore has still to remove
  orig         \* history: the options as everybody but BKNetwork left them

control == <<pc, adapter, tunnel, snap, todo, route, pass, removing>>
vars == <<record, flags, routes, running, control, orig>>

Records == [tunnel: Tunnels, adapter: Adapters, flags: SUBSET Options,
            routes: SUBSET (Endpoints \X Markers)]
Routes == Adapters \X Endpoints \X (Markers \cup {Foreign})

Starting == {"prepare", "save", "disable", "service", "probe", "endpoint",
             "add", "verify"}
Restoring == {"remove", "forget"}

OwnedRoutes == {r \in routes : r[3] \in Markers}

TypeOK ==
  /\ record \in Records \cup {NoRecord}
  /\ flags \in [Adapters -> SUBSET Options]
  /\ routes \in SUBSET Routes
  /\ running \in SUBSET Tunnels
  /\ pc \in Starting \cup Restoring \cup {"idle", "stop", "restore"}
  /\ adapter \in Adapters
  /\ tunnel \in Tunnels
  /\ snap \in SUBSET Options
  /\ todo \in SUBSET Endpoints
  /\ route \in Endpoints \X Markers
  /\ pass \in {1, 2}
  /\ removing \in SUBSET (Endpoints \X Markers)
  /\ orig \in [Adapters -> SUBSET Options]

Init ==
  /\ record = NoRecord
  /\ orig \in [Adapters -> SUBSET Options]
  /\ flags = orig
  /\ routes = {}
  /\ running = {}
  /\ pc = "idle"
  /\ adapter \in Adapters
  /\ tunnel \in Tunnels
  /\ snap = {}
  /\ todo = {}
  /\ route \in Endpoints \X Markers
  /\ pass = 1
  /\ removing = {}

\* checkOwnership, also made by prepare: a record of another tunnel or
\* another adapter refuses the operation.
OwnedBy(a, t) == record # NoRecord => record.tunnel = t /\ record.adapter = a

\* The record is there and belongs to this tunnel.
RecordOf(t) == record # NoRecord /\ record.tunnel = t

Goto(to) == pc' = to

-----------------------------------------------------------------------------
(* handleHomeNetworkStart                                                  *)

StartHome(a, t) ==
  /\ pc = "idle"
  /\ OwnedBy(a, t)
  /\ Goto("prepare")
  /\ adapter' = a
  /\ tunnel' = t
  /\ pass' = 1
  /\ UNCHANGED <<record, flags, routes, running, snap, todo, route, removing, orig>>

\* prepare finds no record: the "snapshot" script.
Snapshot ==
  /\ pc = "prepare"
  /\ record = NoRecord
  /\ snap' = flags[adapter]
  /\ Goto("save")
  /\ UNCHANGED <<record, flags, routes, running, adapter, tunnel, todo, route,
                 pass, removing, orig>>

\* Mutated: an earlier start's record is replaced by a fresh snapshot
SnapshotAgain ==
  /\ pc = "prepare"
  /\ record # NoRecord
  /\ snap' = flags[adapter]
  /\ Goto("save")
  /\ UNCHANGED <<record, flags, routes, running, adapter, tunnel, todo, route,
                 pass, removing, orig>>

\* prepare finds the record of an earlier start and keeps it as it is.
KeepRecord ==
  /\ pc = "prepare"
  /\ record # NoRecord
  /\ OwnedBy(adapter, tunnel)
  /\ Goto("disable")
  /\ UNCHANGED <<record, flags, routes, running, adapter, tunnel, snap, todo,
                 route, pass, removing, orig>>

\* "Persist BEFORE the first mutation"; save replaces the file atomically.
Save ==
  /\ pc = "save"
  /\ record' = [tunnel |-> tunnel, adapter |-> adapter, flags |-> snap,
                routes |-> {}]
  /\ Goto("disable")
  /\ UNCHANGED <<flags, routes, running, adapter, tunnel, snap, todo, route,
                 pass, removing, orig>>

\* prepare's "disable" script
Disable ==
  /\ pc = "disable"
  /\ flags' = [flags EXCEPT ![adapter] = {}]
  /\ Goto("service")
  /\ UNCHANGED <<record, routes, running, adapter, tunnel, snap, todo, route,
                 pass, removing, orig>>

\* ensureHomeTunnelService and waitForHomeTunnelRunning
StartService ==
  /\ pc = "service"
  /\ running' = running \cup {tunnel}
  /\ Goto("probe")
  /\ UNCHANGED <<record, flags, routes, adapter, tunnel, snap, todo, route,
                 pass, removing, orig>>

\* protectHomeTunnelEndpoints: what `wg show endpoints` returns may differ from
\* one pass to the next; the options are disabled again.
ProtectBegin ==
  /\ pc = "probe"
  /\ RecordOf(tunnel)
  /\ todo' \in SUBSET Endpoints \ {{}}
  /\ flags' = [flags EXCEPT ![record.adapter] = {}]
  /\ Goto("endpoint")
  /\ UNCHANGED <<record, routes, running, adapter, tunnel, snap, route, pass,
                 removing, orig>>

HasRoute(e) == \E r \in routes : r[1] = record.adapter /\ r[2] = e

\* A recorded route keeps its marker, a new one draws a random marker.
MarkerFor(e, m) ==
  \/ <<e, m>> \in record.routes
  \/ \A n \in Markers : <<e, n>> \notin record.routes

\* Mutated: the route is added without having been recorded
RecordRouteUnsaved(e) ==
  /\ pc = "endpoint"
  /\ e \in todo
  /\ ~HasRoute(e)
  /\ \E m \in Markers : MarkerFor(e, m) /\ route' = <<e, m>>
  /\ Goto("add")
  /\ UNCHANGED <<record, flags, routes, running, adapter, tunnel, snap, todo,
                 pass, removing, orig>>

\* "route-exists" says no: the route is recorded before it is added.
RecordRoute(e) ==
  /\ pc = "endpoint"
  /\ e \in todo
  /\ ~HasRoute(e)
  /\ \E m \in Markers :
       /\ MarkerFor(e, m)
       /\ route' = <<e, m>>
       /\ record' = [record EXCEPT !.routes = record.routes \cup {<<e, m>>}]
  /\ Goto("add")
  /\ UNCHANGED <<flags, routes, running, adapter, tunnel, snap, todo, pass,
                 removing, orig>>

\* "route-exists" says yes: a route of any owner protects the endpoint.
RouteThere(e) ==
  /\ pc = "endpoint"
  /\ e \in todo
  /\ HasRoute(e)
  /\ \E m \in Markers : MarkerFor(e, m) /\ route' = <<e, m>>
  /\ Goto("verify")
  /\ UNCHANGED <<record, flags, routes, running, adapter, tunnel, snap, todo,
                 pass, removing, orig>>

\* "route-add" checks once more, in the same script.
AddRoute ==
  /\ pc = "add"
  /\ routes' = IF HasRoute(route[1]) THEN routes
               ELSE routes \cup {<<record.adapter, route[1], route[2]>>}
  /\ Goto("verify")
  /\ UNCHANGED <<record, flags, running, adapter, tunnel, snap, todo, route,
                 pass, removing, orig>>

\* "route-verify" finds the endpoint behind the physical gateway.
VerifyRoute ==
  /\ pc = "verify"
  /\ todo' = todo \ {route[1]}
  /\ Goto("endpoint")
  /\ UNCHANGED <<record, flags, routes, running, adapter, tunnel, snap, route,
                 pass, removing, orig>>

\* The first pass leads to the connectivity tests and the second pass, which
\* is followed by the final checks and the answer.
Protected ==
  /\ pc = "endpoint"
  /\ todo = {}
  /\ pass' = 2
  /\ Goto(IF pass = 1 THEN "probe" ELSE "idle")
  /\ UNCHANGED <<record, flags, routes, running, adapter, tunnel, snap, todo,
                 route, removing, orig>>

\* failHomeNetworkStart: from any step of a start, on to stopping the tunnel.
StartFails ==
  /\ pc \in Starting
  /\ Goto("stop")
  /\ UNCHANGED <<record, flags, routes, running, adapter, tunnel, snap, todo,
                 route, pass, removing, orig>>

-----------------------------------------------------------------------------
(* stopHomeTunnel and restore                                              *)

\* Every handler that stops the configured tunnel.
StopHome(t) ==
  /\ pc = "idle"
  /\ tunnel' = t
  /\ Goto("stop")
  /\ UNCHANGED <<record, flags, routes, running, adapter, snap, todo, route,
                 pass, removing, orig>>

\* Mutated: a tunnel found already stopped is taken as cleaned up
StopConfirmedEarlyReturn ==
  /\ pc = "stop"
  /\ running' = running \ {tunnel}
  /\ Goto(IF tunnel \in running THEN "restore" ELSE "idle")
  /\ UNCHANGED <<record, flags, routes, adapter, tunnel, snap, todo, route,
                 pass, removing, orig>>

\* The service is seen stopped (or absent).
StopConfirmed ==
  /\ pc = "stop"
  /\ running' = running \ {tunnel}
  /\ Goto("restore")
  /\ UNCHANGED <<record, flags, routes, adapter, tunnel, snap, todo, route,
                 pass, removing, orig>>

\* Mutated: the routes are cleaned up although the service may still run
StopUnconfirmedRestores ==
  /\ pc = "stop"
  /\ Goto("restore")
  /\ UNCHANGED <<record, flags, routes, running, adapter, tunnel, snap, todo,
                 route, pass, removing, orig>>

\* The query fails or the wait runs out: nothing is undone.
StopUnconfirmed ==
  /\ pc = "stop"
  /\ Goto("idle")
  /\ UNCHANGED <<record, flags, routes, running, adapter, tunnel, snap, todo,
                 route, pass, removing, orig>>

\* restore has nothing to do, or not for this tunnel.
NothingToRestore ==
  /\ pc = "restore"
  /\ ~RecordOf(tunnel)
  /\ Goto("idle")
  /\ UNCHANGED <<record, flags, routes, running, adapter, tunnel, snap, todo,
                 route, pass, removing, orig>>

RestoreBegin ==
  /\ pc = "restore"
  /\ RecordOf(tunnel)
  /\ removing' = record.routes
  /\ Goto("remove")
  /\ UNCHANGED <<record, flags, routes, running, adapter, tunnel, snap, todo,
                 route, pass, orig>>

\* Mutated: "route-remove" without the metric: any route of the endpoint goes
RemoveAnyRoute(r) ==
  /\ pc = "remove"
  /\ r \in removing
  /\ routes' = {q \in routes : ~(q[1] = record.adapter /\ q[2] = r[1])}
  /\ removing' = removing \ {r}
  /\ UNCHANGED <<record, flags, running, pc, adapter, tunnel, snap, todo, route,
                 pass, orig>>

\* "route-remove": only the route that carries the recorded marker.
RemoveRoute(r) ==
  /\ pc = "remove"
  /\ r \in removing
  /\ routes' = routes \ {<<record.adapter, r[1], r[2]>>}
  /\ removing' = removing \ {r}
  /\ UNCHANGED <<record, flags, running, pc, adapter, tunnel, snap, todo, route,
                 pass, orig>>

RestoreFlags ==
  /\ pc = "remove"
  /\ removing = {}
  /\ flags' = [flags EXCEPT ![record.adapter] = record.flags]
  /\ Goto("forget")
  /\ UNCHANGED <<record, routes, running, adapter, tunnel, snap, todo, route,
                 pass, removing, orig>>

\* os.Remove(m.statePath)
Forget ==
  /\ pc = "forget"
  /\ record' = NoRecord
  /\ Goto("idle")
  /\ UNCHANGED <<flags, routes, running, adapter, tunnel, snap, todo, route,
                 pass, removing, orig>>

\* Mutated: the record is removed although the restore failed
ForgetOnFailure ==
  /\ pc \in Restoring
  /\ record' = NoRecord
  /\ Goto("idle")
  /\ UNCHANGED <<flags, routes, running, adapter, tunnel, snap, todo, route,
                 pass, removing, orig>>

\* "Keep state on any failure."
RestoreFails ==
  /\ pc \in Restoring
  /\ Goto("idle")
  /\ UNCHANGED <<record, flags, routes, running, adapter, tunnel, snap, todo,
                 route, pass, removing, orig>>

-----------------------------------------------------------------------------
(* The process and everybody else                                          *)

\* BKNetwork is killed and started again; tunnels, options, routes and the
\* record survive it.
Crash ==
  /\ pc # "idle"
  /\ Goto("idle")
  /\ UNCHANGED <<record, flags, routes, running, adapter, tunnel, snap, todo,
                 route, pass, removing, orig>>

\* The moments between reading the options and saving them, and between
\* restoring them and removing the record, are taken as undisturbed.
Undisturbed(a) == (pc = "save" /\ adapter = a) \/ (pc = "forget" /\ record.adapter = a)

OutsideFlags(a) ==
  /\ ~Undisturbed(a)
  /\ \E f \in SUBSET Options :
       /\ flags' = [flags EXCEPT ![a] = f]
       /\ orig' = IF record # NoRecord /\ record.adapter = a THEN orig
                  ELSE [orig EXCEPT ![a] = f]
  /\ UNCHANGED <<record, routes, running, control>>

\* Windows keeps one route per adapter, destination and next hop.
OutsideAddsRoute(a, e) ==
  /\ ~\E r \in routes : r[1] = a /\ r[2] = e
  /\ routes' = routes \cup {<<a, e, Foreign>>}
  /\ UNCHANGED <<record, flags, running, control, orig>>

\* Other software, a reset of the adapter, a reboot.
OutsideRemovesRoute(r) ==
  /\ r \in routes
  /\ routes' = routes \ {r}
  /\ UNCHANGED <<record, flags, running, control, orig>>

\* The official client starts a tunnel (not in the middle of an operation).
OutsideStartsTunnel(t) ==
  /\ pc = "idle"
  /\ running' = running \cup {t}
  /\ UNCHANGED <<record, flags, routes, control, orig>>

OutsideStopsTunnel(t) ==
  /\ running' = running \ {t}
  /\ UNCHANGED <<record, flags, routes, control, orig>>

-----------------------------------------------------------------------------
Start ==
  \/ \E a \in Adapters, t \in Tunnels : StartHome(a, t)
  \/ Snapshot \/ KeepRecord \/ Save \/ Disable \/ StartService \/ ProtectBegin
  \/ \E e \in Endpoints : RecordRoute(e) \/ RouteThere(e)
  \/ AddRoute \/ VerifyRoute \/ Protected \/ StartFails

Stop ==
  \/ \E t \in Tunnels : StopHome(t)
  \/ StopConfirmed \/ StopUnconfirmed \/ NothingToRestore \/ RestoreBegin
  \/ \E r \in Endpoints \X Markers : RemoveRoute(r)
  \/ RestoreFlags \/ Forget \/ RestoreFails

Outside ==
  \/ \E a \in Adapters : OutsideFlags(a)
  \/ \E a \in Adapters, e \in Endpoints : OutsideAddsRoute(a, e)
  \/ \E r \in Routes : OutsideRemovesRoute(r)
  \/ \E t \in Tunnels : OutsideStartsTunnel(t) \/ OutsideStopsTunnel(t)

Next == Start \/ Stop \/ Crash \/ Outside

Spec == Init /\ [][Next]_vars

\* Every script and wait of an operation has a deadline, so operations go on.
\* The rest is an assumption about the world: the user keeps asking for the
\* recorded tunnel to be stopped, and what is tried again and again for it
\* succeeds again and again. It is stated for a single endpoint: of several
\* routes each attempt could fail at another one.
RetryFairness ==
  /\ SF_vars(\E t \in Tunnels : RecordOf(t) /\ StopHome(t))
  /\ SF_vars(RecordOf(tunnel) /\ StopConfirmed)
  /\ SF_vars(RestoreBegin)
  /\ SF_vars(removing # {} /\ \E r \in Endpoints \X Markers : RemoveRoute(r))
  /\ SF_vars(RestoreFlags)
  /\ SF_vars(Forget)
  /\ WF_vars(pc # "idle" /\ (Start \/ Stop))

RetrySpec == Spec /\ RetryFairness

-----------------------------------------------------------------------------
(* Correctness                                                             *)

Lease == INSTANCE RoutingLease WITH lease <- record, owned <- OwnedRoutes

\* The promise of RoutingLease: see there. In particular a crash between any
\* two steps leaves a record from which the adapter can be restored.
ImplementsLease == Lease!Spec

\* Whatever differs from what the rest of the world left behind can be undone
\* from the record on disk: options that were changed, and marked routes
\* ("so even a crash can be recovered", home_routing.go:196).
Recoverable ==
  /\ \A a \in Adapters : flags[a] # orig[a] =>
       /\ record # NoRecord
       /\ record.adapter = a
       /\ record.flags = orig[a]
  /\ \A r \in OwnedRoutes :
       /\ record # NoRecord
       /\ record.adapter = r[1]
       /\ <<r[2], r[3]>> \in record.routes

\* A step of BKNetwork, as opposed to one of the rest of the world.
OwnStep == control' # control

\* "Call only AFTER the tunnel is confirmed stopped" (home_routing.go:355): no
\* step of BKNetwork takes a protection away while the recorded tunnel runs.
ProtectionOutlivesTunnel ==
  [][OwnStep /\ record # NoRecord /\ record.tunnel \in running =>
       /\ record' # NoRecord
       /\ OwnedRoutes \subseteq OwnedRoutes'
       /\ flags'[record.adapter] \subseteq flags[record.adapter]]_vars

\* The marker "avoids deleting an ordinary metric-0 route created by another
\* component during the check/add window" (home_routing.go:271-273).
ForeignRoutesUntouched ==
  [][OwnStep => {r \in routes : r[3] = Foreign} = {r \in routes' : r[3] = Foreign}]_vars

\* Retrying the stop is enough to get rid of a record, whatever step the
\* previous attempts failed or crashed at.
RetryCleansUp == (record # NoRecord) ~> (record = NoRecord)

-----------------------------------------------------------------------------
(* The inductive invariant                                                 *)

\* What the program counter says about the record and the options.
ControlInv ==
  /\ pc = "save" => record = NoRecord /\ snap = flags[adapter]
  /\ pc \in {"disable", "service", "probe", "endpoint", "add", "verify"} =>
       record # NoRecord /\ record.tunnel = tunnel /\ record.adapter = adapter
  /\ pc = "add" => route \in record.routes
  /\ pc = "restore" => tunnel \notin running
  /\ pc \in Restoring =>
       /\ record # NoRecord
       /\ record.tunnel = tunnel
       /\ tunnel \notin running
       /\ removing \subseteq record.routes
       /\ \A r \in OwnedRoutes : <<r[2], r[3]>> \in removing
  /\ pc = "forget" => removing = {} /\ flags[record.adapter] = record.flags

RecordedFlags == record # NoRecord => record.flags = orig[record.adapter]

IInv == TypeOK /\ ControlInv /\ RecordedFlags /\ Recoverable

=============================================================================
