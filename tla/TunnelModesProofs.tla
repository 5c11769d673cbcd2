-------------------------- MODULE TunnelModesProofs --------------------------
(***************************************************************************)
(* Proofs about TunnelModes for any adapters, tunnels and numbers of       *)
(* attempts.  With every disturbance a failed start rolls the stack and    *)
(* the WARP protocol back.  Unless SettingsHandler overlaps another        *)
(* handler, a running tunnel is the recorded and the configured one and    *)
(* its adapter stays IPv6-only.  Without disturbances the two tunnels      *)
(* exclude each other.                                                     *)
(***************************************************************************)
EXTENDS TunnelModes, TLAPS

\* What the steps of a handler rely on, whatever happens beside it.
TaskOK ==
  /\ task.pc # "idle" => task.adapter \in Adapters
  /\ task.op = "homeStart" => task.tunnel \in Tunnels
  /\ task.pc = "again" => task.attempt < Rounds

\* What a step of a handler keeps of it.
SameTask ==
  /\ task'.op = task.op /\ task'.adapter = task.adapter /\ task'.tunnel = task.tunnel
  /\ task'.original = task.original /\ task'.before = task.before

LEMMA GotoTask ==
  ASSUME task \in Tasks, NEW to \in Steps, Goto(to)
  PROVE  task' \in Tasks /\ SameTask /\ task'.pc = to /\ task'.home = task.home
         /\ task'.changed = task.changed /\ task'.fallback = task.fallback
         /\ task'.attempt = task.attempt /\ task'.cause = task.cause
         /\ task'.result = task.result /\ task'.trouble = task.trouble
         /\ task'.target = task.target
  BY DEF Goto, Tasks, SameTask

LEMMA GotoWithTask ==
  ASSUME task \in Tasks, NEW to \in Steps,
         NEW trouble \in SUBSET {"unrestored", "unverified", "undo", "unclean"},
         GotoWith(to, trouble)
  PROVE  task' \in Tasks /\ SameTask /\ task'.pc = to /\ task'.home = task.home
         /\ task'.changed = task.changed /\ task'.fallback = task.fallback
         /\ task'.attempt = task.attempt /\ task'.cause = task.cause
         /\ task'.result = task.result /\ task'.trouble = task.trouble \cup trouble
         /\ task'.target = task.target
  BY DEF GotoWith, Tasks, SameTask

LEMMA AnswerTask ==
  ASSUME task \in Tasks, NEW result \in {"ok", "error"},
         NEW trouble \in SUBSET {"unrestored", "unverified", "undo", "unclean"},
         Answer(result, trouble)
  PROVE  task' \in Tasks /\ SameTask /\ task'.pc = "idle" /\ task'.result = result
         /\ task'.changed = task.changed /\ task'.trouble = task.trouble \cup trouble
  BY ZenonT(30) DEF Answer, Tasks, SameTask, Steps

LEMMA AttemptRange ==
  /\ PrimaryAttempts + FallbackAttempts \in Nat
  /\ {0, 1} \subseteq 0 .. PrimaryAttempts + FallbackAttempts
  /\ \A n \in 0 .. PrimaryAttempts + FallbackAttempts :
       n < Rounds => n + 1 \in 0 .. PrimaryAttempts + FallbackAttempts
  BY ConstantsAssumption DEF Rounds


\* The task of a handler that takes the lock for adapter a
Fresh(t, op, pc, a) ==
  /\ t \in Tasks /\ t.op = op /\ t.pc = pc /\ t.adapter = a
  /\ t.original = protocol /\ t.before = stack[a]
  /\ t.changed = FALSE /\ t.result = "" /\ t.trouble = {}

LEMMA BeginTask ==
  ASSUME TypeOK, NEW op \in Operations, NEW pc \in Steps, NEW a \in Adapters
  PROVE  Fresh(Begin(op, pc, a), op, pc, a)
  <1>1. protocol \in Protocols /\ stack[a] \in SUBSET Both
    BY DEF TypeOK
  <1>2. /\ NoTask \in Tasks /\ NoTask.changed = FALSE
        /\ NoTask.result = "" /\ NoTask.trouble = {}
    BY AttemptRange DEF NoTask, Tasks, Protocols, Both, Steps, Operations
  <1>3. Begin(op, pc, a) \in Tasks
    BY <1>1, <1>2 DEF Begin, Tasks
  <1> QED
    BY <1>1, <1>2, <1>3 DEF Begin, Tasks, Fresh

LEMMA FreshWith ==
  ASSUME NEW b, NEW op, NEW pc, NEW a, Fresh(b, op, pc, a),
         NEW wanted \in SUBSET Both, NEW t \in Tunnels \cup {NoTunnel},
         NEW h \in Adapters \cup {NoAdapter}
  PROVE  /\ Fresh([b EXCEPT !.target = wanted], op, pc, a)
         /\ Fresh([b EXCEPT !.home = h], op, pc, a)
         /\ Fresh([b EXCEPT !.tunnel = t], op, pc, a)
         /\ [b EXCEPT !.tunnel = t].tunnel = t
  <1> USE DEF Fresh
  <1>1. /\ [b EXCEPT !.target = wanted] \in Tasks
        /\ [b EXCEPT !.home = h] \in Tasks
        /\ [b EXCEPT !.tunnel = t] \in Tasks
    BY ZenonT(30) DEF Tasks
  <1>2. Fresh([b EXCEPT !.target = wanted], op, pc, a)
    BY <1>1 DEF Tasks
  <1>3. Fresh([b EXCEPT !.home = h], op, pc, a)
    BY <1>1 DEF Tasks
  <1>4. /\ Fresh([b EXCEPT !.tunnel = t], op, pc, a)
        /\ [b EXCEPT !.tunnel = t].tunnel = t
    BY <1>1 DEF Tasks
  <1> QED
    BY <1>2, <1>3, <1>4

\* What a request leaves for the first step of its handler.
Begun ==
  \E op \in Operations, pc \in {"stop", "apply", "restore", "disconnect"}, a \in Adapters :
    /\ Fresh(task', op, pc, a)
    /\ op \in {"warpStart", "warpEnable"} => pc = "stop"
    /\ op = "homeStart" => /\ pc = "disconnect"
                           /\ task'.tunnel \in Tunnels /\ configured' = task'.tunnel
    /\ op = "homeStop" /\ pc = "restore" => task'.tunnel = NoTunnel

LEMMA RequestTask ==
  ASSUME TypeOK, Request
  PROVE  task.pc = "idle" /\ Begun
  <1> PICK a \in Adapters :
        \/ \E wanted \in {{"IPv4"}, OnlyIPv6, Both} : BeginSwitch(a, wanted)
        \/ BeginWarpStart(a) \/ BeginWarpEnable(a) \/ BeginWarpDisable(a)
        \/ \E t \in Tunnels : BeginHomeStart(a, t)
        \/ \E t \in Tunnels \cup {NoTunnel} : BeginHomeStop(a, t)
    BY DEF Request
  <1> USE DEF Steps, Operations, Begun
  <1>1. ASSUME NEW wanted \in {{"IPv4"}, OnlyIPv6, Both}, BeginSwitch(a, wanted)
        PROVE  task.pc = "idle" /\ Begun
    <2> DEFINE pc == IF mode.kind = "home" /\ mode.adapter = a /\ wanted # OnlyIPv6
                     THEN "stop" ELSE "apply"
    <2>1. /\ task.pc = "idle" /\ pc \in {"stop", "apply"} /\ wanted \in SUBSET Both
          /\ task' = [Begin("switch", pc, a) EXCEPT !.target = wanted]
      BY <1>1 DEF BeginSwitch, OnlyIPv6, Both
    <2> HIDE DEF pc
    <2>2. Fresh(task', "switch", pc, a)
      <3>1. Fresh(Begin("switch", pc, a), "switch", pc, a)
        BY <2>1, BeginTask
      <3> QED
        BY <2>1, <3>1, FreshWith
    <2> QED
      BY <2>1, <2>2
  <1>2. CASE BeginWarpStart(a)
    BY <1>2, BeginTask DEF BeginWarpStart
  <1>3. CASE BeginWarpEnable(a)
    <2>1. (IF mode.kind = "home" THEN mode.adapter ELSE NoAdapter)
            \in Adapters \cup {NoAdapter}
      BY DEF TypeOK, NoMode
    <2>2. Fresh(task', "warpEnable", "stop", a)
      BY <1>3, <2>1, BeginTask, FreshWith DEF BeginWarpEnable
    <2> QED
      BY <1>3, <2>2 DEF BeginWarpEnable
  <1>4. CASE BeginWarpDisable(a)
    BY <1>4, BeginTask DEF BeginWarpDisable
  <1>5. ASSUME NEW t \in Tunnels, BeginHomeStart(a, t)
        PROVE  task.pc = "idle" /\ Begun
    <2>1. Fresh(Begin("homeStart", "disconnect", a), "homeStart", "disconnect", a)
      BY BeginTask
    <2>2. Fresh(task', "homeStart", "disconnect", a) /\ task'.tunnel = t
      BY <1>5, <2>1, FreshWith DEF BeginHomeStart
    <2> QED
      BY <1>5, <2>2 DEF BeginHomeStart
  <1>6. ASSUME NEW requested \in Tunnels \cup {NoTunnel}, BeginHomeStop(a, requested)
        PROVE  task.pc = "idle" /\ Begun
    <2> DEFINE t == IF requested = NoTunnel \/ (mode.kind = "home" /\ configured # NoTunnel)
                    THEN configured ELSE requested
               restore == CASE t # NoTunnel /\ record.tunnel = t -> record.adapter
                            [] mode.kind = "home"                -> mode.adapter
                            [] OTHER                             -> a
               pc == IF t = NoTunnel THEN "restore" ELSE "stop"
    <2>1. t \in Tunnels \cup {NoTunnel} /\ restore \in Adapters \cup {NoAdapter}
      BY DEF TypeOK, NoMode, NoRecord
    <2>2. /\ task.pc = "idle"
          /\ task' = [Begin("homeStop", pc, a) EXCEPT !.tunnel = t, !.home = restore]
      BY <1>6 DEF BeginHomeStop
    <2>3. pc \in {"stop", "restore"} /\ (pc = "restore" => t = NoTunnel)
      OBVIOUS
    <2> HIDE DEF t, restore, pc
    <2>4. Fresh(task', "homeStop", pc, a) /\ task'.tunnel = t
      <3> DEFINE b == Begin("homeStop", pc, a)
      <3>1. Fresh(b, "homeStop", pc, a)
        BY <2>3, BeginTask
      <3>2. task' = [b EXCEPT !.tunnel = t, !.home = restore]
        BY <2>2
      <3> HIDE DEF b
      <3>3. /\ Fresh([b EXCEPT !.tunnel = t, !.home = restore], "homeStop", pc, a)
            /\ [b EXCEPT !.tunnel = t, !.home = restore].tunnel = t
        BY <2>1, <3>1, ZenonT(30) DEF Fresh, Tasks
      <3> QED
        BY <3>2, <3>3
    <2> QED
      BY <2>2, <2>3, <2>4
  <1> QED
    BY <1>1, <1>2, <1>3, <1>4, <1>5, <1>6

Troubles == SUBSET {"unrestored", "unverified", "undo", "unclean"}

\* A step that only moves its handler on.
Moves ==
  \/ \E to \in Steps \ {"again"} : Goto(to)
  \/ \E to \in Steps \ {"again"}, trouble \in Troubles : GotoWith(to, trouble)
  \/ \E result \in {"ok", "error"}, trouble \in Troubles : Answer(result, trouble)

LEMMA MovesTask ==
  ASSUME TypeOK, TaskOK, task.pc # "idle", Moves
  PROVE  task' \in Tasks /\ TaskOK' /\ SameTask
  <1>1. task' \in Tasks /\ SameTask /\ task'.pc # "again"
    BY GotoTask, GotoWithTask, AnswerTask DEF Moves, Troubles, Steps, TypeOK
  <1> QED
    BY <1>1 DEF TaskOK, SameTask

LEMMA ProceedMoves ==
  ASSUME Proceed
  PROVE  \/ Moves
         \/ StopBeforeWarp \/ DisableDisconnect \/ PreferMASQUE \/ EnableApply
         \/ WaitUnderlay \/ CleanRound \/ NextRound \/ Fallback
  <1> USE DEF Moves, Steps, Troubles
  <1>1. CASE StopForSwitch \/ SwitchApply
    BY <1>1 DEF StopForSwitch, SwitchApply
  <1>2. CASE RestoreBeforeWarp \/ Preflight \/ WarpStart
    BY <1>2 DEF RestoreBeforeWarp, Preflight, WarpStart
  <1>3. CASE DisableApply \/ EnableDisconnect \/ TryConnect \/ AwaitConnected
    BY <1>3 DEF DisableApply, EnableDisconnect, TryConnect, AwaitConnected
  <1>4. CASE UndoWarp \/ UndoStack \/ UndoProtocol
    BY <1>4 DEF UndoWarp, UndoStack, UndoProtocol
  <1>5. CASE HomeDisconnect \/ HomeApply \/ Prepare \/ StartService
    BY <1>5 DEF HomeDisconnect, HomeApply, Prepare, StartService
  <1>6. CASE Protect \/ AwaitHandshake \/ ProbeInternet \/ VerifyAgain
    BY <1>6 DEF Protect, AwaitHandshake, ProbeInternet, VerifyAgain, Check
  <1>7. CASE Claim \/ Rollback \/ UndoHomeStack
    BY <1>7 DEF Claim, Rollback, UndoHomeStack
  <1>8. CASE StopForHomeStop \/ HomeStopRestore
    BY <1>8 DEF StopForHomeStop, HomeStopRestore
  <1> QED
    BY <1>1, <1>2, <1>3, <1>4, <1>5, <1>6, <1>7, <1>8 DEF Proceed

LEMMA ProceedTask ==
  ASSUME TypeOK, TaskOK, Proceed
  PROVE  task.pc # "idle" /\ task' \in Tasks /\ TaskOK' /\ SameTask
  <1>1. task.pc # "idle"
    BY DEF Proceed, At, StopForSwitch, SwitchApply, StopBeforeWarp, RestoreBeforeWarp,
      Preflight, WarpStart, DisableDisconnect, DisableApply, EnableDisconnect, PreferMASQUE,
      EnableApply, WaitUnderlay, TryConnect, AwaitConnected, CleanRound, NextRound,
      Fallback, UndoWarp, UndoStack, UndoProtocol, HomeDisconnect, HomeApply, Prepare,
      StartService, Protect, AwaitHandshake, ProbeInternet, VerifyAgain, Check, Claim,
      Rollback, UndoHomeStack, StopForHomeStop, HomeStopRestore
  <1>2. CASE Moves
    BY <1>1, <1>2, MovesTask
  <1>0. /\ task \in Tasks
        /\ "apply" \in Steps /\ "connect" \in Steps /\ "undoStack" \in Steps
    BY DEF TypeOK, Steps
  <1>3. ASSUME AfterRounds PROVE task' \in Tasks /\ SameTask /\ task'.pc # "again"
    <2>1. (IF task.fallback THEN "undoWarp" ELSE "fallback") \in Steps \ {"again"}
      BY DEF Steps
    <2> QED
      BY <1>0, <1>3, <2>1, ZenonT(30) DEF AfterRounds, Tasks, SameTask
  <1>4. CASE StopBeforeWarp
    <2>1. CASE HomeStopped
      <3> DEFINE restore == CASE task.op = "warpEnable" -> task.home
                              [] mode.kind = "home"     -> mode.adapter
                              [] OTHER                  -> NoAdapter
                 to == IF restore = NoAdapter THEN "preflight" ELSE "restore"
      <3>1. restore \in Adapters \cup {NoAdapter}
        <4>1. task.home \in Adapters \cup {NoAdapter}
          BY <1>0 DEF Tasks
        <4>2. CASE mode \in [kind: {"home", "warp"}, adapter: Adapters]
          BY <4>1, <4>2
        <4>3. CASE mode = NoMode
          BY <4>1, <4>3 DEF NoMode
        <4> QED
          BY <4>2, <4>3 DEF TypeOK
      <3>2. task' = [task EXCEPT !.home = restore, !.pc = to]
        BY <2>1 DEF HomeStopped
      <3> HIDE DEF restore
      <3>4. to \in Steps \ {"again"}
        BY DEF Steps
      <3> HIDE DEF to
      <3>3. task' \in Tasks /\ SameTask /\ task'.pc = to
        BY <1>0, <3>1, <3>2, <3>4 DEF Tasks, SameTask
      <3> QED
        BY <1>1, <3>1, <3>3, <3>4 DEF SameTask, TaskOK
    <2>2. CASE Moves
      BY <2>2, <1>2
    <2> QED
      BY <1>4, <2>1, <2>2 DEF StopBeforeWarp, Moves, Troubles
  <1>5. CASE DisableDisconnect \/ PreferMASQUE
    <2>1. CASE task' = [task EXCEPT !.pc = "apply", !.cause = "disconnect"]
      BY <1>0, <1>1, <2>1 DEF Tasks, SameTask, TaskOK
    <2>2. CASE task' = [task EXCEPT !.pc = "apply", !.changed = TRUE]
      BY <1>0, <1>1, <2>2 DEF Tasks, SameTask, TaskOK
    <2> QED
      BY <1>2, <1>5, <2>1, <2>2
      DEF DisableDisconnect, PreferMASQUE, Moves, Troubles, Steps
  <1>6. CASE EnableApply \/ WaitUnderlay
    <2>1. CASE task' = [task EXCEPT !.pc = "connect", !.attempt = 1]
      BY <1>0, <1>1, <2>1, AttemptRange DEF Tasks, SameTask, TaskOK
    <2>2. CASE task' = [task EXCEPT !.pc = "undoStack", !.cause = "underlay"]
      BY <1>0, <1>1, <2>2 DEF Tasks, SameTask, TaskOK
    <2>3. CASE task' = [task EXCEPT !.pc = "undoStack", !.cause = "stack"]
      BY <1>0, <1>1, <2>3 DEF Tasks, SameTask, TaskOK
    <2> QED
      BY <1>2, <1>6, <2>1, <2>2, <2>3
      DEF EnableApply, WaitUnderlay, Moves, Troubles, Steps
  <1>7. CASE CleanRound
    <2>1. CASE AfterRounds
      BY <1>1, <1>3, <2>1 DEF TaskOK, SameTask
    <2>2. CASE task.attempt < Rounds /\ Goto("again")
      <3>1. task' \in Tasks /\ SameTask /\ task'.attempt = task.attempt
            /\ task'.fallback = task.fallback
        BY <2>2, GotoTask DEF TypeOK, Steps
      <3> QED
        BY <1>1, <2>2, <3>1 DEF TaskOK, SameTask, Rounds
    <2> QED
      BY <1>7, <2>1, <2>2 DEF CleanRound
  <1>8. CASE NextRound
    <2>1. CASE AfterRounds
      BY <1>1, <1>3, <2>1 DEF TaskOK, SameTask
    <2>2. CASE task' = [task EXCEPT !.pc = "connect", !.attempt = @ + 1]
      <3>1. task.attempt + 1 \in 0 .. PrimaryAttempts + FallbackAttempts
        BY <1>8, AttemptRange DEF NextRound, At, TaskOK, TypeOK, Tasks
      <3>2. task' \in Tasks /\ SameTask /\ task'.pc = "connect"
        BY <1>0, <2>2, <3>1 DEF Tasks, SameTask
      <3> QED
        BY <1>1, <3>2 DEF SameTask, TaskOK
    <2> QED
      BY <1>8, <2>1, <2>2 DEF NextRound
  <1>9. CASE Fallback
    <2>1. CASE task' = [task EXCEPT !.pc = "connect", !.fallback = TRUE, !.attempt = 1,
                                    !.changed = task.original # "WireGuard"]
      <3>1. task' \in Tasks /\ SameTask /\ task'.pc = "connect"
        BY <1>0, <2>1, AttemptRange DEF Tasks, SameTask
      <3> QED
        BY <1>1, <3>1 DEF SameTask, TaskOK
    <2> QED
      BY <1>2, <1>9, <2>1 DEF Fallback, Moves, Troubles, Steps
  <1> QED
    BY <1>2, <1>4, <1>5, <1>6, <1>7, <1>8, <1>9, ProceedMoves

-----------------------------------------------------------------------------
(* The other variables                                                     *)

VarsOK ==
  /\ warp \in {"disconnected", "connecting", "connected", "unable"}
  /\ protocol \in Protocols
  /\ stack \in [Adapters -> SUBSET Both]
  /\ running \in SUBSET Tunnels
  /\ record \in [tunnel: Tunnels, adapter: Adapters] \cup {NoRecord}
  /\ configured \in Tunnels \cup {NoTunnel}
  /\ mode \in [kind: {"home", "warp"}, adapter: Adapters] \cup {NoMode}
  /\ stopping \in SUBSET Adapters
  /\ loaded \in [busy: BOOLEAN, tunnel: Tunnels \cup {NoTunnel}]
  /\ booting \in BOOLEAN

LEMMA ApplyType ==
  ASSUME VarsOK, NEW a, NEW wanted \in SUBSET Both,
         Apply(a, wanted) \/ ApplyFails(a, wanted)
  PROVE  stack' \in [Adapters -> SUBSET Both]
  <1>1. PICK s : stack' = [stack EXCEPT ![a] = s]
                 /\ s \in {stack[a], (stack[a] \cap OnlyIPv6) \cup (wanted \ OnlyIPv6), wanted}
    BY DEF Apply, ApplyFails
  <1>2. CASE a \in Adapters
    <2>1. stack[a] \in SUBSET Both
      BY <1>2 DEF VarsOK
    <2>2. s \in SUBSET Both
      BY <1>1, <2>1
    <2> QED
      BY <1>1, <2>2 DEF VarsOK
  <1>3. CASE a \notin Adapters
    BY <1>1, <1>3 DEF VarsOK
  <1> QED
    BY <1>2, <1>3

LEMMA VarsStep ==
  ASSUME TypeOK, TaskOK, Proceed
  PROVE  VarsOK'
  <1>0. VarsOK
    BY DEF TypeOK, VarsOK
  <1>1. /\ task.pc # "idle" => task.adapter \in Adapters
        /\ task.op = "homeStart" => task.tunnel \in Tunnels
        /\ task.target \in SUBSET Both /\ task.original \in Protocols
        /\ {Both, OnlyIPv6} \subseteq SUBSET Both
    BY ZenonT(30) DEF TypeOK, TaskOK, Tasks, Both, OnlyIPv6
  <1> USE <1>0, <1>1 DEF VarsOK, At, daemon, home, beside
  <1>2. CASE StopForSwitch
    BY <1>2 DEF StopForSwitch, TunnelStopped, TunnelUnclean, TunnelUnconfirmed
  <1>3. CASE SwitchApply
    BY <1>3, ApplyType DEF SwitchApply
  <1>4. CASE StopBeforeWarp
    BY <1>4 DEF StopBeforeWarp, HomeStopped, TunnelStopped, TunnelUnclean, TunnelUnconfirmed
  <1>5. CASE RestoreBeforeWarp
    BY <1>5, ApplyType DEF RestoreBeforeWarp
  <1>6. CASE Preflight \/ AwaitConnected \/ WaitUnderlay \/ NextRound
    BY <1>6 DEF Preflight, AwaitConnected, WaitUnderlay, NextRound
  <1>7. CASE WarpStart \/ TryConnect
    BY <1>7 DEF WarpStart, TryConnect, Connect
  <1>8. CASE DisableDisconnect \/ EnableDisconnect \/ CleanRound \/ UndoWarp
    BY <1>8 DEF DisableDisconnect, EnableDisconnect, CleanRound, UndoWarp, Disconnect,
      DisconnectFails
  <1>9. CASE DisableApply
    BY <1>9, ApplyType DEF DisableApply, Cleared
  <1>10. CASE EnableApply \/ UndoStack \/ HomeApply \/ UndoHomeStack \/ HomeStopRestore
    BY <1>10, ApplyType DEF EnableApply, UndoStack, HomeApply, UndoHomeStack, HomeStopRestore
  <1>11. CASE PreferMASQUE \/ Fallback
    BY <1>11 DEF PreferMASQUE, Fallback, SetProtocol, SetProtocolFails, Protocols
  <1>12. CASE UndoProtocol
    BY <1>12 DEF UndoProtocol, SetProtocol, SetProtocolFails, Cleared
  <1>13. CASE HomeDisconnect
    BY <1>13 DEF HomeDisconnect, Disconnect, DisconnectFails
  <1>14. CASE Prepare
    BY <1>14 DEF Prepare
  <1>15. CASE StartService
    BY <1>15 DEF StartService
  <1>16. CASE Protect \/ AwaitHandshake \/ ProbeInternet \/ VerifyAgain
    BY <1>16 DEF Protect, AwaitHandshake, ProbeInternet, VerifyAgain, Check
  <1>17. CASE Claim
    BY <1>17 DEF Claim
  <1>18. CASE Rollback
    BY <1>18 DEF Rollback, TunnelStopped, TunnelUnclean, TunnelUnconfirmed
  <1>19. CASE StopForHomeStop
    BY <1>19 DEF StopForHomeStop, TunnelStopped, TunnelUnclean, TunnelUnconfirmed
  <1> QED
    BY <1>2, <1>3, <1>4, <1>5, <1>6, <1>7, <1>8, <1>9, <1>10, <1>11, <1>12, <1>13,
       <1>14, <1>15, <1>16, <1>17, <1>18, <1>19 DEF Proceed

LEMMA TypeStep ==
  ASSUME TypeOK, TaskOK, [Next]_vars
  PROVE  TypeOK' /\ TaskOK'
  <1> SUFFICES VarsOK' /\ task' \in Tasks /\ TaskOK'
    BY DEF TypeOK, VarsOK
  <1>1. CASE Proceed
    BY <1>1, VarsStep, ProceedTask
  <1>2. CASE Request
    <2>1. task' \in Tasks /\ TaskOK'
      BY <1>2, RequestTask, ZenonT(30) DEF Begun, Fresh, TaskOK
    <2>2. VarsOK'
      BY <1>2, ZenonT(30)
      DEF Request, BeginSwitch, BeginWarpStart, BeginWarpEnable, BeginWarpDisable,
        BeginHomeStart, BeginHomeStop, daemon, home, beside, TypeOK, VarsOK
    <2> QED
      BY <2>1, <2>2
  <1>3. CASE Beside
    <2>1. task' \in Tasks /\ TaskOK'
      <3>1. task' = task \/ task' = NoTask
        BY <1>3 DEF Beside, WarpStop, WarpStopClear, AutoStart, SettingsLoad, SettingsSave,
          DaemonMoves, Crash
      <3>2. NoTask \in Tasks /\ NoTask.pc = "idle" /\ NoTask.op = "none"
        BY AttemptRange DEF NoTask, Tasks, Protocols, Both, Steps, Operations
      <3> QED
        BY <3>1, <3>2 DEF TypeOK, TaskOK, Rounds
    <2>2. VarsOK'
      <3>0. VarsOK
        BY DEF TypeOK, VarsOK
      <3> USE DEF VarsOK, daemon, home, beside
      <3>1. CASE \E a \in Adapters : WarpStop(a) \/ WarpStopClear(a)
        BY <3>0, <3>1 DEF WarpStop, WarpStopClear, Cleared
      <3>2. CASE AutoStart
        BY <3>0, <3>2 DEF AutoStart, Connect
      <3>3. CASE DaemonMoves
        BY <3>0, <3>3 DEF DaemonMoves
      <3>4. CASE SettingsLoad
        BY <3>0, <3>4 DEF SettingsLoad
      <3>5. CASE SettingsSave
        BY <3>0, <3>5 DEF SettingsSave, NotLoading
      <3>6. CASE Crash
        BY <3>0, <3>6 DEF Crash, NotLoading
      <3> QED
        BY <1>3, <3>1, <3>2, <3>3, <3>4, <3>5, <3>6 DEF Beside
    <2> QED
      BY <2>1, <2>2
  <1>4. CASE UNCHANGED vars
    BY <1>4 DEF vars, daemon, home, beside, TypeOK, VarsOK, TaskOK, Rounds
  <1> QED
    BY <1>1, <1>2, <1>3, <1>4 DEF Next

LEMMA TypeInit ==
  ASSUME Init
  PROVE  TypeOK /\ TaskOK
  BY AttemptRange DEF Init, TypeOK, TaskOK, NoTask, Tasks, Protocols, Both, Steps, Operations,
    NotLoading

\* Whatever happens beside the handlers, the variables keep their types.
THEOREM TypeCorrect == Spec => []TypeOK
  <1>1. Init => TypeOK /\ TaskOK
    BY TypeInit
  <1>2. TypeOK /\ TaskOK /\ [Next]_vars => TypeOK' /\ TaskOK'
    BY TypeStep
  <1> QED
    BY <1>1, <1>2, PTL DEF Spec

-----------------------------------------------------------------------------
(* Where the longer steps of a handler go, and what they keep              *)

Keeps == task'.changed = task.changed /\ task'.trouble = task.trouble

LEMMA AfterRoundsTask ==
  ASSUME task \in Tasks, AfterRounds
  PROVE  task'.pc \in {"fallback", "undoWarp"} /\ Keeps
  BY DEF AfterRounds, Tasks, Keeps

LEMMA HomeStoppedTask ==
  ASSUME task \in Tasks, HomeStopped
  PROVE  task'.pc \in {"preflight", "restore"} /\ Keeps
  <1> DEFINE restore == CASE task.op = "warpEnable" -> task.home
                          [] mode.kind = "home"     -> mode.adapter
                          [] OTHER                  -> NoAdapter
             to == IF restore = NoAdapter THEN "preflight" ELSE "restore"
  <1>1. task' = [task EXCEPT !.home = restore, !.pc = to] /\ to \in {"preflight", "restore"}
    BY DEF HomeStopped
  <1> HIDE DEF restore, to
  <1> QED
    BY <1>1 DEF Tasks, Keeps

LEMMA JumpTask ==
  ASSUME task \in Tasks
  PROVE  /\ EnableApply => task'.pc \in {"underlay", "undoStack"} /\ Keeps
         /\ WaitUnderlay => task'.pc \in {"connect", "undoStack"} /\ Keeps
         /\ CleanRound => task'.pc \in {"again", "fallback", "undoWarp"} /\ Keeps
         /\ NextRound => task'.pc \in {"connect", "fallback", "undoWarp"} /\ Keeps
         /\ Fallback => \/ /\ task'.pc = "connect" /\ SetProtocol("WireGuard")
                           /\ task'.changed = (task.original # "WireGuard")
                        \/ /\ task'.pc = "undoWarp" /\ task'.changed = task.changed
                           /\ "unverified" \in task'.trouble
         /\ PreferMASQUE => \/ /\ task'.pc = "apply" /\ task'.changed /\ SetProtocol("MASQUE")
                            \/ /\ task.original = "MASQUE" /\ task'.pc = "apply" /\ Keeps
                               /\ UNCHANGED protocol
                            \/ /\ task'.pc = "idle" /\ "unverified" \in task'.trouble
                               /\ task'.result = "error"
  <1> USE DEF Keeps
  <1>1. EnableApply => task'.pc \in {"underlay", "undoStack"} /\ Keeps
    <2>1. CASE Goto("underlay")
      BY <2>1, GotoTask DEF Steps
    <2>2. CASE task' = [task EXCEPT !.pc = "undoStack", !.cause = "stack"]
      BY <2>2 DEF Tasks
    <2> QED
      BY <2>1, <2>2 DEF EnableApply
  <1>2. WaitUnderlay => task'.pc \in {"connect", "undoStack"} /\ Keeps
    BY DEF WaitUnderlay, Tasks
  <1>3. CleanRound => task'.pc \in {"again", "fallback", "undoWarp"} /\ Keeps
    BY AfterRoundsTask, GotoTask DEF CleanRound, Steps
  <1>4. NextRound => task'.pc \in {"connect", "fallback", "undoWarp"} /\ Keeps
    BY AfterRoundsTask DEF NextRound, Tasks
  <1>5. ASSUME Fallback
        PROVE  \/ /\ task'.pc = "connect" /\ SetProtocol("WireGuard")
                  /\ task'.changed = (task.original # "WireGuard")
               \/ /\ task'.pc = "undoWarp" /\ task'.changed = task.changed
                  /\ "unverified" \in task'.trouble
    <2>1. CASE task' = [task EXCEPT !.pc = "connect", !.fallback = TRUE, !.attempt = 1,
                                    !.changed = task.original # "WireGuard"]
               /\ SetProtocol("WireGuard")
      BY <2>1 DEF Tasks
    <2>2. CASE GotoWith("undoWarp", {"unverified"})
      BY <2>2, GotoWithTask DEF Steps
    <2> QED
      BY <1>5, <2>1, <2>2 DEF Fallback
  <1>6. ASSUME PreferMASQUE
        PROVE  \/ /\ task'.pc = "apply" /\ task'.changed /\ SetProtocol("MASQUE")
               \/ /\ task.original = "MASQUE" /\ task'.pc = "apply" /\ Keeps
                  /\ UNCHANGED protocol
               \/ /\ task'.pc = "idle" /\ "unverified" \in task'.trouble
                  /\ task'.result = "error"
    <2>1. CASE task.original = "MASQUE" /\ Goto("apply") /\ UNCHANGED protocol
      BY <2>1, GotoTask DEF Steps
    <2>2. CASE SetProtocol("MASQUE") /\ task' = [task EXCEPT !.pc = "apply", !.changed = TRUE]
      BY <2>2 DEF Tasks
    <2>3. CASE Answer("error", {"unverified"})
      BY <2>3, AnswerTask
    <2> QED
      BY <1>6, <2>1, <2>2, <2>3 DEF PreferMASQUE
  <1> QED
    BY <1>1, <1>2, <1>3, <1>4, <1>5, <1>6

-----------------------------------------------------------------------------
(* A start that fails rolls back                                           *)

BeforeApply == {"stop", "restore", "preflight", "disconnect", "protocol"}

\* Until the stack is switched the adapter is as the start found it, or was
\* given dual stack for the end of the other mode; after the rollback it has
\* dual stack again, or the failure is known.
RollbackInv ==
  /\ task.op = "warpEnable" /\ task.pc \in BeforeApply \cup {"apply"}
       => stack[task.adapter] \in {Both, task.before}
  /\ task.op = "warpEnable" /\ task.pc = "undoProtocol" /\ "unrestored" \notin task.trouble
       => stack[task.adapter] = Both
  /\ task.op = "homeStart" /\ task.pc \in {"disconnect", "apply"}
       => stack[task.adapter] = task.before /\ "unclean" \notin task.trouble
  /\ FailedStartRollsBack

LEMMA RollbackStep ==
  ASSUME TypeOK, TaskOK, RollbackInv, [Next]_vars
  PROVE  RollbackInv'
  <1>0. /\ task \in Tasks /\ stack \in [Adapters -> SUBSET Both]
        /\ task.pc # "idle" => task.adapter \in Adapters
    BY DEF TypeOK, TaskOK
  <1> USE DEF RollbackInv, FailedStartRollsBack, Failed, Finished, BeforeApply
  <1>1. CASE Request
    BY <1>1, RequestTask, ZenonT(30)
    DEF Begun, Fresh, Request, BeginSwitch, BeginWarpStart, BeginWarpEnable, BeginWarpDisable,
      BeginHomeStart, BeginHomeStop
  <1>2. CASE Beside
    <2>1. UNCHANGED stack /\ (task' = task \/ task' = NoTask)
      BY <1>2 DEF Beside, WarpStop, WarpStopClear, AutoStart, SettingsLoad, SettingsSave,
        DaemonMoves, Crash
    <2>2. NoTask.op = "none"
      BY DEF NoTask
    <2>3. CASE task' = NoTask
      BY <2>2, <2>3
    <2>4. CASE task' = task
      BY <2>1, <2>4
    <2> QED
      BY <2>1, <2>3, <2>4
  <1>3. CASE UNCHANGED vars
    BY <1>3 DEF vars
  <1>4. CASE Proceed
    <2>0. task.pc # "idle" /\ SameTask
      BY <1>4, ProceedTask
    \* The other handlers
    <2>1. CASE task.op \notin {"warpEnable", "homeStart"}
      BY <2>0, <2>1 DEF SameTask
    \* Between the switch of the stack and the rollback
    <2>2. CASE task'.pc \notin BeforeApply \cup {"apply", "undoProtocol", "idle"}
      BY <2>0, <2>2 DEF SameTask
    <2>3. CASE StopBeforeWarp \/ Preflight \/ EnableDisconnect \/ PreferMASQUE
      <3>1. /\ UNCHANGED stack /\ task.op \in {"warpStart", "warpEnable"}
            /\ task.pc \in BeforeApply
        BY <2>3 DEF StopBeforeWarp, Preflight, EnableDisconnect, PreferMASQUE, At
      <3>2. task'.pc \in BeforeApply \cup {"apply", "connect", "idle"}
        <4>1. CASE StopBeforeWarp
          BY <4>1, <1>0, HomeStoppedTask, AnswerTask DEF StopBeforeWarp
        <4>2. CASE Preflight \/ EnableDisconnect
          BY <4>2, <1>0, GotoTask, AnswerTask DEF Preflight, EnableDisconnect, Steps
        <4>3. CASE PreferMASQUE
          BY <4>3, <1>0, JumpTask
        <4> QED
          BY <2>3, <4>1, <4>2, <4>3
      <3> QED
        BY <2>0, <3>1, <3>2 DEF SameTask
    <2>4. CASE RestoreBeforeWarp
      <3>1. CASE Apply(task.home, Both) /\ Goto("preflight")
        <4>1. task'.pc = "preflight"
          BY <3>1, <1>0, GotoTask DEF Steps
        <4>2. stack'[task.adapter] \in {stack[task.adapter], Both}
          BY <2>0, <1>0, <3>1 DEF Apply
        <4> QED
          BY <2>0, <2>4, <4>1, <4>2 DEF SameTask, RestoreBeforeWarp, At
      <3>2. CASE Answer("error", {"unrestored"})
        <4>1. task'.pc = "idle" /\ "unrestored" \in task'.trouble
          BY <3>2, <1>0, AnswerTask
        <4> QED
          BY <4>1
      <3> QED
        BY <2>4, <3>1, <3>2 DEF RestoreBeforeWarp
    <2>5. CASE UndoStack
      <3>1. CASE Apply(task.adapter, Both) /\ Goto("undoProtocol")
        <4>1. task'.pc = "undoProtocol"
          BY <3>1, <1>0, GotoTask DEF Steps
        <4>2. stack'[task.adapter] = Both
          BY <2>0, <1>0, <3>1 DEF Apply
        <4> QED
          BY <2>0, <2>5, <4>1, <4>2 DEF SameTask, UndoStack, At
      <3>2. CASE GotoWith("undoProtocol", {"unrestored"})
        <4>1. task'.pc = "undoProtocol" /\ "unrestored" \in task'.trouble
          BY <3>2, <1>0, GotoWithTask DEF Steps
        <4> QED
          BY <2>0, <2>5, <4>1 DEF SameTask, UndoStack, At
      <3> QED
        BY <2>5, <3>1, <3>2 DEF UndoStack
    <2>6. CASE UndoProtocol
      <3>1. task'.pc = "idle" /\ task.trouble \subseteq task'.trouble
        BY <2>6, <1>0, AnswerTask DEF UndoProtocol
      <3> QED
        BY <2>0, <2>6, <3>1 DEF SameTask, UndoProtocol, At
    <2>7. CASE HomeDisconnect
      <3>1. task'.pc \in {"apply", "idle"} /\ task'.trouble = task.trouble
        BY <2>7, <1>0, GotoTask, AnswerTask DEF HomeDisconnect, Steps
      <3> QED
        BY <2>0, <2>7, <3>1 DEF SameTask, HomeDisconnect, At
    <2>8. CASE UndoHomeStack
      <3>1. CASE Apply(task.adapter, Both) /\ Answer("error", {})
        <4>1. task'.pc = "idle" /\ stack'[task.adapter] = Both
          BY <2>0, <3>1, <1>0, AnswerTask DEF Apply
        <4> QED
          BY <2>0, <2>8, <4>1 DEF SameTask
      <3>2. CASE Answer("error", {"unrestored"})
        <4>1. task'.pc = "idle" /\ "unrestored" \in task'.trouble
          BY <3>2, <1>0, AnswerTask
        <4> QED
          BY <4>1
      <3> QED
        BY <2>8, <3>1, <3>2 DEF UndoHomeStack
    <2>9. CASE Rollback
      <3>1. \/ task'.pc = "undoStack"
            \/ task'.pc = "idle" /\ "unrestored" \in task'.trouble
        BY <2>9, <1>0, GotoTask, GotoWithTask, AnswerTask DEF Rollback, Steps
      <3> QED
        BY <2>2, <3>1
    <2>10. CASE Claim
      <3>1. task'.pc = "idle" /\ task'.result = "ok"
        BY <2>10, <1>0, AnswerTask DEF Claim
      <3> QED
        BY <3>1
    <2>11. CASE \/ EnableApply \/ WaitUnderlay \/ TryConnect \/ AwaitConnected \/ CleanRound
                \/ NextRound \/ Fallback \/ UndoWarp
      <3>1. task'.pc \notin BeforeApply \cup {"apply", "undoProtocol", "idle"}
        BY <2>11, <1>0, JumpTask, GotoTask DEF TryConnect, AwaitConnected, UndoWarp, Steps
      <3> QED
        BY <2>2, <3>1
    <2>12. CASE HomeApply \/ Prepare \/ StartService
      <3>1. task'.pc \in {"prepare", "service", "protect", "rollback"}
        BY <2>12, <1>0, GotoTask DEF HomeApply, Prepare, StartService, Steps
      <3> QED
        BY <2>2, <3>1
    <2>13. CASE Protect \/ AwaitHandshake \/ ProbeInternet \/ VerifyAgain
      <3>1. task'.pc \in {"handshake", "internet", "verify", "claim", "rollback"}
        BY <2>13, <1>0, GotoTask
        DEF Protect, AwaitHandshake, ProbeInternet, VerifyAgain, Check, Steps
      <3> QED
        BY <2>2, <3>1
    <2>14. CASE \/ StopForSwitch \/ SwitchApply \/ WarpStart \/ DisableDisconnect
                \/ DisableApply \/ StopForHomeStop \/ HomeStopRestore
      BY <2>1, <2>14 DEF StopForSwitch, SwitchApply, WarpStart, DisableDisconnect,
        DisableApply, StopForHomeStop, HomeStopRestore, At
    <2> QED
      BY <1>4, <2>3, <2>4, <2>5, <2>6, <2>7, <2>8, <2>9, <2>10, <2>11, <2>12, <2>13, <2>14
      DEF Proceed
  <1> QED
    BY <1>1, <1>2, <1>3, <1>4 DEF Next

\* FailedStartRollsBack, whatever happens beside the handlers: a start that
\* fails leaves its adapter dual stack, or as it found it, unless stopping the
\* tunnel or switching the stack back failed too. After a failed endpoint
\* clean-up it says so of the home start only, for the WARP mode does not.
THEOREM RollsBack == Spec => []FailedStartRollsBack
  <1>1. Init => TypeOK /\ TaskOK /\ RollbackInv
    <2>1. Init => RollbackInv
      <3>1. NoTask.op = "none"
        BY DEF NoTask
      <3> QED
        BY <3>1 DEF Init, RollbackInv, FailedStartRollsBack, Failed, Finished
    <2> QED
      BY <2>1, TypeInit
  <1>2. TypeOK /\ TaskOK /\ RollbackInv /\ [Next]_vars => TypeOK' /\ TaskOK' /\ RollbackInv'
    BY TypeStep, RollbackStep
  <1>3. RollbackInv => FailedStartRollsBack
    BY DEF RollbackInv
  <1> QED
    BY <1>1, <1>2, <1>3, PTL DEF Spec

-----------------------------------------------------------------------------
(* A WARP mode that fails leaves the protocol                              *)

\* The protocol is the one the mode found until it prefers MASQUE, and later
\* unless protocolChanged says otherwise or a command was not verified.
ProtocolInv ==
  /\ task.op = "warpEnable" /\ task.pc \in BeforeApply => protocol = task.original
  /\ task.op = "warpEnable" /\ task.pc # "idle" /\ ~task.changed
       => protocol = task.original \/ "unverified" \in task.trouble
  /\ ProtocolRolledBack

LEMMA ProtocolStep ==
  ASSUME TypeOK, TaskOK, ProtocolInv, [Next]_vars
  PROVE  ProtocolInv'
  <1>0. task \in Tasks
    BY DEF TypeOK
  <1> USE DEF ProtocolInv, ProtocolRolledBack, Failed, Finished
  <1>1. CASE Request
    BY <1>1, RequestTask, ZenonT(30)
    DEF Begun, Fresh, Request, BeginSwitch, BeginWarpStart, BeginWarpEnable, BeginWarpDisable,
      BeginHomeStart, BeginHomeStop, daemon
  <1>2. CASE Beside
    <2>1. UNCHANGED protocol /\ (task' = task \/ task' = NoTask)
      BY <1>2 DEF Beside, WarpStop, WarpStopClear, AutoStart, SettingsLoad, SettingsSave,
        DaemonMoves, Crash, daemon
    <2>2. NoTask.op = "none"
      BY DEF NoTask
    <2>3. CASE task' = NoTask
      BY <2>2, <2>3
    <2>4. CASE task' = task
      BY <2>1, <2>4
    <2> QED
      BY <2>1, <2>3, <2>4
  <1>3. CASE UNCHANGED vars
    BY <1>3 DEF vars, daemon
  <1>4. CASE Proceed
    <2>0. task.pc # "idle" /\ SameTask
      BY <1>4, ProceedTask
    \* The other handlers
    <2>1. CASE task.op # "warpEnable"
      BY <2>0, <2>1 DEF SameTask
    <2>2. CASE PreferMASQUE
      BY <1>0, <2>0, <2>2, JumpTask DEF SameTask, PreferMASQUE, At, BeforeApply, Keeps
    <2>3. CASE Fallback
      BY <1>0, <2>0, <2>3, JumpTask DEF SameTask, Fallback, At, BeforeApply, SetProtocol
    <2>4. CASE UndoProtocol
      <3>1. /\ task'.pc = "idle" /\ task.trouble \subseteq task'.trouble
            /\ \/ ~task.changed /\ UNCHANGED protocol
               \/ SetProtocol(task.original)
               \/ "undo" \in task'.trouble
        BY <2>4, <1>0, AnswerTask DEF UndoProtocol
      <3> QED
        BY <2>0, <2>4, <3>1 DEF SameTask, UndoProtocol, At, SetProtocol, BeforeApply
    <2>5. CASE StopBeforeWarp \/ RestoreBeforeWarp \/ Preflight \/ EnableDisconnect
      <3>1. task.pc \in BeforeApply /\ UNCHANGED protocol
        BY <2>5 DEF StopBeforeWarp, RestoreBeforeWarp, Preflight, EnableDisconnect, At,
          BeforeApply, daemon
      <3> QED
        BY <2>0, <2>1, <3>1 DEF SameTask
    <2>6. CASE \/ EnableApply \/ WaitUnderlay \/ TryConnect \/ AwaitConnected \/ CleanRound
               \/ NextRound \/ UndoWarp \/ UndoStack
      <3>1. UNCHANGED protocol
        BY <2>6 DEF EnableApply, WaitUnderlay, TryConnect, AwaitConnected, CleanRound,
          NextRound, UndoWarp, UndoStack, daemon
      <3>2. /\ task'.pc \notin BeforeApply \cup {"idle"} /\ task'.changed = task.changed
            /\ task.trouble \subseteq task'.trouble
        <4>1. CASE EnableApply \/ WaitUnderlay \/ CleanRound \/ NextRound
          BY <4>1, <1>0, JumpTask DEF BeforeApply, Keeps
        <4>2. CASE TryConnect \/ AwaitConnected \/ UndoWarp \/ UndoStack
          <5>1. \/ \E to \in {"await", "clean", "claim", "undoStack", "undoProtocol"} : Goto(to)
                \/ GotoWith("undoProtocol", {"unrestored"})
            BY <4>2 DEF TryConnect, AwaitConnected, UndoWarp, UndoStack
          <5> QED
            BY <5>1, <1>0, GotoTask, GotoWithTask DEF BeforeApply, Steps
        <4> QED
          BY <2>6, <4>1, <4>2
      <3> QED
        BY <2>0, <3>1, <3>2 DEF SameTask
    <2>7. CASE Claim
      <3>1. task'.pc = "idle" /\ task'.result = "ok"
        BY <2>7, <1>0, AnswerTask DEF Claim
      <3> QED
        BY <3>1 DEF BeforeApply
    <2>8. CASE \/ StopForSwitch \/ SwitchApply \/ WarpStart \/ DisableDisconnect
               \/ DisableApply \/ StopForHomeStop \/ HomeStopRestore
      BY <2>1, <2>8 DEF StopForSwitch, SwitchApply, WarpStart, DisableDisconnect,
        DisableApply, StopForHomeStop, HomeStopRestore, At
    <2>9. CASE \/ HomeDisconnect \/ HomeApply \/ Prepare \/ StartService \/ Protect
               \/ AwaitHandshake \/ ProbeInternet \/ VerifyAgain \/ Rollback \/ UndoHomeStack
      BY <2>1, <2>9 DEF HomeDisconnect, HomeApply, Prepare, StartService, Protect,
        AwaitHandshake, ProbeInternet, VerifyAgain, Check, Rollback, UndoHomeStack, At
    <2> QED
      BY <1>4, <2>2, <2>3, <2>4, <2>5, <2>6, <2>7, <2>8, <2>9 DEF Proceed
  <1> QED
    BY <1>1, <1>2, <1>3, <1>4 DEF Next

\* ProtocolRolledBack, whatever happens beside the handlers: a WARP mode that
\* fails leaves the tunnel protocol it found, unless a command that sets a
\* protocol could not be verified.
THEOREM RestoresProtocol == Spec => []ProtocolRolledBack
  <1>1. Init => TypeOK /\ TaskOK /\ ProtocolInv
    <2>1. NoTask.op = "none"
      BY DEF NoTask
    <2>2. Init => ProtocolInv
      BY <2>1 DEF Init, ProtocolInv, ProtocolRolledBack, Failed, Finished
    <2> QED
      BY <2>2, TypeInit
  <1>2. TypeOK /\ TaskOK /\ ProtocolInv /\ [Next]_vars => TypeOK' /\ TaskOK' /\ ProtocolInv'
    BY TypeStep, ProtocolStep
  <1>3. ProtocolInv => ProtocolRolledBack
    BY DEF ProtocolInv
  <1> QED
    BY <1>1, <1>2, <1>3, PTL DEF Spec

-----------------------------------------------------------------------------
(* What runs is known                                                      *)

\* Whoever stops "the configured tunnel" stops the one that runs, as long as
\* SettingsHandler does not write back what it read before; so it is known
\* where a handler may rely on no tunnel being left.
KnownInv ==
  /\ ~loaded.busy
  /\ TunnelIsKnown
  /\ task.op = "homeStart" /\ task.pc # "idle" => configured = task.tunnel
  /\ task.op = "homeStart" /\ task.pc = "service"
       => record = [tunnel |-> task.tunnel, adapter |-> task.adapter]
  /\ task.op \in {"warpStart", "warpEnable"} /\ task.pc \notin {"stop", "idle"} => running = {}
  /\ task.op = "homeStart" /\ task.pc = "undoStack" => running = {}
  /\ task.op = "homeStop" /\ task.pc = "restore" => task.tunnel \notin running

\* stopHomeTunnel leaves what runs known, and if it does not leave the
\* question open its tunnel does not run.
LEMMA StopKeepsKnown ==
  ASSUME TypeOK, TunnelIsKnown, UNCHANGED configured, NEW t,
         TunnelStopped(t) \/ TunnelUnclean(t) \/ TunnelUnconfirmed(t)
  PROVE  /\ TunnelIsKnown' /\ running' \subseteq running
         /\ TunnelStopped(t) \/ TunnelUnclean(t) => t \notin running'
         /\ t = configured /\ t \notin running' => running' = {}
  <1>1. running' \subseteq running
    BY DEF TunnelStopped, TunnelUnclean, TunnelUnconfirmed
  <1>2. TunnelIsKnown'
    <2>1. CASE UNCHANGED record
      BY <1>1, <2>1 DEF TunnelIsKnown
    <2>2. CASE TunnelStopped(t)
      BY <2>2 DEF TunnelStopped, TunnelIsKnown
    <2> QED
      BY <2>1, <2>2 DEF TunnelUnclean, TunnelUnconfirmed
  <1>3. TunnelStopped(t) \/ TunnelUnclean(t) => t \notin running'
    BY DEF TunnelStopped, TunnelUnclean
  <1>4. t = configured /\ t \notin running' => running' = {}
    BY <1>2 DEF TunnelIsKnown
  <1> QED
    BY <1>1, <1>2, <1>3, <1>4

LEMMA KnownStep ==
  ASSUME "settings" \notin Disturbances, TypeOK, TaskOK, KnownInv, [Next]_vars
  PROVE  KnownInv'
  <1>0. task \in Tasks
    BY DEF TypeOK
  <1> USE DEF KnownInv
  <1>1. CASE Request
    <2>1. UNCHANGED <<running, record, loaded>> /\ task.pc = "idle" /\ Begun
      BY <1>1, RequestTask DEF Request, BeginSwitch, BeginWarpStart, BeginWarpEnable,
        BeginWarpDisable, BeginHomeStart, BeginHomeStop, home, beside
    <2>2. TunnelIsKnown'
      <3>1. CASE UNCHANGED configured
        BY <2>1, <3>1 DEF TunnelIsKnown
      <3>2. ASSUME NEW a \in Adapters, NEW t \in Tunnels, BeginHomeStart(a, t)
            PROVE  TunnelIsKnown'
        <4>1. configured' = t /\ OwnedBy(a, t)
          BY <3>2 DEF BeginHomeStart
        <4>2. \A r \in running : r # NoTunnel
          BY ConstantsAssumption DEF TypeOK
        <4> QED
          BY <2>1, <4>1, <4>2 DEF TunnelIsKnown, OwnedBy, NoRecord
      <3> QED
        BY <1>1, <3>1, <3>2 DEF Request, BeginSwitch, BeginWarpStart, BeginWarpEnable,
          BeginWarpDisable, BeginHomeStop
    <2>3. NoTunnel \notin running
      BY ConstantsAssumption DEF TypeOK
    <2> QED
      BY <2>1, <2>2, <2>3, ZenonT(30) DEF Begun, Fresh
  <1>2. CASE Beside
    <2>1. UNCHANGED <<running, record, configured>> /\ ~loaded'.busy
          /\ (task' = task \/ task' = NoTask)
      BY <1>2 DEF Beside, WarpStop, WarpStopClear, AutoStart, SettingsLoad, SettingsSave,
        DaemonMoves, Crash, home, beside, NotLoading
    <2>2. NoTask.op = "none"
      BY DEF NoTask
    <2>3. CASE task' = NoTask
      BY <2>1, <2>2, <2>3 DEF TunnelIsKnown
    <2>4. CASE task' = task
      BY <2>1, <2>4 DEF TunnelIsKnown
    <2> QED
      BY <2>1, <2>3, <2>4
  <1>3. CASE UNCHANGED vars
    BY <1>3 DEF vars, home, beside, TunnelIsKnown
  <1>4. CASE Proceed
    <2>0. task.pc # "idle" /\ SameTask
      BY <1>4, ProceedTask
    <2>1. UNCHANGED <<configured, loaded>>
      BY <1>4 DEF Proceed, beside, StopForSwitch, SwitchApply, StopBeforeWarp,
        RestoreBeforeWarp, Preflight, WarpStart, DisableDisconnect, DisableApply,
        EnableDisconnect, PreferMASQUE, EnableApply, WaitUnderlay, TryConnect,
        AwaitConnected, CleanRound, NextRound, Fallback, UndoWarp, UndoStack,
        UndoProtocol, HomeDisconnect, HomeApply, Prepare, StartService, Protect,
        AwaitHandshake, ProbeInternet, VerifyAgain, Check, Claim, Rollback,
        UndoHomeStack, StopForHomeStop, HomeStopRestore
    \* Steps that leave the tunnel alone
    <2>2. ASSUME UNCHANGED home, task.pc # "stop",
                 task.op = "homeStart" => task'.pc \notin {"service", "undoStack"},
                 task.op = "homeStop" => task'.pc # "restore"
          PROVE  KnownInv'
      BY <2>0, <2>1, <2>2 DEF SameTask, home, TunnelIsKnown
    <2>3. CASE StopForSwitch
      <3>1. task.op = "switch" /\ TunnelIsKnown'
        BY <2>1, <2>3, StopKeepsKnown DEF StopForSwitch, At
      <3> QED
        BY <2>0, <2>1, <3>1 DEF SameTask
    <2>4. CASE StopBeforeWarp
      <3>1. task.op \in {"warpStart", "warpEnable"} /\ TunnelIsKnown'
        BY <2>1, <2>4, StopKeepsKnown DEF StopBeforeWarp, At
      <3>2. CASE TunnelStopped(configured)
        BY <2>0, <2>1, <3>1, <3>2, StopKeepsKnown DEF SameTask
      <3>3. CASE \E result \in {"ok", "error"}, trouble \in Troubles : Answer(result, trouble)
        <4>1. task'.pc = "idle"
          BY <1>0, <3>3, AnswerTask DEF Troubles
        <4> QED
          BY <2>0, <2>1, <3>1, <4>1 DEF SameTask
      <3> QED
        BY <2>4, <3>2, <3>3 DEF StopBeforeWarp, Troubles
    <2>5. CASE Prepare
      <3>1. /\ task.op = "homeStart" /\ UNCHANGED running
            /\ record' \in {record, [tunnel |-> task.tunnel, adapter |-> task.adapter]}
            /\ \/ task'.pc = "rollback"
               \/ record' = [tunnel |-> task.tunnel, adapter |-> task.adapter]
            /\ task'.pc # "undoStack"
        BY <1>0, <2>5, GotoTask DEF Prepare, At, Steps
      <3> QED
        BY <2>0, <2>1, <3>1 DEF SameTask, TunnelIsKnown
    <2>6. CASE StartService
      <3>1. /\ task.op = "homeStart" /\ task.pc = "service" /\ UNCHANGED record
            /\ running' \in {running, running \cup {task.tunnel}}
            /\ task'.pc \in {"protect", "rollback"}
        BY <1>0, <2>6, GotoTask DEF StartService, At, Steps
      <3> QED
        BY <2>0, <2>1, <3>1 DEF SameTask, TunnelIsKnown
    <2>7. CASE Rollback
      <3>1. task.op = "homeStart" /\ configured = task.tunnel /\ TunnelIsKnown'
        BY <2>0, <2>1, <2>7, StopKeepsKnown DEF Rollback, At
      <3>2. CASE TunnelStopped(task.tunnel) \/ TunnelUnclean(task.tunnel)
        <4>1. running' = {}
          BY <2>1, <3>1, <3>2, StopKeepsKnown
        <4>2. task'.pc # "service"
          BY <1>0, <2>7, GotoTask, GotoWithTask, AnswerTask DEF Rollback, Steps
        <4> QED
          BY <2>0, <2>1, <3>1, <4>1, <4>2 DEF SameTask
      <3>3. CASE Answer("error", {"unrestored"})
        <4>1. task'.pc = "idle"
          BY <1>0, <3>3, AnswerTask
        <4> QED
          BY <2>0, <2>1, <3>1, <4>1 DEF SameTask
      <3> QED
        BY <2>7, <3>2, <3>3 DEF Rollback
    <2>8. CASE StopForHomeStop
      <3>1. task.op = "homeStop" /\ TunnelIsKnown'
        BY <2>1, <2>8, StopKeepsKnown DEF StopForHomeStop, At
      <3>2. CASE TunnelStopped(task.tunnel) \/ TunnelUnclean(task.tunnel)
        BY <2>0, <2>1, <3>1, <3>2, StopKeepsKnown DEF SameTask
      <3>3. CASE Answer("error", {})
        <4>1. task'.pc = "idle"
          BY <1>0, <3>3, AnswerTask
        <4> QED
          BY <2>0, <2>1, <3>1, <4>1 DEF SameTask
      <3> QED
        BY <2>8, <3>2, <3>3 DEF StopForHomeStop
    <2>9. CASE HomeDisconnect \/ HomeApply \/ Claim \/ UndoHomeStack \/ HomeStopRestore
      <3>1. UNCHANGED home /\ task.pc # "stop"
            /\ task'.pc \in {"apply", "prepare", "rollback", "idle"}
        BY <1>0, <2>9, GotoTask, AnswerTask
        DEF HomeDisconnect, HomeApply, Claim, UndoHomeStack, HomeStopRestore, At, Steps
      <3> QED
        BY <2>2, <3>1
    <2>10. CASE Protect \/ AwaitHandshake \/ ProbeInternet \/ VerifyAgain
      <3>1. UNCHANGED home /\ task.pc # "stop"
            /\ task'.pc \in {"handshake", "internet", "verify", "claim", "rollback"}
        BY <1>0, <2>10, GotoTask
        DEF Protect, AwaitHandshake, ProbeInternet, VerifyAgain, Check, At, Steps
      <3> QED
        BY <2>2, <3>1 DEF Protect, AwaitHandshake, ProbeInternet, VerifyAgain, Check, At
    <2>11. CASE \/ SwitchApply \/ RestoreBeforeWarp \/ Preflight \/ WarpStart
                \/ DisableDisconnect \/ DisableApply \/ EnableDisconnect \/ PreferMASQUE
                \/ EnableApply \/ WaitUnderlay \/ TryConnect \/ AwaitConnected
                \/ CleanRound \/ NextRound \/ Fallback \/ UndoWarp \/ UndoStack \/ UndoProtocol
      <3>1. UNCHANGED home /\ task.pc # "stop" /\ task.op \notin {"homeStart", "homeStop"}
        BY <2>11 DEF SwitchApply, RestoreBeforeWarp, Preflight, WarpStart, DisableDisconnect,
          DisableApply, EnableDisconnect, PreferMASQUE, EnableApply, WaitUnderlay,
          TryConnect, AwaitConnected, CleanRound, NextRound, Fallback, UndoWarp,
          UndoStack, UndoProtocol, At
      <3> QED
        BY <2>2, <3>1
    <2> QED
      BY <1>4, <2>3, <2>4, <2>5, <2>6, <2>7, <2>8, <2>9, <2>10, <2>11 DEF Proceed
  <1> QED
    BY <1>1, <1>2, <1>3, <1>4 DEF Next

LEMMA KnownInit ==
  ASSUME Init
  PROVE  KnownInv
  <1>1. NoTask.op = "none"
    BY DEF NoTask
  <1> QED
    BY <1>1 DEF Init, KnownInv, TunnelIsKnown, NotLoading

\* TunnelIsKnown, unless SettingsHandler writes the settings file it read
\* while another handler worked: a running tunnel is the one of the recovery
\* record and of the settings, after crashes and failed rollbacks too.
THEOREM RunningIsKnown == "settings" \notin Disturbances => (Spec => []TunnelIsKnown)
  <1> SUFFICES ASSUME "settings" \notin Disturbances
               PROVE  Spec => []TunnelIsKnown
    OBVIOUS
  <1>1. Init => TypeOK /\ TaskOK /\ KnownInv
    BY TypeInit, KnownInit
  <1>2. TypeOK /\ TaskOK /\ KnownInv /\ [Next]_vars => TypeOK' /\ TaskOK' /\ KnownInv'
    BY TypeStep, KnownStep
  <1>3. KnownInv => TunnelIsKnown
    BY DEF KnownInv
  <1> QED
    BY <1>1, <1>2, <1>3, PTL DEF Spec

Undisturbed ==
  \A a \in Adapters :
    "IPv4" \in stack'[a] \ stack[a] /\ record.adapter = a /\ record.tunnel \in running
      => \/ task.op \in {"switch", "warpDisable"}
         \/ task.op = "homeStop" /\ task.tunnel # record.tunnel

\* What a change to the stack of one adapter may add
LEMMA ApplyAdds ==
  ASSUME TypeOK, NEW a, NEW b \in Adapters, NEW wanted,
         Apply(a, wanted) \/ ApplyFails(a, wanted),
         "IPv4" \in stack'[b] \ stack[b]
  PROVE  "IPv4" \in wanted
  <1>1. PICK s : stack' = [stack EXCEPT ![a] = s]
                 /\ s \in {stack[a], (stack[a] \cap OnlyIPv6) \cup (wanted \ OnlyIPv6), wanted}
    BY DEF Apply, ApplyFails
  <1>2. b = a /\ "IPv4" \in s
    BY <1>1 DEF TypeOK
  <1> QED
    BY <1>1, <1>2 DEF OnlyIPv6

LEMMA UndisturbedStep ==
  ASSUME TypeOK, KnownInv, [Next]_vars
  PROVE  Undisturbed
  <1>1. CASE UNCHANGED stack
    BY <1>1 DEF Undisturbed
  <1>2. CASE task.op \in {"switch", "warpDisable"}
    BY <1>2 DEF Undisturbed
  <1>3. CASE RestoreBeforeWarp \/ UndoStack \/ UndoHomeStack
    <2>1. running = {}
      BY <1>3 DEF RestoreBeforeWarp, UndoStack, UndoHomeStack, At, KnownInv
    <2> QED
      BY <2>1 DEF Undisturbed
  <1>4. CASE EnableApply \/ HomeApply
    BY <1>4, ApplyAdds DEF EnableApply, HomeApply, OnlyIPv6, Undisturbed
  <1>5. CASE HomeStopRestore
    BY <1>5 DEF HomeStopRestore, At, KnownInv, Undisturbed
  <1>6. \/ UNCHANGED stack \/ SwitchApply \/ DisableApply \/ HomeStopRestore
        \/ EnableApply \/ HomeApply \/ RestoreBeforeWarp \/ UndoStack \/ UndoHomeStack
    <2>1. CASE Request
      BY <2>1 DEF Request, BeginSwitch, BeginWarpStart, BeginWarpEnable, BeginWarpDisable,
        BeginHomeStart, BeginHomeStop
    <2>2. CASE Beside
      BY <2>2 DEF Beside, WarpStop, WarpStopClear, AutoStart, SettingsLoad, SettingsSave,
        DaemonMoves, Crash
    <2>3. CASE Proceed
      BY <2>3 DEF Proceed, StopForSwitch, StopBeforeWarp, Preflight, WarpStart,
        DisableDisconnect, EnableDisconnect, PreferMASQUE, WaitUnderlay, TryConnect,
        AwaitConnected, CleanRound, NextRound, Fallback, UndoWarp, UndoProtocol,
        HomeDisconnect, Prepare, StartService, Protect, AwaitHandshake, ProbeInternet,
        VerifyAgain, Check, Claim, Rollback, StopForHomeStop
    <2>4. CASE UNCHANGED vars
      BY <2>4 DEF vars
    <2> QED
      BY <2>1, <2>2, <2>3, <2>4 DEF Next
  <1> QED
    BY <1>1, <1>2, <1>3, <1>4, <1>5, <1>6 DEF SwitchApply, DisableApply, At

\* LiveTunnelStaysIPv6Only, with every disturbance but that of SettingsHandler:
\* no start and no rollback of a start gives the adapter of a running tunnel
\* IPv4 back.
THEOREM LiveTunnelProtected ==
  "settings" \notin Disturbances => (Spec => LiveTunnelStaysIPv6Only)
  <1> SUFFICES ASSUME "settings" \notin Disturbances
               PROVE  Spec => LiveTunnelStaysIPv6Only
    OBVIOUS
  <1>1. Init => TypeOK /\ TaskOK /\ KnownInv
    BY TypeInit, KnownInit
  <1>2. TypeOK /\ TaskOK /\ KnownInv /\ [Next]_vars => TypeOK' /\ TaskOK' /\ KnownInv'
    BY TypeStep, KnownStep
  <1>3. TypeOK /\ KnownInv /\ [Next]_vars => [Undisturbed]_vars
    BY UndisturbedStep
  <1>4. Spec => [][Undisturbed]_vars
    BY <1>1, <1>2, <1>3, PTL DEF Spec
  <1> QED
    BY <1>4 DEF LiveTunnelStaysIPv6Only, Undisturbed

-----------------------------------------------------------------------------
(* The two tunnels exclude each other                                      *)

ExclusiveInv == KnownInv /\ TunnelsExclusive /\ HomeAlone

LEMMA ExclusiveStep ==
  ASSUME Disturbances = {}, TypeOK, TaskOK, ExclusiveInv, KnownInv', [Next]_vars
  PROVE  ExclusiveInv'
  <1>0. task \in Tasks
    BY DEF TypeOK
  <1> USE DEF ExclusiveInv, TunnelsExclusive, HomeAlone, InProgress
  <1>1. CASE Request
    BY <1>1, RequestTask, ZenonT(30)
    DEF Begun, Fresh, Request, BeginSwitch, BeginWarpStart, BeginWarpEnable, BeginWarpDisable,
      BeginHomeStart, BeginHomeStop, daemon, home
  <1>2. CASE Beside
    <2>1. UNCHANGED running /\ (task' = task \/ task' = NoTask)
          /\ (warp' \in InProgress => warp \in InProgress)
      BY <1>2 DEF Beside, WarpStop, WarpStopClear, AutoStart, SettingsLoad, SettingsSave,
        DaemonMoves, Crash, daemon, home
    <2>2. NoTask.op = "none"
      BY DEF NoTask
    <2>3. CASE task' = NoTask
      BY <2>1, <2>2, <2>3
    <2>4. CASE task' = task
      BY <2>1, <2>4
    <2> QED
      BY <2>1, <2>3, <2>4
  <1>3. CASE UNCHANGED vars
    BY <1>3 DEF vars, daemon, home
  <1>4. CASE Proceed
    <2>0. task.pc # "idle" /\ SameTask
      BY <1>4, ProceedTask
    \* The handlers of the home mode never connect WARP
    <2>1. CASE WarpStart \/ TryConnect
      <3>1. running = {} /\ UNCHANGED running /\ task.op # "homeStart"
        BY <2>1 DEF WarpStart, TryConnect, At, KnownInv, home
      <3> QED
        BY <2>0, <3>1 DEF SameTask
    <2>2. CASE StartService
      <3>1. warp \notin InProgress /\ UNCHANGED warp
        BY <2>2 DEF StartService, At, daemon
      <3> QED
        BY <3>1
    <2>3. CASE HomeDisconnect
      <3>1. UNCHANGED running /\ (warp' \in InProgress => warp \in InProgress)
        BY <2>3 DEF HomeDisconnect, Disconnect, DisconnectFails, home
      <3>2. \/ task'.pc = "apply" /\ warp' \notin InProgress
            \/ task'.pc = "idle"
        BY <1>0, <2>3, GotoTask, AnswerTask DEF HomeDisconnect, Disconnect, Steps
      <3> QED
        BY <3>1, <3>2
    <2>4. CASE HomeApply \/ Prepare
      <3>1. UNCHANGED <<warp, running>> /\ warp \notin InProgress
        BY <2>4 DEF HomeApply, Prepare, At, daemon, home
      <3> QED
        BY <3>1
    <2>5. CASE \/ Protect \/ AwaitHandshake \/ ProbeInternet \/ VerifyAgain \/ Claim
               \/ Rollback \/ UndoHomeStack
      <3>1. UNCHANGED warp /\ running' \subseteq running
        BY <2>5 DEF Protect, AwaitHandshake, ProbeInternet, VerifyAgain, Check, Claim, Rollback,
          UndoHomeStack, TunnelStopped, TunnelUnclean, TunnelUnconfirmed, daemon, home
      <3>2. task'.pc \notin {"apply", "prepare", "service"}
        BY <1>0, <2>5, GotoTask, GotoWithTask, AnswerTask
        DEF Protect, AwaitHandshake, ProbeInternet, VerifyAgain, Check, Claim, Rollback,
          UndoHomeStack, Steps
      <3> QED
        BY <3>1, <3>2
    <2>6. CASE \/ StopForSwitch \/ SwitchApply \/ StopBeforeWarp \/ RestoreBeforeWarp
               \/ Preflight \/ DisableApply \/ PreferMASQUE \/ EnableApply \/ WaitUnderlay
               \/ AwaitConnected \/ NextRound \/ Fallback \/ UndoStack \/ UndoProtocol
               \/ StopForHomeStop \/ HomeStopRestore
      <3>1. UNCHANGED warp /\ running' \subseteq running /\ task.op # "homeStart"
        BY <2>6 DEF StopForSwitch, SwitchApply, StopBeforeWarp, RestoreBeforeWarp, Preflight,
          DisableApply, PreferMASQUE, EnableApply, WaitUnderlay, AwaitConnected, NextRound,
          Fallback, UndoStack, UndoProtocol, StopForHomeStop, HomeStopRestore, At,
          TunnelStopped, TunnelUnclean, TunnelUnconfirmed, daemon, home
      <3> QED
        BY <2>0, <3>1 DEF SameTask
    <2>7. CASE DisableDisconnect \/ EnableDisconnect \/ CleanRound \/ UndoWarp
      <3>1. /\ warp' \in {warp, "disconnected"} /\ UNCHANGED running
            /\ task.op # "homeStart"
        BY <2>7 DEF DisableDisconnect, EnableDisconnect, CleanRound, UndoWarp, Disconnect,
          DisconnectFails, At, home
      <3> QED
        BY <2>0, <3>1 DEF SameTask
    <2> QED
      BY <1>4, <2>1, <2>2, <2>3, <2>4, <2>5, <2>6, <2>7 DEF Proceed
  <1> QED
    BY <1>1, <1>2, <1>3, <1>4 DEF Next

\* IInv when the daemon reconnects only where it was connected, the status of
\* WARP can be read, and no auto-start or SettingsHandler comes between: WARP
\* is never connected or connecting while a home tunnel runs, whatever fails
\* and whenever the process is killed.
THEOREM Exclusive == Disturbances = {} => (Spec => []IInv)
  <1> SUFFICES ASSUME Disturbances = {}
               PROVE  Spec => []IInv
    OBVIOUS
  <1>1. Init => TypeOK /\ TaskOK /\ ExclusiveInv
    <2>1. NoTask.op = "none"
      BY DEF NoTask
    <2>2. Init => TunnelsExclusive /\ HomeAlone
      BY <2>1 DEF Init, TunnelsExclusive, HomeAlone, InProgress
    <2> QED
      BY <2>2, TypeInit, KnownInit DEF ExclusiveInv
  <1>2. TypeOK /\ TaskOK /\ ExclusiveInv /\ [Next]_vars => TypeOK' /\ TaskOK' /\ ExclusiveInv'
    BY TypeStep, KnownStep, ExclusiveStep DEF ExclusiveInv
  <1>3. TypeOK /\ ExclusiveInv => IInv
    BY DEF ExclusiveInv, KnownInv, IInv, WarpAlone
  <1> QED
    BY <1>1, <1>2, <1>3, PTL DEF Spec
=============================================================================
