------------------------------ MODULE PacRouting ------------------------------
(***************************************************************************)
(* The routing of a few sites through a local Clash proxy                  *)
(* (handlers/chatgpt_proxy.go).  The switch sets the proxy script (PAC) of *)
(* Windows in the registry and keeps the user's own PAC in settings.json,  *)
(* to put it back when the switch is turned off or BKNetwork exits.  The   *)
(* two stores change one after the other; settings.json is rewritten as a  *)
(* whole, also by SettingsHandler, which does not take this lock.          *)
(***************************************************************************)
EXTENDS Naturals

CONSTANTS
    UserPacs,      \* scripts the user or other software can choose
    NoPac,         \* no script is set
    OurPac,        \* the script BKNetwork serves
    None,
    Torn,          \* settings.json was written in part and cannot be read
    Disturbances   \* which of the events below can happen in a disturbed run

ASSUME PacAssumption ==
    /\ OurPac \notin UserPacs \cup {NoPac}
    /\ None \notin [on : BOOLEAN, prev : UserPacs \cup {NoPac}, auto : BOOLEAN]
    /\ Torn \notin [on : BOOLEAN, prev : UserPacs \cup {NoPac}, auto : BOOLEAN]

\* "crash": BKNetwork ends at any step.  "settings": SettingsHandler overlaps a
\* change of the switch.  "outside": the user chooses a PAC during a change of
\* the switch.  "rollback": undoing a failed change can fail too.  "serve": the
\* server ends by itself (Lifecycle).
ASSUME DisturbanceAssumption ==
    Disturbances \subseteq {"crash", "settings", "outside", "rollback", "serve"}

VARIABLES
    pac,         \* AutoConfigURL in the registry
    file,        \* settings.json
    bk,          \* the process; "stopping" is chatGPTProxyStopping
    activating,  \* the start-up goroutine has still to take the lock
    op, step,    \* what the holder of chatGPTProxyMu does
    cfg, seen,   \* the settings and the PAC it has read
    answer,      \* how the last task ended
    editor,      \* the settings a SettingsHandler has loaded, or None
    userPac,     \* history: the PAC the user or other software chose last
    calm         \* chosen at the start: no disturbance will happen

task == <<op, step, cfg, seen>>
vars == <<pac, file, bk, activating, task, answer, editor, userPac, calm>>

Own == UserPacs \cup {NoPac}
Settings == [on : BOOLEAN, prev : Own, auto : BOOLEAN]
DefaultSettings == [on |-> FALSE, prev |-> NoPac, auto |-> FALSE]

TypeOK ==
    /\ pac \in Own \cup {OurPac}
    /\ file \in Settings \cup {Torn}
    /\ bk \in {"off", "running", "stopping"}
    /\ activating \in BOOLEAN
    /\ op \in {"none", "enable", "disable", "suspend"}
    /\ step \in {"none", "load", "read", "write", "save"}
    /\ cfg \in Settings
    /\ seen \in Own \cup {OurPac}
    /\ answer \in {"none", "ok", "error"}
    /\ editor \in Settings \cup {None}
    /\ userPac \in Own
    /\ calm \in BOOLEAN

Init ==
    /\ pac \in Own /\ userPac = pac
    /\ file = DefaultSettings
    /\ bk = "off" /\ activating = FALSE
    /\ op = "none" /\ step = "none" /\ answer = "none"
    /\ cfg = DefaultSettings /\ seen = NoPac
    /\ editor = None
    /\ calm \in BOOLEAN

----------------------------------------------------------------------------
Idle == op = "none"
SwitchedOn == file # Torn /\ file.on
Happens(event) == ~calm /\ event \in Disturbances
Configuring == op \in {"enable", "disable"}

Begin(o) == op' = o /\ step' = "load" /\ answer' = "none" /\ UNCHANGED <<cfg, seen>>
Advance(to) == step' = to /\ UNCHANGED <<op, cfg, seen, answer>>
\* What was read is forgotten with the task.
NoTask == op' = "none" /\ step' = "none" /\ cfg' = DefaultSettings /\ seen' = NoPac
Finish(result) == NoTask /\ answer' = result

\* Mutant: the user's PAC is recorded whatever is in force.
RecordsAny == seen
\* The PAC to put back later: BKNetwork's own is never recorded.
Recorded == IF seen = OurPac THEN cfg.prev ELSE seen

\* The settings a change of the switch saves.
NewSettings ==
    IF op = "enable"
    THEN [on |-> TRUE, prev |-> Recorded, auto |-> cfg.auto]
    ELSE [on |-> FALSE, prev |-> NoPac, auto |-> cfg.auto]

\* The PAC a change of the switch puts in force.
NewPac ==
    IF op = "enable" THEN OurPac
    ELSE IF seen = OurPac THEN cfg.prev ELSE seen

----------------------------------------------------------------------------
(***************************************************************************)
(* configureChatGPTProxyLocked.                                            *)
(***************************************************************************)

\* A POST turns the switch on or off; while BKNetwork stops it is refused.
Request(o) ==
    /\ bk = "running" /\ Idle
    /\ editor = None \/ Happens("settings")
    /\ Begin(o)
    /\ UNCHANGED <<pac, file, bk, activating, editor, userPac>>

\* Mutant: the start-up goroutine does not see that BKNetwork is stopping.
ActivateLate ==
    /\ bk # "off" /\ activating /\ Idle
    /\ editor = None \/ Happens("settings")
    /\ SwitchedOn
    /\ activating' = FALSE
    /\ Begin("enable")
    /\ UNCHANGED <<pac, file, bk, editor, userPac>>

\* At start-up the PAC is put in force again if the switch is on.
Activate ==
    /\ bk = "running" /\ activating /\ Idle
    /\ editor = None \/ Happens("settings")
    /\ SwitchedOn
    /\ activating' = FALSE
    /\ Begin("enable")
    /\ UNCHANGED <<pac, file, bk, editor, userPac>>

\* BKNetwork is already stopping, the file cannot be read, or the switch is off.
NothingToActivate ==
    /\ activating /\ Idle
    /\ bk = "stopping" \/ ~SwitchedOn
    /\ activating' = FALSE
    /\ UNCHANGED <<pac, file, bk, task, answer, editor, userPac>>

Load ==
    /\ Configuring /\ step = "load"
    /\ file # Torn
    /\ step' = "read" /\ cfg' = file
    /\ UNCHANGED <<pac, file, bk, activating, op, seen, answer, editor, userPac>>

Read ==
    /\ Configuring /\ step = "read"
    /\ step' = "write" /\ seen' = pac
    /\ UNCHANGED <<pac, file, bk, activating, op, cfg, answer, editor, userPac>>

\* Loading or reading fails: nothing has been changed.
ReadingFails ==
    /\ Configuring /\ step \in {"load", "read"}
    /\ Finish("error")
    /\ UNCHANGED <<pac, file, bk, activating, editor, userPac>>

\* Turning off leaves a PAC that is not BKNetwork's as it is.
Write ==
    /\ Configuring /\ step = "write"
    /\ pac' = IF op = "disable" /\ seen # OurPac THEN pac ELSE NewPac
    /\ Advance("save")
    /\ UNCHANGED <<file, bk, activating, editor, userPac>>

\* The write fails, perhaps after changing the value; it is undone.
WriteFails ==
    /\ Configuring /\ step = "write"
    /\ op = "enable" \/ seen = OurPac
    /\ \/ pac' = seen
       \/ Happens("rollback") /\ pac' \in {pac, NewPac}
    /\ Finish("error")
    /\ UNCHANGED <<file, bk, activating, editor, userPac>>

Save ==
    /\ Configuring /\ step = "save"
    /\ file' = NewSettings
    /\ Finish("ok")
    /\ UNCHANGED <<pac, bk, activating, editor, userPac>>

\* Mutant: only the settings are put back.
SaveFailsKeepsPac ==
    /\ Configuring /\ step = "save"
    /\ file' = cfg
    /\ Finish("error")
    /\ UNCHANGED <<pac, bk, activating, editor, userPac>>

\* The save fails, perhaps after truncating the file; both stores are put back.
SaveFails ==
    /\ Configuring /\ step = "save"
    /\ \/ pac' = seen
       \/ Happens("rollback") /\ UNCHANGED pac
    /\ \/ file' = cfg
       \/ Happens("rollback") /\ file' \in {file, Torn}
    /\ Finish("error")
    /\ UNCHANGED <<bk, activating, editor, userPac>>

----------------------------------------------------------------------------
(***************************************************************************)
(* SuspendConfiguredChatGPTProxy, on a regular exit.                       *)
(***************************************************************************)

Suspend ==
    /\ bk = "running" /\ Idle
    /\ editor = None \/ Happens("settings")
    /\ bk' = "stopping"
    /\ Begin("suspend")
    /\ UNCHANGED <<pac, file, activating, editor, userPac>>

SuspendLoad ==
    /\ op = "suspend" /\ step = "load"
    /\ SwitchedOn
    /\ step' = "read" /\ cfg' = file
    /\ UNCHANGED <<pac, file, bk, activating, op, seen, answer, editor, userPac>>

\* With the switch off there is nothing to put back.
SuspendOff ==
    /\ op = "suspend" /\ step = "load"
    /\ file # Torn /\ ~file.on
    /\ Finish("ok")
    /\ UNCHANGED <<pac, file, bk, activating, editor, userPac>>

SuspendRead ==
    /\ op = "suspend" /\ step = "read"
    /\ pac = OurPac
    /\ Advance("write")
    /\ UNCHANGED <<pac, file, bk, activating, editor, userPac>>

\* A PAC that is not BKNetwork's stays.
SuspendForeign ==
    /\ op = "suspend" /\ step = "read"
    /\ pac # OurPac
    /\ Finish("ok")
    /\ UNCHANGED <<pac, file, bk, activating, editor, userPac>>

SuspendReadingFails ==
    /\ op = "suspend" /\ step \in {"load", "read"}
    /\ Finish("error")
    /\ UNCHANGED <<pac, file, bk, activating, editor, userPac>>

SuspendWrite ==
    /\ op = "suspend" /\ step = "write"
    /\ pac' = cfg.prev
    /\ Finish("ok")
    /\ UNCHANGED <<file, bk, activating, editor, userPac>>

SuspendWriteFails ==
    /\ op = "suspend" /\ step = "write"
    /\ pac' \in {pac, cfg.prev}
    /\ Finish("error")
    /\ UNCHANGED <<file, bk, activating, editor, userPac>>

----------------------------------------------------------------------------
(***************************************************************************)
(* The process, SettingsHandler and the user.                              *)
(***************************************************************************)

Start ==
    /\ bk = "off"
    /\ bk' = "running" /\ activating' = TRUE
    /\ answer' = "none"
    /\ UNCHANGED <<pac, file, task, editor, userPac>>

Exit ==
    /\ bk = "stopping" /\ Idle
    /\ bk' = "off" /\ activating' = FALSE /\ editor' = None
    /\ UNCHANGED <<pac, file, task, answer, userPac>>

\* The process ends; a file being written can be left torn.
Crash ==
    /\ Happens("crash")
    /\ bk # "off"
    /\ bk' = "off" /\ activating' = FALSE /\ editor' = None
    /\ file' \in IF step = "save" \/ editor # None THEN {file, Torn} ELSE {file}
    /\ NoTask /\ answer' = "none"
    /\ UNCHANGED <<pac, userPac>>

\* SettingsHandler loads the file, changes its own fields and saves it whole.
EditLoad ==
    /\ bk # "off" /\ editor = None
    /\ Idle \/ Happens("settings")
    /\ file # Torn
    /\ editor' = file
    /\ UNCHANGED <<pac, file, bk, activating, task, answer, userPac>>

\* Mutant: fields the handler does not own are reset.
EditResets ==
    /\ editor # None
    /\ \E a \in BOOLEAN : file' = [DefaultSettings EXCEPT !.auto = a]
    /\ editor' = None
    /\ UNCHANGED <<pac, bk, activating, task, answer, userPac>>

EditSave ==
    /\ editor # None
    /\ \E a \in BOOLEAN : file' = [editor EXCEPT !.auto = a]
    /\ editor' = None
    /\ UNCHANGED <<pac, bk, activating, task, answer, userPac>>

UserSets(p) ==
    /\ Idle \/ Happens("outside")
    /\ p # pac
    /\ pac' = p /\ userPac' = p
    /\ UNCHANGED <<file, bk, activating, task, answer, editor>>

Step ==
    \/ Request("enable") \/ Request("disable") \/ Activate \/ NothingToActivate
    \/ Load \/ Read \/ ReadingFails
    \/ Write \/ WriteFails \/ Save \/ SaveFails
    \/ Suspend \/ SuspendLoad \/ SuspendOff \/ SuspendRead \/ SuspendForeign
    \/ SuspendReadingFails \/ SuspendWrite \/ SuspendWriteFails
    \/ Start \/ Exit \/ Crash
    \/ EditLoad \/ EditSave
    \/ \E p \in Own : UserSets(p)

Next == Step /\ UNCHANGED calm

Spec == Init /\ [][Next]_vars

----------------------------------------------------------------------------
(***************************************************************************)
(* Properties.                                                             *)
(***************************************************************************)

\* Between changes of the switch the user's own PAC is either in force or on
\* record, with the switch on so that turning it off or exiting puts it back
\* (chatgpt_proxy.go:282-308).
UserPacSafe ==
    calm /\ Idle =>
        \/ pac = userPac
        \/ pac = OurPac /\ SwitchedOn /\ file.prev = userPac

\* A regular exit that reports no error leaves the user's own PAC in force
\* (chatgpt_proxy.go:388-389): the claim of the comment there,
PacBackOnExit == bk = "stopping" /\ Idle /\ answer = "ok" => pac = userPac
\* and what holds of it.
ExitRestores == calm => PacBackOnExit

\* When BKNetwork stops, no late activation or request puts its PAC in force,
\* disturbed or not: the page that serves it is about to go
\* (chatgpt_proxy.go:269, 371, 393).
NeverOursAfterSuspend ==
    [][bk = "stopping" /\ pac # OurPac => pac' # OurPac]_vars

\* What a task knows while it runs undisturbed: what it read is still there.
TaskInv ==
    /\ op = "none" <=> step = "none"
    /\ op = "suspend" <=> bk = "stopping" /\ ~Idle
    /\ bk = "off" => Idle /\ editor = None
    /\ editor # None => Idle /\ editor = file
    /\ step = "save" => Configuring
    /\ step \in {"read", "write", "save"} => file = cfg
    /\ Configuring /\ step \in {"write", "save"} => seen \in {userPac, OurPac}
    /\ Configuring /\ step = "write" => pac = seen
    /\ Configuring /\ step = "save" =>
          /\ pac = NewPac
          /\ seen = OurPac => cfg.on /\ cfg.prev = userPac
    /\ op = "suspend" /\ step = "write" => pac = OurPac
    /\ step # "save" =>
          \/ pac = userPac
          \/ pac = OurPac /\ SwitchedOn /\ file.prev = userPac
    /\ PacBackOnExit

\* The inductive invariant: the types always, the knowledge in calm runs.
IInv == TypeOK /\ (calm => TaskInv)
=============================================================================
