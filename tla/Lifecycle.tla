------------------------------ MODULE Lifecycle ------------------------------
(***************************************************************************)
(* The life of BKNetwork's desktop processes (cmd/bknetwork, server.go)    *)
(* around PacRouting.  A process listens on 127.0.0.1:13335, only then     *)
(* activates the configured PAC and runs its tray; quitting suspends the   *)
(* PAC, then closes the port.  The user can start another process at any   *)
(* time: chatGPTProxyMu and chatGPTProxyStopping are each process's own,   *)
(* and the port is all that keeps two processes apart.                     *)
(*                                                                         *)
(* PacRouting's variables are those of the process that is past Listen     *)
(* and before Release.  A second process beside one whose server has ended *)
(* by itself is left out.                                                  *)
(***************************************************************************)
EXTENDS PacRouting

CONSTANTS Processes, Nobody

ASSUME NobodyAssumption == Nobody \notin Processes

VARIABLES
    phase,  \* where each process is in main and runDesktopApp
    port    \* who listens on 127.0.0.1:13335

lifecycle == <<phase, port>>
allVars == <<vars, lifecycle>>

Phases == {"off", "starting", "tray", "browser", "quitting"}
Serving == {"tray", "browser", "quitting"}

LifecycleInit ==
    /\ Init
    /\ phase = [p \in Processes |-> "off"]
    /\ port = Nobody

Goto(p, from, to) ==
    /\ phase[p] \in from
    /\ phase' = [phase EXCEPT ![p] = to]

----------------------------------------------------------------------------
(* main, runDesktopApp, Server.Start                                        *)

\* A user or the start-up task runs bknetwork.exe, elevated.
Launch(p) ==
    /\ Goto(p, {"off"}, "starting")
    /\ UNCHANGED <<vars, port>>

\* net.Listen; Ready is closed, go ActivateConfiguredChatGPTProxy and tray.run
\* follow.
Listen(p) ==
    /\ Goto(p, {"starting"}, "tray")
    /\ port = Nobody
    /\ port' = p
    /\ Start
    /\ UNCHANGED calm

\* The port is taken or cannot be had: the process reports it and ends.
ListenFails(p) ==
    /\ Goto(p, {"starting"}, "off")
    /\ UNCHANGED <<vars, port>>

\* tray.run has no window or cannot read its messages: the page stays, and
\* there is nothing to quit with.
TrayFails(p) ==
    /\ Goto(p, {"tray"}, "browser")
    /\ UNCHANGED <<vars, port>>

\* The menu, or WM_CLOSE: quit runs shutdownServer in the window procedure.
Quit(p) ==
    /\ Goto(p, {"tray"}, "quitting")
    /\ UNCHANGED <<vars, port>>

\* Mutated: the server is shut down before the PAC is suspended
ShutsDownFirst(p) ==
    /\ phase[p] = "quitting"
    /\ port' = IF port = p THEN Nobody ELSE port
    /\ Suspend
    /\ UNCHANGED <<calm, phase>>

\* shutdownServer: SuspendConfiguredChatGPTProxy gets the lock,
BeginSuspend(p) ==
    /\ phase[p] = "quitting"
    /\ Suspend
    /\ UNCHANGED <<calm, lifecycle>>

\* Mutated: an error of the suspension returns before Shutdown
ReleasesOnSuccess(p) ==
    /\ Goto(p, {"quitting"}, "off")
    /\ answer = "ok"
    /\ port' = IF port = p THEN Nobody ELSE port
    /\ Exit
    /\ UNCHANGED calm

\* and when it has returned Shutdown closes the port. The requests still in
\* progress are given five seconds, which are left out: a settings request has
\* saved by now or will not.
Release(p) ==
    /\ Goto(p, {"quitting"}, "off")
    /\ port' = IF port = p THEN Nobody ELSE port
    /\ Exit
    /\ UNCHANGED calm

\* Server.Start returns an error or after a signal. The message loop does not
\* notice; without a tray the process was waiting for that and quits.
ServeFails(p) ==
    /\ Happens("serve")
    /\ port = p
    /\ port' = Nobody
    /\ phase' = [phase EXCEPT ![p] = IF @ = "browser" THEN "quitting" ELSE @]
    /\ UNCHANGED vars

\* The process is killed, or Windows ends the session: no message of that
\* kind is handled.
Kill(p) ==
    /\ Happens("crash")
    /\ phase[p] # "off"
    /\ phase' = [phase EXCEPT ![p] = "off"]
    /\ port' = IF port = p THEN Nobody ELSE port
    /\ IF phase[p] \in Serving THEN Crash /\ UNCHANGED calm ELSE UNCHANGED vars

----------------------------------------------------------------------------
\* Requests need the server,
Served ==
    /\ port # Nobody
    /\ Request("enable") \/ Request("disable") \/ EditLoad
    /\ UNCHANGED <<calm, lifecycle>>

\* the start-up goroutine does not.
Activating ==
    /\ Activate \/ NothingToActivate
    /\ UNCHANGED <<calm, lifecycle>>

\* The holder of chatGPTProxyMu takes its next step.
Working ==
    /\ \/ Load \/ Read \/ ReadingFails
       \/ Write \/ WriteFails \/ Save \/ SaveFails
       \/ SuspendLoad \/ SuspendOff \/ SuspendRead \/ SuspendForeign
       \/ SuspendReadingFails \/ SuspendWrite \/ SuspendWriteFails
    /\ UNCHANGED <<calm, lifecycle>>

Saving == EditSave /\ UNCHANGED <<calm, lifecycle>>

User ==
    /\ \E p \in Own : UserSets(p)
    /\ UNCHANGED <<calm, lifecycle>>

Run(p) ==
    \/ Launch(p) \/ Listen(p) \/ ListenFails(p) \/ TrayFails(p)
    \/ Quit(p) \/ BeginSuspend(p) \/ Release(p)
    \/ ServeFails(p) \/ Kill(p)

LifecycleNext ==
    \/ \E p \in Processes : Run(p)
    \/ Served \/ Activating \/ Working \/ Saving \/ User

LifecycleSpec == LifecycleInit /\ [][LifecycleNext]_allVars

\* Goroutines and the window procedure go on, the registry and the file answer,
\* and sync.Mutex lets nobody wait for ever. Users and failures are free.
LifecycleFairSpec ==
    /\ LifecycleSpec
    /\ WF_allVars(Working) /\ WF_allVars(Saving)
    /\ \A p \in Processes :
         SF_allVars(BeginSuspend(p)) /\ WF_allVars(Release(p))

----------------------------------------------------------------------------
(* Properties                                                              *)

LifecycleTypeOK ==
    /\ phase \in [Processes -> Phases]
    /\ port \in Processes \cup {Nobody}

\* The port is the lock between processes: who listens is the one process
\* that works on the PAC, and nobody works on it without having listened.
OneServes ==
    /\ \A p, q \in Processes : phase[p] \in Serving /\ phase[q] \in Serving => p = q
    /\ bk = "off" <=> \A p \in Processes : phase[p] \notin Serving
    /\ port # Nobody => phase[port] \in Serving
    /\ calm => (port = Nobody => bk = "off")

LifecycleInv == LifecycleTypeOK /\ OneServes /\ IInv

\* The PAC in force is never BKNetwork's while nobody serves it, except after
\* a quit that could not put the user's back, and then until the next start:
\* it is activated after Listen and suspended before Shutdown
\* (desktop_windows.go:193-207), in spite of the goroutine that activates it
\* and of the processes started meanwhile.
PacNeverDangles ==
    calm /\ pac = OurPac => port # Nobody \/ (bk = "off" /\ answer = "error")

\* Quitting ends: neither the requests that compete for the lock nor a start-up
\* that has not come to its end keep the process.
QuitEnds == \A p \in Processes : phase[p] = "quitting" ~> phase[p] = "off"
=============================================================================
