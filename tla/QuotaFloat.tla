------------------------------ MODULE QuotaFloat ------------------------------
(***************************************************************************)
(* internal/quotafloat: BKNetwork keeps the HTTP proxy of an external      *)
(* program, quota-float, in line with its own routing switch.  The program *)
(* reads its proxy only when it starts, so the manager exchanges a running *)
(* instance for a new one: it creates the replacement suspended, checks    *)
(* it, terminates the original, waits for its end and resumes the          *)
(* replacement.  Beside it the user starts and closes instances, Windows   *)
(* takes its time to end a terminated process, every call can fail, and    *)
(* BKNetwork itself can end between two steps.                             *)
(*                                                                         *)
(* The manager's mutex makes one reconciliation at a time: "op" says who   *)
(* holds it, "pc" where it is.  An instance is identified by its PID and   *)
(* start time, which no two instances share.                               *)
(***************************************************************************)
EXTENDS Naturals, FiniteSets

CONSTANTS
    Instances,        \* processes that can ever exist (bounds the run)
    Addresses,        \* local Clash proxy addresses
    NoProxy,          \* the user's own environment; also "not managed"
    None,             \* no instance
    RestoreAttempts,  \* attempts of Restore (2 in the code)
    MaxUserStarts,    \* bound: instances the user starts
    Disturbances      \* which of the events below can happen in a disturbed run

ASSUME NoProxyAssumption == NoProxy \notin Addresses
ASSUME NoneAssumption == None \notin Instances
ASSUME AttemptsAssumption == RestoreAttempts \in Nat \ {0}
\* "crash": BKNetwork ends without Suspend.  "miss": inspectCandidate skips an
\* instance that is alive, because it cannot be opened or queried for a moment.
ASSUME DisturbanceAssumption == Disturbances \subseteq {"crash", "miss"}

VARIABLES
    bk,         \* the BKNetwork process
    wanted,     \* settings.json: the address if routing is enabled, or NoProxy
    enabled, address, managed, failed, report,  \* fields of the Manager
    op, pc,     \* who holds the manager's mutex, and at which step
    restoring,  \* attempts the Restore in progress has left
    pending,    \* instances the reconciliation still has to exchange
    failures,   \* did it meet a failure?
    target, child,        \* arguments of restartProcess in progress
    status, env, origin,  \* the instances, as Windows has them
    closed,     \* history: how the user closed the program started as i
    tries,      \* history: exchanges of i begun since the last Configure
    mine,       \* history: instances this run of BKNetwork has put in place
    calm        \* chosen at the start: no disturbance will happen

manager == <<enabled, address, managed, failed, report>>
reconcile == <<op, pc, restoring, pending, failures, target, child>>
processes == <<status, env, origin>>
history == <<closed, tries, mine>>
state == <<bk, wanted, manager, reconcile, processes, history>>
vars == <<state, calm>>

Steps == {"idle", "list", "next", "create", "spawn", "verify", "terminate", "wait", "resume"}
Statuses == {"unborn", "suspended", "live", "dying", "dead"}

TypeOK ==
    /\ bk \in {"off", "starting", "running", "stopping"}
    /\ wanted \in Addresses \cup {NoProxy}
    /\ enabled \in BOOLEAN
    /\ address \in Addresses \cup {NoProxy}
    /\ managed \in [Instances -> Addresses \cup {NoProxy}]
    /\ failed \subseteq Instances
    /\ report \in {"fresh", "disabled", "active", "waiting", "error"}
    /\ op \in {"none", "configure", "restore", "tick"}
    /\ pc \in Steps
    /\ restoring \in 0..RestoreAttempts
    /\ pending \subseteq Instances
    /\ failures \in BOOLEAN
    /\ target \in Instances \cup {None}
    /\ child \in Instances \cup {None}
    /\ status \in [Instances -> Statuses]
    /\ env \in [Instances -> Addresses \cup {NoProxy}]
    /\ origin \in [Instances -> Instances]
    /\ closed \in [Instances -> {"no", "before", "during"}]
    /\ tries \in [Instances -> 0..2]
    /\ mine \subseteq Instances
    /\ calm \in BOOLEAN

----------------------------------------------------------------------------
Idle == op = "none"
Happens(event) == ~calm /\ event \in Disturbances
Managed == {i \in Instances : managed[i] # NoProxy}
\* What a process snapshot can contain: everything that has not ended.
Alive == {i \in Instances : status[i] \in {"suspended", "live", "dying"}}
\* The instances of the program the user started as o that can be running code.
Running(o) == {i \in Instances : origin[i] = o /\ status[i] \in {"live", "dying"}}
Started == {i \in Instances : status[i] # "unborn" /\ origin[i] = i}
NoTries == [i \in Instances |-> 0]

\* The address instances should have: managed is compared against it.
Goal == IF enabled THEN address ELSE NoProxy

\* The entries that stay when only the listed instances are still there.
Kept(listed) == [i \in Instances |-> IF i \in listed THEN managed[i] ELSE NoProxy]

\* Mutant: a change of the address is not noticed for managed instances.
IgnoresAddress(listed) == {i \in listed : (managed[i] = NoProxy) # (Goal = NoProxy)}
\* The instances of a list that are not yet as wanted.
NeedsRestart(listed) == {i \in listed : managed[i] # Goal}

FreshManager ==
    /\ enabled' = FALSE
    /\ address' = NoProxy
    /\ managed' = [i \in Instances |-> NoProxy]
    /\ failed' = {}
    /\ report' = "fresh"
    /\ tries' = NoTries /\ mine' = {}

NoReconcile ==
    /\ op' = "none" /\ pc' = "idle" /\ restoring' = 0
    /\ pending' = {} /\ failures' = FALSE
    /\ target' = None /\ child' = None

Init ==
    /\ bk = "off"
    /\ wanted = NoProxy
    /\ enabled = FALSE /\ address = NoProxy
    /\ managed = [i \in Instances |-> NoProxy]
    /\ failed = {} /\ report = "fresh"
    /\ op = "none" /\ pc = "idle" /\ restoring = 0
    /\ pending = {} /\ failures = FALSE
    /\ target = None /\ child = None
    /\ status = [i \in Instances |-> "unborn"]
    /\ env = [i \in Instances |-> NoProxy]
    /\ origin = [i \in Instances |-> i]
    /\ closed = [i \in Instances |-> "no"]
    /\ tries = NoTries
    /\ mine = {}
    /\ calm \in BOOLEAN /\ (Disturbances = {} => calm)

----------------------------------------------------------------------------
(***************************************************************************)
(* reconcileLocked: who calls it, and how it ends.                         *)
(***************************************************************************)

ReportOf(fails, on, anyManaged) ==
    IF fails THEN "error"
    ELSE IF ~on THEN "disabled"
    ELSE IF anyManaged THEN "active" ELSE "waiting"

\* Mutant: Restore goes on with the attempts it has until one succeeds.
RetriesForever(fails) ==
    restoring' = IF op = "restore" THEN (IF fails THEN RestoreAttempts ELSE 0)
                 ELSE restoring
\* Restore returns at the first success; a tick in between changes nothing.
CountAttempt(fails) ==
    restoring' = IF op = "restore" /\ ~fails THEN 0 ELSE restoring

\* reconcileLocked returns: the report is set, the mutex released.
Conclude(fails) ==
    /\ report' = ReportOf(fails, enabled, Managed # {})
    /\ CountAttempt(fails)
    /\ op' = "none" /\ pc' = "idle"
    /\ pending' = {} /\ failures' = FALSE

\* Configure: new fields, past failures forgotten, and the reconciliation
\* begins, which is over at once if there is nothing to manage.
Configure(kind, to, attemptsLeft) ==
    /\ Idle
    /\ enabled' = (to # NoProxy)
    /\ address' = to
    /\ failed' = {}
    /\ tries' = NoTries
    /\ IF to = NoProxy /\ Managed = {}
       THEN /\ report' = "disabled"
            /\ restoring' = 0
            /\ UNCHANGED <<op, pc>>
       ELSE /\ op' = kind /\ pc' = "list"
            /\ restoring' = attemptsLeft
            /\ UNCHANGED report
    /\ UNCHANGED <<managed, pending, failures, target, child, processes, closed, mine>>

\* The switch is turned on, or on again with another address.
SwitchOn ==
    /\ bk \in {"starting", "running"}
    /\ restoring = 0
    /\ \E a \in Addresses : wanted' = a /\ Configure("configure", a, 0)
    /\ UNCHANGED bk

\* At start-up the configured state is applied again.
Activate ==
    /\ bk = "starting"
    /\ restoring = 0
    /\ bk' = "running"
    /\ Configure("configure", wanted, 0)
    /\ UNCHANGED wanted

\* Restore is called, by the switch turned off or by a regular exit.
CallRestore ==
    /\ Idle /\ restoring = 0
    /\ restoring' = RestoreAttempts
    /\ UNCHANGED <<manager, op, pc, pending, failures, target, child, processes,
                   closed, tries, mine>>

SwitchOff ==
    /\ bk \in {"starting", "running"}
    /\ CallRestore
    /\ wanted' = NoProxy
    /\ UNCHANGED bk

Suspend ==
    /\ bk \in {"starting", "running"}
    /\ CallRestore
    /\ bk' = "stopping"
    /\ UNCHANGED wanted

\* One attempt of Restore.  The mutex is free between two attempts.
RestoreAttempt ==
    /\ restoring > 0
    /\ Configure("restore", NoProxy, restoring - 1)
    /\ UNCHANGED <<bk, wanted>>

\* Mutant: the background check runs only for instances it already manages.
TicksWhenManaged ==
    /\ bk # "off" /\ Idle
    /\ Managed # {}
    /\ op' = "tick" /\ pc' = "list"
    /\ UNCHANGED <<bk, wanted, manager, restoring, pending, failures, target, child,
                   processes, history>>

\* The background check every three seconds.
Tick ==
    /\ bk # "off" /\ Idle
    /\ enabled \/ Managed # {}
    /\ op' = "tick" /\ pc' = "list"
    /\ UNCHANGED <<bk, wanted, manager, restoring, pending, failures, target, child,
                   processes, history>>

----------------------------------------------------------------------------
(***************************************************************************)
(* listProcesses and the loop over its result.                             *)
(***************************************************************************)

ListFails ==
    /\ pc = "list"
    /\ Conclude(TRUE)
    /\ UNCHANGED <<bk, wanted, enabled, address, managed, failed, target, child,
                   processes, closed, tries, mine>>

\* What ended is forgotten; an instance that failed before is not tried again.
Listed(listed) ==
    /\ pc = "list"
    /\ managed' = Kept(listed)
    /\ failed' = failed \cap listed
    /\ pending' = NeedsRestart(listed) \ failed
    /\ failures' = (NeedsRestart(listed) \cap failed # {})
    /\ pc' = "next"
    /\ UNCHANGED <<bk, wanted, enabled, address, report, op, restoring, target, child,
                   processes, history>>

ListSucceeds ==
    \E listed \in SUBSET Alive : (Happens("miss") \/ listed = Alive) /\ Listed(listed)

AllDone ==
    /\ pc = "next" /\ pending = {}
    /\ Conclude(failures)
    /\ UNCHANGED <<bk, wanted, enabled, address, managed, failed, target, child,
                   processes, closed, tries, mine>>

----------------------------------------------------------------------------
(***************************************************************************)
(* restartProcess.                                                         *)
(***************************************************************************)

\* Mutant: the failure is not remembered.
ForgetsFailure(i) == UNCHANGED failed
RememberFailure(i) == failed' = failed \cup {i}

\* The exchange of i ends with an error; its replacement, if there is one, is
\* terminated.
RestartFails(i) ==
    /\ RememberFailure(i)
    /\ failures' = TRUE
    /\ pc' = "next"
    /\ target' = None /\ child' = None
    /\ status' = IF child = None THEN status ELSE [status EXCEPT ![child] = "dead"]
    /\ UNCHANGED <<bk, wanted, enabled, address, managed, report, op, restoring,
                   env, origin, closed, mine>>

\* The loop takes up the next instance.
Take(i) ==
    /\ pc = "next"
    /\ i \in pending
    /\ pending' = pending \ {i}
    /\ tries' = [tries EXCEPT ![i] = IF @ = 2 THEN 2 ELSE @ + 1]

\* It is opened, and its identity and environment are read.
Open(i) ==
    /\ Take(i)
    /\ status[i] # "dead"
    /\ target' = i
    /\ pc' = "create"
    /\ UNCHANGED <<bk, wanted, manager, op, restoring, failures, child, processes,
                   closed, mine>>

OpenFails(i) == Take(i) /\ RestartFails(i)

CreateFails ==
    /\ pc \in {"create", "spawn"}
    /\ RestartFails(target)
    /\ UNCHANGED <<pending, tries>>

\* Mutant: the original is not looked at before the replacement is created.
LooksAway ==
    /\ pc = "create"
    /\ pc' = "spawn"
    /\ UNCHANGED <<bk, wanted, manager, op, restoring, pending, failures, target, child,
                   processes, history>>

\* The last look at the original: it has not ended.
StillThere ==
    /\ pc = "create"
    /\ status[target] # "dead"
    /\ pc' = "spawn"
    /\ UNCHANGED <<bk, wanted, manager, op, restoring, pending, failures, target, child,
                   processes, history>>

\* The replacement is created suspended, with the proxy variables of the goal;
\* its parent is the original, whose handle is open even if it ends now.
Create ==
    /\ pc = "spawn"
    /\ \E c \in Instances :
          /\ status[c] = "unborn"
          /\ child' = c
          /\ status' = [status EXCEPT ![c] = "suspended"]
          /\ env' = [env EXCEPT ![c] = Goal]
          /\ origin' = [origin EXCEPT ![c] = origin[target]]
    /\ pc' = "verify"
    /\ UNCHANGED <<bk, wanted, manager, op, restoring, pending, failures, target, history>>

VerifySucceeds ==
    /\ pc = "verify"
    /\ pc' = "terminate"
    /\ UNCHANGED <<bk, wanted, manager, op, restoring, pending, failures, target, child,
                   processes, history>>

\* Mutant: a replacement that fails its checks does not stop the exchange.
VerifiesNothing ==
    /\ pc = "verify"
    /\ pc' = "terminate"
    /\ status' = [status EXCEPT ![child] = "dead"]
    /\ UNCHANGED <<bk, wanted, manager, op, restoring, pending, failures, target, child,
                   env, origin, history>>

VerifyFails ==
    /\ pc = "verify"
    /\ RestartFails(target)
    /\ UNCHANGED <<pending, tries>>

\* TerminateProcess succeeds, or it fails because the original has ended.
Terminate ==
    /\ pc = "terminate"
    /\ status' = [status EXCEPT ![target] = IF @ = "dead" THEN "dead" ELSE "dying"]
    /\ pc' = "wait"
    /\ UNCHANGED <<bk, wanted, manager, op, restoring, pending, failures, target, child,
                   env, origin, history>>

TerminateFails ==
    /\ pc = "terminate"
    /\ status[target] # "dead"
    /\ RestartFails(target)
    /\ UNCHANGED <<pending, tries>>

\* Mutant: a wait that times out counts as the end of the original.
WaitsAtMost ==
    /\ pc = "wait"
    /\ pc' = "resume"
    /\ UNCHANGED <<bk, wanted, manager, op, restoring, pending, failures, target, child,
                   processes, history>>

WaitSucceeds ==
    /\ pc = "wait"
    /\ status[target] = "dead"
    /\ pc' = "resume"
    /\ UNCHANGED <<bk, wanted, manager, op, restoring, pending, failures, target, child,
                   processes, history>>

\* The wait fails, or ends by its timeout.
WaitFails ==
    /\ pc = "wait"
    /\ RestartFails(target)
    /\ UNCHANGED <<pending, tries>>

\* Mutant: the new entry is made under the identity of the original.
EntryForOriginal(i, c) == [managed EXCEPT ![i] = Goal]
\* Mutant: no entry is made for the replacement.
NoEntry(i, c) == [managed EXCEPT ![i] = NoProxy]
\* The original's entry goes; the replacement gets one while routing is on.
Exchange(i, c) == [managed EXCEPT ![i] = NoProxy, ![c] = Goal]

Resume ==
    /\ pc = "resume"
    /\ status' = [status EXCEPT ![child] = "live"]
    /\ managed' = Exchange(target, child)
    /\ failed' = failed \ {target}
    /\ pc' = "next"
    /\ target' = None /\ child' = None
    /\ mine' = mine \cup {child}
    /\ UNCHANGED <<bk, wanted, enabled, address, report, op, restoring, pending, failures,
                   env, origin, closed, tries>>

ResumeFails ==
    /\ pc = "resume"
    /\ RestartFails(target)
    /\ UNCHANGED <<pending, tries>>

----------------------------------------------------------------------------
(***************************************************************************)
(* The surroundings.                                                       *)
(***************************************************************************)

StartBKNetwork ==
    /\ bk = "off"
    /\ bk' = "starting"
    /\ UNCHANGED <<wanted, manager, reconcile, processes, history>>

\* After Suspend has returned; what the manager knew is lost.
Exit ==
    /\ bk = "stopping" /\ Idle /\ restoring = 0
    /\ bk' = "off"
    /\ FreshManager
    /\ UNCHANGED <<wanted, reconcile, processes, closed>>

\* BKNetwork ends at any step.  A suspended replacement stays.
Crash ==
    /\ Happens("crash")
    /\ bk # "off"
    /\ bk' = "off"
    /\ FreshManager /\ NoReconcile
    /\ UNCHANGED <<wanted, processes, closed>>

UserStarts(i) ==
    /\ status[i] = "unborn"
    /\ Cardinality(Started) < MaxUserStarts
    /\ status' = [status EXCEPT ![i] = "live"]
    /\ UNCHANGED <<bk, wanted, manager, reconcile, env, origin, history>>

\* BKNetwork has looked at the target for the last time.
Committed == pc \in {"spawn", "verify", "terminate", "wait", "resume"}

\* The user closes a running instance, before or after that last look.
UserCloses(i) ==
    /\ status[i] = "live"
    /\ status' = [status EXCEPT ![i] = "dead"]
    /\ closed' = [closed EXCEPT ![origin[i]] =
          IF Committed /\ origin[i] = origin[target] THEN "during" ELSE "before"]
    /\ UNCHANGED <<bk, wanted, manager, reconcile, env, origin, tries, mine>>

TerminatedEnds(i) ==
    /\ status[i] = "dying"
    /\ status' = [status EXCEPT ![i] = "dead"]
    /\ UNCHANGED <<bk, wanted, manager, reconcile, env, origin, history>>

ManagerStep ==
    \/ ListFails \/ ListSucceeds \/ AllDone
    \/ \E i \in Instances : Open(i) \/ OpenFails(i)
    \/ CreateFails \/ StillThere \/ Create
    \/ VerifySucceeds \/ VerifyFails
    \/ Terminate \/ TerminateFails
    \/ WaitSucceeds \/ WaitFails
    \/ Resume \/ ResumeFails

Outside ==
    \/ StartBKNetwork \/ Exit \/ Crash
    \/ \E i \in Instances : UserStarts(i) \/ UserCloses(i) \/ TerminatedEnds(i)

Step ==
    \/ SwitchOn \/ Activate \/ SwitchOff \/ Suspend
    \/ RestoreAttempt \/ Tick
    \/ ManagerStep
    \/ Outside

Next == Step /\ UNCHANGED calm

Spec == Init /\ [][Next]_vars

\* The goroutine that holds the mutex goes on, its waits having deadlines; the
\* ticker ticks; Restore, waiting for the mutex beside the ticks, gets it some
\* time (sync.Mutex starves no waiter); and a process list that is asked for
\* again and again is obtained, and complete, some time.
FairSpec ==
    /\ Spec
    /\ WF_state(ManagerStep)
    /\ SF_state(RestoreAttempt)
    /\ WF_state(Tick)
    /\ SF_state(Listed(Alive))

----------------------------------------------------------------------------
(***************************************************************************)
(* Properties.                                                             *)
(***************************************************************************)

\* At no time do two instances run of a program the user started once: the
\* replacement runs only when Windows has ended the original
\* (process_windows.go:262-270).  It takes a BKNetwork that does not end
\* between the creation and the switch.
OneRunningPerOrigin ==
    calm =>
        \A i, j \in Instances :
            /\ status[i] \in {"live", "dying"} /\ status[j] \in {"live", "dying"}
            /\ origin[i] = origin[j]
            => i = j

\* While the card says "restored" (manager.go:163-164), no instance that this
\* run of BKNetwork adapted is alive with the proxy in its environment.
RestoredMeansDefaultEnvironment ==
    calm /\ Idle /\ bk # "off" /\ report = "disabled" =>
        \A i \in mine \cap Alive : env[i] = NoProxy

\* While the card says "active" or "waiting", those instances have the address
\* of the switch: a change of the port reaches the ones adapted before.
ActiveMeansCurrentAddress ==
    calm /\ Idle /\ report \in {"active", "waiting"} =>
        \A i \in mine \cap Alive : env[i] = address

\* Even when disturbed, an entry of "managed" tells the truth about the
\* environment of its instance (manager.go:143-157).
EntriesMatchEnvironment ==
    \A i \in Managed : managed[i] = env[i]

\* Between two Configure calls the manager begins at most one exchange of an
\* instance (manager.go:56-57), whatever the background checks see.
TriedOncePerConfigure == calm => \A i \in Instances : tries[i] <= 1

\* An instance the user closed does not come back, unless its exchange was past
\* the last look at it (process_windows.go:217-221): from there on the
\* replacement is created and resumed whatever ended the original
\* (process_windows.go:222-265), see ClosedNeverReopened.
ClosedStaysClosed ==
    calm => \A o \in Started : closed[o] = "before" => Running(o) = {}

\* Even when disturbed, the original is terminated only with its replacement prepared and
\* suspended beside it (process_windows.go:140-142).
SwitchOnlyWhenPrepared ==
    [][\A i \in Instances : status[i] = "live" /\ status'[i] = "dying" =>
          \E c \in Instances :
             status[c] = "suspended" /\ origin[c] = origin[i] /\ env[c] = Goal]_vars

\* A running instance that routing should cover is exchanged, or known to have
\* failed, or no longer there: the background check finds instances started
\* later (manager.go:85-98).
Uncovered(i) == bk = "running" /\ enabled /\ status[i] = "live" /\ managed[i] = NoProxy
EveryInstanceHandled ==
    \A i \in Instances : Uncovered(i) ~> (~Uncovered(i) \/ i \in failed)

\* Restore comes to its end after a bounded number of attempts, so the exit
\* that waits for it does too (manager.go:68-77).
RestoreAnswers == restoring > 0 ~> (Idle /\ restoring = 0)

(***************************************************************************)
(* The invariant behind these properties.                                  *)
(***************************************************************************)

\* What each step knows of the exchange in progress.
ExchangeOK ==
    /\ Idle <=> pc = "idle"
    /\ target # None <=> pc = "create" \/ Committed
    /\ child # None <=> pc \in {"verify", "terminate", "wait", "resume"}
    /\ enabled <=> address # NoProxy
    /\ \A i \in pending \cup ({target} \cap Instances) : status[i] # "unborn"
    /\ child # None =>
          /\ child # target
          /\ status[child] = "suspended"
          /\ origin[child] = origin[target]
          /\ env[child] = Goal
          /\ managed[child] = NoProxy
          /\ tries[child] = 0
          /\ child \notin mine
    /\ pc = "resume" => status[target] = "dead"

\* Nothing is known of an instance that has not been started.
FreshOK ==
    \A i \in Instances : status[i] = "unborn" =>
        /\ managed[i] = NoProxy
        /\ env[i] = NoProxy
        /\ tries[i] = 0
        /\ i \notin mine
        /\ closed[i] = "no"
        /\ origin[i] = i
        /\ \A j \in Instances : origin[j] = i => j = i

\* Only the replacement in progress is suspended; nothing else of its origin,
\* or of any one origin, is alive twice.
OriginOK ==
    /\ \A i \in Instances : status[i] = "suspended" => i = child
    /\ \A i, j \in Alive \ {child} : origin[i] = origin[j] => i = j
    /\ target # None =>
          \A i \in Alive : origin[i] = origin[target] => i \in {target, child}
    /\ \A i \in Alive : closed[origin[i]] # "before"
    /\ Committed => closed[origin[target]] # "before"

\* What the manager remembers: environments, failures, and what is left to do.
RecordOK ==
    /\ \A i \in mine \cap Alive : managed[i] = env[i]
    /\ \A i \in pending : tries[i] = 0
    /\ \A i \in Instances : tries[i] > 0 /\ status[i] # "dead" => i \in failed \cup {target}
    /\ pc \notin {"idle", "list"} /\ ~failures =>
          \A i \in mine \cap Alive : env[i] # Goal => i \in pending \cup {target}
    /\ Idle /\ report \in {"disabled", "active", "waiting"} =>
          \A i \in mine \cap Alive : env[i] = Goal
    /\ Idle /\ report = "disabled" => ~enabled

\* The inductive invariant: the exchange in progress and the entries always,
\* the rest in calm runs.
IInv ==
    /\ TypeOK /\ ExchangeOK /\ FreshOK /\ EntriesMatchEnvironment
    /\ calm => OriginOK /\ RecordOK /\ \A i \in Instances : tries[i] <= 1

(***************************************************************************)
(* Statements of the documentation that the code does not keep.            *)
(***************************************************************************)

\* README.md:40, 42: when an exchange or a restore fails, the original is kept:
\* an instance the user did not close is replaced, never lost.
OriginalKept ==
    \A o \in Started :
        Idle /\ closed[o] = "no" => \E i \in Alive : origin[i] = o

\* README.md:38: the program is not opened again once the user has closed it.
ClosedNeverReopened ==
    \A o \in Started : closed[o] # "no" => Running(o) = {}
=============================================================================
