--------------------------- MODULE PacRoutingProofs ---------------------------
(***************************************************************************)
(* Proofs about PacRouting for any set of user scripts and disturbances:   *)
(* in a calm run the user's PAC is never lost, and a regular exit puts it  *)
(* back; in any run a stopping BKNetwork stays quiet.  Then about          *)
(* Lifecycle, which keeps all of that: for any number of processes only    *)
(* one works on the PAC, and the PAC never dangles.                        *)
(***************************************************************************)
EXTENDS Lifecycle, TLAPS

\* Every step keeps the variables in their sets.
LEMMA TypeStep ==
  ASSUME TypeOK, [Next]_vars
  PROVE  TypeOK'
  <1> USE PacAssumption DEF TypeOK, Own, Idle, SwitchedOn
  <1>0. calm' \in BOOLEAN
    BY DEF Next, vars
  <1> SUFFICES ASSUME Step \/ UNCHANGED vars PROVE TypeOK'
    BY DEF Next
  <1> USE <1>0
  <1>1. ASSUME NEW o \in {"enable", "disable"}, Request(o) PROVE TypeOK'
    BY <1>1 DEF Request, Begin, Configuring
  <1>2. CASE Activate
    BY <1>2 DEF Activate, Begin
  <1>3. CASE NothingToActivate
    BY <1>3, ZenonT(30) DEF NothingToActivate, task
  <1>4. CASE Load
    BY <1>4 DEF Load, Configuring
  <1>5. CASE Read
    BY <1>5 DEF Read, Configuring
  <1>6. CASE ReadingFails
    BY <1>6 DEF ReadingFails, Finish, NoTask, DefaultSettings, Settings,
        Configuring
  <1>7. CASE Write
    BY <1>7 DEF Write, Advance, Configuring, NewPac, Settings
  <1>8. CASE WriteFails
    BY <1>8 DEF WriteFails, Finish, NoTask, NewPac, DefaultSettings, Settings,
        Configuring
  <1>9. CASE Save
    BY <1>9 DEF Save, Finish, NoTask, DefaultSettings, Settings,
        Configuring, NewSettings, Recorded
  <1>10. CASE SaveFails
    BY <1>10 DEF SaveFails, Finish, NoTask, DefaultSettings, Settings,
        Configuring
  <1>11. CASE Suspend
    BY <1>11 DEF Suspend, Begin
  <1>12. CASE SuspendLoad
    BY <1>12 DEF SuspendLoad, Settings
  <1>13. CASE SuspendOff
    BY <1>13 DEF SuspendOff, Finish, NoTask, DefaultSettings, Settings,
        Configuring
  <1>14. CASE SuspendRead
    BY <1>14 DEF SuspendRead, Advance
  <1>15. CASE SuspendForeign
    BY <1>15 DEF SuspendForeign, Finish, NoTask, DefaultSettings, Settings,
        Configuring
  <1>16. CASE SuspendReadingFails
    BY <1>16 DEF SuspendReadingFails, Finish, NoTask, DefaultSettings,
        Settings, Configuring
  <1>17. CASE SuspendWrite
    BY <1>17 DEF SuspendWrite, Finish, NoTask, DefaultSettings, Settings,
        Configuring
  <1>18. CASE SuspendWriteFails
    BY <1>18 DEF SuspendWriteFails, Finish, NoTask, DefaultSettings,
        Settings, Configuring
  <1>19. CASE Start
    BY <1>19 DEF Start, task
  <1>20. CASE Exit
    BY <1>20 DEF Exit, task
  <1>21. CASE EditLoad
    BY <1>21 DEF EditLoad, task
  <1>22. CASE EditSave
    BY <1>22 DEF EditSave, task, Settings
  <1>23. ASSUME NEW p \in Own, UserSets(p) PROVE TypeOK'
    BY <1>23 DEF UserSets, task
  <1>24. CASE UNCHANGED vars
    BY <1>24 DEF vars, task
  <1>25. CASE Crash
    BY <1>25 DEF Crash, NoTask, DefaultSettings, Settings
  <1> QED
    BY <1>1, <1>2, <1>3, <1>4, <1>5, <1>6, <1>7, <1>8, <1>9, <1>10,
       <1>11, <1>12, <1>13, <1>14, <1>15, <1>16, <1>17, <1>18, <1>19,
       <1>20, <1>21, <1>22, <1>23, <1>24, <1>25
    DEF Next, Step

\* Every step keeps what a task knows, and with it the record of the user's PAC.
LEMMA TaskStep ==
  ASSUME IInv, TypeOK', [Next]_vars, calm
  PROVE  TaskInv'
  <1> USE PacAssumption
      DEF IInv, TypeOK, TaskInv, PacBackOnExit, Own, Happens, SwitchedOn, Idle, Configuring, Settings, NewPac
  <1>1. ASSUME NEW o \in {"enable", "disable"}, Request(o) PROVE TaskInv'
    BY <1>1 DEF Request, Begin, Configuring
  <1>2. CASE Activate
    BY <1>2 DEF Activate, Begin
  <1>3. CASE NothingToActivate
    BY <1>3 DEF NothingToActivate, task
  <1>4. CASE Load
    BY <1>4 DEF Load, Configuring
  <1>5. CASE Read
    BY <1>5 DEF Read, Configuring
  <1>6. CASE ReadingFails
    BY <1>6 DEF ReadingFails, Finish, NoTask, DefaultSettings, Settings,
        Configuring
  <1>7. CASE Write
    BY <1>7 DEF Write, Advance, Configuring, NewPac, Settings
  <1>8. CASE WriteFails
    BY <1>8 DEF WriteFails, Finish, NoTask, DefaultSettings, Settings,
        Configuring
  <1>9. CASE Save
    <2>1. /\ op' = "none" /\ step' = "none" /\ answer' = "ok" /\ bk' = bk
          /\ pac' = pac /\ userPac' = userPac /\ editor' = editor
          /\ file' = NewSettings /\ file' \in Settings
      BY <1>9 DEF Save, Finish, NoTask, NewSettings, Recorded
    <2>2. CASE op = "enable"
      <3>1. pac = OurPac /\ Recorded = userPac
        BY <2>2, <1>9 DEF Save, Recorded
      <3>2. file'.on /\ file'.prev = userPac /\ file' # Torn
        BY <2>1, <2>2, <3>1 DEF NewSettings
      <3> QED
        BY <2>1, <3>1, <3>2, <1>9 DEF Save
    <2>3. CASE op = "disable"
      BY <2>1, <2>3, <1>9 DEF Save, NewSettings, Recorded
    <2> QED
      BY <2>2, <2>3, <1>9 DEF Save
  <1>10. CASE SaveFails
    BY <1>10 DEF SaveFails, Finish, NoTask, DefaultSettings, Settings,
        Configuring
  <1>11. CASE Suspend
    BY <1>11 DEF Suspend, Begin
  <1>12. CASE SuspendLoad
    BY <1>12 DEF SuspendLoad, Settings
  <1>13. CASE SuspendOff
    BY <1>13 DEF SuspendOff, Finish, NoTask, DefaultSettings, Settings,
        Configuring
  <1>14. CASE SuspendRead
    BY <1>14 DEF SuspendRead, Advance
  <1>15. CASE SuspendForeign
    BY <1>15 DEF SuspendForeign, Finish, NoTask, DefaultSettings, Settings,
        Configuring
  <1>16. CASE SuspendReadingFails
    BY <1>16 DEF SuspendReadingFails, Finish, NoTask, DefaultSettings,
        Settings, Configuring
  <1>17. CASE SuspendWrite
    BY <1>17 DEF SuspendWrite, Finish, NoTask, DefaultSettings, Settings,
        Configuring
  <1>18. CASE SuspendWriteFails
    BY <1>18 DEF SuspendWriteFails, Finish, NoTask, DefaultSettings,
        Settings, Configuring
  <1>19. CASE Start
    BY <1>19 DEF Start, task
  <1>20. CASE Exit
    BY <1>20 DEF Exit, task
  <1>21. CASE EditLoad
    BY <1>21 DEF EditLoad, task
  <1>22. CASE EditSave
    <2>1. PICK a \in BOOLEAN : file' = [editor EXCEPT !.auto = a]
      BY <1>22 DEF EditSave
    <2>2. /\ file' \in Settings /\ file'.on = file.on /\ file'.prev = file.prev
          /\ editor = file /\ op = "none" /\ file # Torn
      BY <1>22, <2>1 DEF EditSave
    <2> QED
      BY <1>22, <2>2 DEF EditSave, task
  <1>23. ASSUME NEW p \in Own, UserSets(p) PROVE TaskInv'
    BY <1>23 DEF UserSets, task
  <1>24. CASE UNCHANGED vars
    BY <1>24 DEF vars, task
  <1> QED
    BY <1>1, <1>2, <1>3, <1>4, <1>5, <1>6, <1>7, <1>8, <1>9, <1>10,
       <1>11, <1>12, <1>13, <1>14, <1>15, <1>16, <1>17, <1>18, <1>19,
       <1>20, <1>21, <1>22, <1>23, <1>24
    DEF Next, Step, Crash

\* The inductive invariant holds in every reachable state.
THEOREM Invariance ==
  Spec => []IInv
  <1>1. Init => IInv
    <2> SUFFICES ASSUME Init PROVE IInv
      OBVIOUS
    <2>1. DefaultSettings \in Settings
      BY DEF DefaultSettings, Settings, Own
    <2>2. TypeOK
      BY <2>1 DEF Init, TypeOK, Own
    <2> QED
      BY <2>2 DEF Init, IInv, TaskInv, PacBackOnExit, Idle, Configuring, SwitchedOn
  <1>2. IInv /\ [Next]_vars => IInv'
    <2>1. [Next]_vars => (calm' <=> calm)
      BY DEF Next, vars
    <2> QED
      BY <2>1, TypeStep, TaskStep DEF IInv
  <1> QED
    BY <1>1, <1>2, PTL DEF Spec

\* The user's PAC is in force or on record whenever no change is in progress.
THEOREM PacNeverLost ==
  Spec => []UserPacSafe
  <1>1. IInv => UserPacSafe
    BY DEF IInv, TaskInv, UserPacSafe, Idle, SwitchedOn
  <1> QED
    BY <1>1, Invariance, PTL

\* A regular exit without an error puts the user's PAC back.
THEOREM ExitPutsBack ==
  Spec => []ExitRestores
  <1>1. IInv => ExitRestores
    BY DEF IInv, TaskInv, ExitRestores
  <1> QED
    BY <1>1, Invariance, PTL

\* What holds with all disturbances: types, and only the suspension works while
\* BKNetwork stops.
StopInv == TypeOK /\ (bk = "stopping" => ~Configuring)

LEMMA StopStep ==
  ASSUME StopInv, [Next]_vars
  PROVE  StopInv' /\ (bk = "stopping" /\ pac # OurPac => pac' # OurPac)
  <1> USE PacAssumption DEF StopInv, Configuring
  <1>1. TypeOK'
    BY TypeStep
  <1> DEFINE Goal == (bk' = "stopping" => op' \notin {"enable", "disable"})
                     /\ (bk = "stopping" /\ pac # OurPac => pac' # OurPac)
  <1> SUFFICES Goal
    BY <1>1
  <1>2. ASSUME NEW o \in {"enable", "disable"}, Request(o) PROVE Goal
    BY <1>2 DEF Request, Begin
  <1>3. CASE Activate \/ NothingToActivate
    BY <1>3 DEF Activate, NothingToActivate, Begin, task
  <1>4. CASE Load \/ Read \/ ReadingFails
    BY <1>4 DEF Load, Read, ReadingFails, Finish, NoTask
  <1>5. CASE Write \/ WriteFails \/ Save \/ SaveFails
    BY <1>5 DEF Write, WriteFails, Save, SaveFails, Advance, Finish, NoTask
  <1>6. CASE Suspend \/ SuspendLoad \/ SuspendOff \/ SuspendReadingFails
    BY <1>6 DEF Suspend, SuspendLoad, SuspendOff, SuspendReadingFails, Begin, Finish, NoTask
  <1>7. CASE SuspendRead \/ SuspendForeign
    BY <1>7 DEF SuspendRead, SuspendForeign, Advance, Finish, NoTask
  <1>8. CASE SuspendWrite \/ SuspendWriteFails
    <2>1. cfg.prev \in Own
      BY DEF TypeOK, Settings
    <2> QED
      BY <1>8, <2>1 DEF SuspendWrite, SuspendWriteFails, Finish, NoTask, Own
  <1>9. CASE Start \/ Exit \/ Crash
    BY <1>9 DEF Start, Exit, Crash, NoTask, task
  <1>10. CASE EditLoad \/ EditSave
    BY <1>10 DEF EditLoad, EditSave, task
  <1>11. ASSUME NEW p \in Own, UserSets(p) PROVE Goal
    BY <1>11 DEF UserSets, task, Own
  <1>12. CASE UNCHANGED vars
    BY <1>12 DEF vars, task
  <1> QED
    BY <1>2, <1>3, <1>4, <1>5, <1>6, <1>7, <1>8, <1>9, <1>10, <1>11, <1>12
    DEF Next, Step

\* Whatever disturbs it, a stopping BKNetwork does not put its PAC in force.
THEOREM QuietAfterSuspend == Spec => NeverOursAfterSuspend
  <1>1. Init => StopInv
    <2>1. Init => DefaultSettings \in Settings
      BY DEF DefaultSettings, Settings, Own
    <2> QED
      BY <2>1 DEF Init, StopInv, TypeOK, Own, Configuring
  <1>2. StopInv /\ [Next]_vars
          => StopInv' /\ (bk = "stopping" /\ pac # OurPac => pac' # OurPac)
    BY StopStep
  <1> QED
    BY <1>1, <1>2, PTL DEF Spec, NeverOursAfterSuspend

----------------------------------------------------------------------------
(* Lifecycle                                                                *)

\* What the processes do to the PAC are steps of PacRouting.
LEMMA LifecycleStep ==
  ASSUME [LifecycleNext]_allVars
  PROVE  [Next]_vars
  <1>1. CASE Served
    BY <1>1 DEF Served, Next, Step
  <1>2. CASE Activating
    BY <1>2 DEF Activating, Next, Step
  <1>3. CASE Working
    BY <1>3 DEF Working, Next, Step
  <1>4. CASE Saving \/ User
    BY <1>4 DEF Saving, User, Next, Step
  <1>5. ASSUME NEW p \in Processes, Run(p) PROVE [Next]_vars
    <2>1. UNCHANGED vars \/ (UNCHANGED calm /\ (Start \/ Suspend \/ Exit \/ Crash))
      BY <1>5 DEF Run, Launch, Listen, ListenFails, TrayFails, Quit, BeginSuspend,
        Release, ServeFails, Kill
    <2> QED
      BY <2>1 DEF Next, Step
  <1>6. CASE UNCHANGED allVars
    BY <1>6 DEF allVars
  <1> QED
    BY <1>1, <1>2, <1>3, <1>4, <1>5, <1>6 DEF LifecycleNext

\* The processes of Lifecycle, whatever they do, implement PacRouting.
THEOREM LifecycleImplements == LifecycleSpec => Spec
  <1>1. LifecycleInit => Init
    BY DEF LifecycleInit
  <1>2. [LifecycleNext]_allVars => [Next]_vars
    BY LifecycleStep
  <1> QED
    BY <1>1, <1>2, PTL DEF LifecycleSpec, Spec

\* The steps at which a process of BKNetwork begins or ends to work on the PAC
\* are those of Listen, Release and Kill; nothing else changes the port or a
\* phase but what is named here.
LEMMA PhaseSteps ==
  ASSUME [LifecycleNext]_allVars
  PROVE  /\ (calm' <=> calm)
         /\ \/ \E p \in Processes : Run(p)
            \/ UNCHANGED lifecycle /\ (bk' = bk)
  <1>1. CASE Served
    BY <1>1 DEF Served, Request, EditLoad
  <1>2. CASE Activating
    BY <1>2 DEF Activating, Activate, NothingToActivate
  <1>3. CASE Working
    BY <1>3 DEF Working, Load, Read, ReadingFails, Write, WriteFails, Save, SaveFails,
      SuspendLoad, SuspendOff, SuspendRead, SuspendForeign, SuspendReadingFails,
      SuspendWrite, SuspendWriteFails
  <1>4. CASE Saving \/ User
    BY <1>4 DEF Saving, User, EditSave, UserSets
  <1>5. ASSUME NEW p \in Processes, Run(p) PROVE calm' <=> calm
    BY <1>5 DEF Run, Launch, Listen, ListenFails, TrayFails, Quit, BeginSuspend,
        Release, ServeFails, Kill, vars
  <1>6. CASE UNCHANGED allVars
    BY <1>6 DEF allVars, vars
  <1> QED
    BY <1>1, <1>2, <1>3, <1>4, <1>5, <1>6 DEF LifecycleNext

Processing == LifecycleTypeOK /\ OneServes

LEMMA RunStep ==
  ASSUME Processing, TypeOK, NEW p \in Processes, Run(p)
  PROVE  Processing'
  <1> USE NobodyAssumption DEF Processing, LifecycleTypeOK, OneServes, Phases, Serving
  <1>1. CASE Launch(p) \/ ListenFails(p)
    BY <1>1 DEF Launch, ListenFails, Goto, vars
  <1>2. CASE Listen(p)
    BY <1>2 DEF Listen, Goto, Start
  <1>3. CASE TrayFails(p) \/ Quit(p)
    BY <1>3 DEF TrayFails, Quit, Goto, vars
  <1>4. CASE BeginSuspend(p)
    BY <1>4 DEF BeginSuspend, Suspend, lifecycle
  <1>5. CASE Release(p)
    BY <1>5 DEF Release, Goto, Exit
  <1>6. CASE ServeFails(p)
    BY <1>6 DEF ServeFails, Happens, vars
  <1>7. CASE Kill(p)
    BY <1>7 DEF Kill, Happens, Crash, vars
  <1> QED
    BY <1>1, <1>2, <1>3, <1>4, <1>5, <1>6, <1>7 DEF Run

LEMMA ProcessingStep ==
  ASSUME Processing, TypeOK, [LifecycleNext]_allVars
  PROVE  Processing'
  <1>1. CASE UNCHANGED lifecycle /\ bk' = bk
    BY <1>1, PhaseSteps DEF Processing, LifecycleTypeOK, OneServes, lifecycle
  <1> QED
    BY <1>1, PhaseSteps, RunStep

LEMMA LifecycleInitInv == LifecycleInit => Processing
  BY NobodyAssumption DEF LifecycleInit, Init, Processing, LifecycleTypeOK, OneServes,
    Phases, Serving

\* The port keeps the processes apart, for any number of them: the one that
\* listens is the one that works on the PAC (server.go, Listen before Ready).
THEOREM OnePortOneProcess == LifecycleSpec => []LifecycleInv
  <1>1. Processing /\ IInv /\ [LifecycleNext]_allVars => Processing'
    BY ProcessingStep DEF IInv
  <1>2. Processing /\ IInv => LifecycleInv
    BY DEF Processing, LifecycleInv
  <1> QED
    BY <1>1, <1>2, LifecycleInitInv, LifecycleImplements, Invariance, PTL DEF LifecycleSpec

\* A process that has suspended its PAC knows how that ended.
Answered == bk = "stopping" /\ Idle => answer \in {"ok", "error"}

LEMMA AnsweredStep ==
  ASSUME Answered, [Next]_vars
  PROVE  Answered'
  <1> USE DEF Answered, Idle
  <1>1. CASE Load \/ Read \/ ReadingFails
    BY <1>1 DEF Load, Read, ReadingFails, Finish, NoTask, Configuring
  <1>2. CASE Write \/ WriteFails \/ Save \/ SaveFails
    BY <1>2 DEF Write, WriteFails, Save, SaveFails, Advance, Finish, NoTask, Configuring
  <1>3. CASE SuspendLoad \/ SuspendOff \/ SuspendRead \/ SuspendForeign
    BY <1>3 DEF SuspendLoad, SuspendOff, SuspendRead, SuspendForeign, Advance, Finish, NoTask
  <1>4. CASE SuspendReadingFails \/ SuspendWrite \/ SuspendWriteFails
    BY <1>4 DEF SuspendReadingFails, SuspendWrite, SuspendWriteFails, Finish, NoTask
  <1>5. CASE Suspend \/ Activate \/ (\E o \in {"enable", "disable"} : Request(o))
    BY <1>5 DEF Suspend, Activate, Request, Begin
  <1>6. CASE Start \/ Exit \/ Crash
    BY <1>6 DEF Start, Exit, Crash
  <1>7. CASE NothingToActivate \/ EditLoad \/ EditSave \/ (\E p \in Own : UserSets(p))
    BY <1>7 DEF NothingToActivate, EditLoad, EditSave, UserSets, task
  <1>8. CASE UNCHANGED vars
    BY <1>8 DEF vars, task
  <1> QED
    BY <1>1, <1>2, <1>3, <1>4, <1>5, <1>6, <1>7, <1>8 DEF Next, Step

\* What a process without a server can do to the PAC and to its answer: while
\* nobody listens only the user changes it.
LEMMA NobodyServes ==
  ASSUME IInv, Processing, calm, port = Nobody, port' = Nobody,
         [LifecycleNext]_allVars
  PROVE  UNCHANGED <<pac, answer>> \/ pac' # OurPac
  <1>1. bk = "off"
    BY DEF Processing, OneServes
  <1>2. op = "none" /\ editor = None
    BY <1>1 DEF IInv, TaskInv, Idle
  <1>3. CASE Served \/ Saving
    BY <1>2, <1>3 DEF Served, Saving, EditSave
  <1>4. CASE Activating
    BY <1>1, <1>4 DEF Activating, Activate, NothingToActivate
  <1>5. CASE Working
    BY <1>2, <1>5 DEF Working, Load, Read, ReadingFails, Write, WriteFails, Save, SaveFails,
      SuspendLoad, SuspendOff, SuspendRead, SuspendForeign, SuspendReadingFails,
      SuspendWrite, SuspendWriteFails, Configuring
  <1>6. CASE User
    BY <1>6, PacAssumption DEF User, UserSets, Own
  <1>7. ASSUME NEW p \in Processes, Run(p) PROVE UNCHANGED <<pac, answer>>
    BY <1>1, <1>7, NobodyAssumption DEF Run, Launch, Listen, ListenFails, TrayFails, Quit,
      BeginSuspend, Suspend, Release, Exit, ServeFails, Kill, Happens, vars
  <1>8. CASE UNCHANGED allVars
    BY <1>8 DEF allVars, vars
  <1> QED
    BY <1>3, <1>4, <1>5, <1>6, <1>7, <1>8 DEF LifecycleNext

\* The step that takes the server away in a calm run is the end of a quit.
LEMMA LastServer ==
  ASSUME calm, port # Nobody, port' = Nobody, [LifecycleNext]_allVars
  PROVE  Exit
  <1>1. PICK p \in Processes : Run(p)
    BY PhaseSteps DEF lifecycle
  <1> QED
    BY <1>1, NobodyAssumption DEF Run, Launch, Listen, ListenFails, TrayFails, Quit,
      BeginSuspend, Release, ServeFails, Kill, Happens, lifecycle

LEMMA DanglesStep ==
  ASSUME IInv, Processing, Processing', Answered, PacNeverDangles,
         [LifecycleNext]_allVars
  PROVE  PacNeverDangles'
  <1> SUFFICES ASSUME calm', pac' = OurPac, port' = Nobody
               PROVE  answer' = "error"
    BY DEF PacNeverDangles, Processing, OneServes
  <1>1. calm
    BY PhaseSteps
  <1>2. CASE port = Nobody
    BY <1>1, <1>2, NobodyServes DEF PacNeverDangles
  <1>3. CASE port # Nobody
    <2>1. Exit
      BY <1>1, <1>3, LastServer
    <2>2. bk = "stopping" /\ Idle /\ pac = OurPac /\ answer' = answer
      BY <2>1 DEF Exit
    <2>3. pac # userPac
      BY <2>2, PacAssumption DEF IInv, TypeOK, Own
    <2>4. answer # "ok"
      BY <1>1, <2>2, <2>3 DEF IInv, TaskInv, PacBackOnExit
    <2> QED
      BY <2>2, <2>4 DEF Answered
  <1> QED
    BY <1>2, <1>3

\* BKNetwork's PAC is in force only while somebody serves it, or after a quit
\* that reported an error: the order of Listen, activation, suspension and
\* Shutdown (desktop_windows.go) keeps that for any number of processes.
THEOREM PacIsServed == LifecycleSpec => []PacNeverDangles
  <1>1. LifecycleInit => Answered /\ PacNeverDangles
    BY PacAssumption DEF LifecycleInit, Init, Answered, PacNeverDangles, Own
  <1>2. Answered /\ [LifecycleNext]_allVars => Answered'
    BY AnsweredStep, LifecycleStep
  <1>3. Processing /\ IInv /\ [LifecycleNext]_allVars => Processing'
    BY ProcessingStep DEF IInv
  <1>4. /\ IInv /\ Processing /\ Processing' /\ Answered /\ PacNeverDangles
        /\ [LifecycleNext]_allVars
        => PacNeverDangles'
    BY DanglesStep
  <1> QED
    BY <1>1, <1>2, <1>3, <1>4, LifecycleInitInv, LifecycleImplements, Invariance, PTL
    DEF LifecycleSpec

\* What is proved of the PAC holds with all the processes: the user's own PAC
\* is never lost, a regular exit puts it back, and a stopping process stays
\* quiet, whoever starts, fails and quits.
THEOREM PacKeptWithProcesses ==
  LifecycleSpec => []UserPacSafe /\ []ExitRestores /\ NeverOursAfterSuspend
  BY LifecycleImplements, PacNeverLost, ExitPutsBack, QuietAfterSuspend, PTL
=============================================================================
