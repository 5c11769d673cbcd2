-------------------------- MODULE QuotaFloatProofs --------------------------
(***************************************************************************)
(* Proofs about QuotaFloat for any instances, addresses, numbers of        *)
(* attempts and disturbances.  The entries and the order of an exchange    *)
(* are right in any run, the rest in calm runs.                            *)
(***************************************************************************)
EXTENDS QuotaFloat, TLAPS

\* Before BKNetwork and quota-float start.
LEMMA InitIInv == Init => IInv
  <1> SUFFICES ASSUME Init PROVE IInv
    OBVIOUS
  <1> USE NoProxyAssumption, NoneAssumption, AttemptsAssumption
      DEF Init, Idle, Goal, Alive, Managed, NoTries, Committed
  <1>1. TypeOK
    <2>1. restoring \in 0..RestoreAttempts
      OBVIOUS
    <2>2. /\ managed \in [Instances -> Addresses \cup {NoProxy}]
          /\ env \in [Instances -> Addresses \cup {NoProxy}]
      OBVIOUS
    <2>3. status \in [Instances -> Statuses]
      BY DEF Statuses
    <2>4. closed \in [Instances -> {"no", "before", "during"}]
      OBVIOUS
    <2>5. tries \in [Instances -> 0..2]
      OBVIOUS
    <2>6. origin \in [Instances -> Instances]
      OBVIOUS
    <2> QED
      BY <2>1, <2>2, <2>3, <2>4, <2>5, <2>6 DEF TypeOK, Steps
  <1>2. ExchangeOK
    BY DEF ExchangeOK
  <1>3. OriginOK
    BY DEF OriginOK
  <1>4. FreshOK /\ EntriesMatchEnvironment
    BY DEF FreshOK, EntriesMatchEnvironment
  <1>5. RecordOK /\ \A i \in Instances : tries[i] <= 1
    BY DEF RecordOK
  <1> QED
    BY <1>1, <1>2, <1>3, <1>4, <1>5 DEF IInv

\* reconcileLocked always ends with one of the known reports.
LEMMA ReportType ==
  ASSUME NEW fails, NEW on, NEW anyManaged
  PROVE  ReportOf(fails, on, anyManaged) \in {"fresh", "disabled", "active", "waiting", "error"}
  BY DEF ReportOf

\* A complete list keeps the entries of all instances that are alive.
LEMMA ListEffect ==
  ASSUME ListSucceeds, ExchangeOK, calm
  PROVE  /\ managed' = Kept(Alive) /\ failed' = failed \cap Alive
         /\ pending' = NeedsRestart(Alive) \ failed
         /\ ~failures' => NeedsRestart(Alive) \cap failed = {}
         /\ pc' = "next" /\ target = None
  BY DEF ListSucceeds, Listed, ExchangeOK, Committed, Happens

\* Every step keeps the variables in their sets.
LEMMA TypeStep ==
  ASSUME IInv, [Next]_vars
  PROVE  TypeOK'
  <1> USE NoProxyAssumption, NoneAssumption, AttemptsAssumption DEF IInv, TypeOK, ExchangeOK, Committed, Idle, Goal, Alive, Managed, Steps, Statuses, NoTries, Started, Running, NoReconcile, manager, reconcile, processes, history
  <1>0. calm' \in BOOLEAN
    BY DEF Next, vars
  <1> SUFFICES ASSUME Step \/ UNCHANGED vars PROVE TypeOK'
    BY DEF Next
  <1> USE <1>0
  <1>1. CASE SwitchOn
    BY <1>1 DEF SwitchOn, Configure
  <1>2. CASE Activate
    BY <1>2 DEF Activate, Configure
  <1>3. CASE SwitchOff
    BY <1>3 DEF SwitchOff, CallRestore
  <1>4. CASE Suspend
    BY <1>4 DEF Suspend, CallRestore
  <1>5. CASE RestoreAttempt
    BY <1>5 DEF RestoreAttempt, Configure
  <1>6. CASE Tick
    BY <1>6 DEF Tick
  <1>7. CASE ListFails
    BY <1>7 DEF ListFails, Conclude, CountAttempt, ReportOf
  <1>8. CASE ListSucceeds
    BY <1>8 DEF ListSucceeds, Listed, NeedsRestart, Kept
  <1>9. CASE AllDone
    <2>1. report' \in {"fresh", "disabled", "active", "waiting", "error"}
      BY <1>9, ReportType DEF AllDone, Conclude
    <2>2. restoring' \in 0..RestoreAttempts
      BY <1>9 DEF AllDone, Conclude, CountAttempt
    <2> QED
      BY <1>9, <2>1, <2>2 DEF AllDone, Conclude
  <1>10. ASSUME NEW i \in Instances, Open(i) PROVE TypeOK'
    BY <1>10 DEF Open, Take
  <1>27. ASSUME NEW i \in Instances, OpenFails(i) PROVE TypeOK'
    BY <1>27 DEF OpenFails, Take, RestartFails, RememberFailure
  <1>11. CASE CreateFails
    BY <1>11 DEF CreateFails, RestartFails, RememberFailure
  <1>12. CASE Create
    BY <1>12 DEF Create
  <1>29. CASE StillThere
    BY <1>29 DEF StillThere
  <1>13. CASE VerifySucceeds
    BY <1>13 DEF VerifySucceeds
  <1>14. CASE VerifyFails
    BY <1>14 DEF VerifyFails, RestartFails, RememberFailure
  <1>15. CASE Terminate
    BY <1>15 DEF Terminate
  <1>16. CASE TerminateFails
    BY <1>16 DEF TerminateFails, RestartFails, RememberFailure
  <1>17. CASE WaitSucceeds
    BY <1>17 DEF WaitSucceeds
  <1>18. CASE WaitFails
    BY <1>18 DEF WaitFails, RestartFails, RememberFailure
  <1>19. CASE Resume
    BY <1>19 DEF Resume, Exchange
  <1>20. CASE ResumeFails
    BY <1>20 DEF ResumeFails, RestartFails, RememberFailure
  <1>21. CASE StartBKNetwork
    BY <1>21 DEF StartBKNetwork
  <1>22. CASE Exit
    <2>1. managed' \in [Instances -> Addresses \cup {NoProxy}]
      BY <1>22 DEF Exit, FreshManager
    <2>2. tries' \in [Instances -> 0..2]
      BY <1>22 DEF Exit, FreshManager
    <2>3. failed' = {} /\ mine' = {} /\ report' = "fresh" /\ enabled' = FALSE
          /\ address' = NoProxy /\ bk' = "off"
      BY <1>22 DEF Exit, FreshManager
    <2> QED
      BY <1>22, <2>1, <2>2, <2>3 DEF Exit
  <1>23. ASSUME NEW i \in Instances, UserStarts(i) PROVE TypeOK'
    BY <1>23 DEF UserStarts
  <1>24. ASSUME NEW i \in Instances, UserCloses(i) PROVE TypeOK'
    BY <1>24 DEF UserCloses
  <1>25. ASSUME NEW i \in Instances, TerminatedEnds(i) PROVE TypeOK'
    BY <1>25 DEF TerminatedEnds
  <1>26. CASE UNCHANGED vars
    BY <1>26 DEF vars, state
  <1>28. CASE Crash
    <2>1. managed' \in [Instances -> Addresses \cup {NoProxy}]
      BY <1>28 DEF Crash, FreshManager
    <2>2. tries' \in [Instances -> 0..2]
      BY <1>28 DEF Crash, FreshManager
    <2>3. restoring' \in 0..RestoreAttempts /\ failed' = {} /\ mine' = {}
      BY <1>28 DEF Crash, FreshManager
    <2>4. /\ enabled' \in BOOLEAN /\ address' \in Addresses \cup {NoProxy}
          /\ report' \in {"fresh", "disabled", "active", "waiting", "error"}
      BY <1>28 DEF Crash, FreshManager
    <2> QED
      BY <1>28, <2>1, <2>2, <2>3, <2>4 DEF Crash
  <1> QED
    BY <1>1, <1>2, <1>3, <1>4, <1>5, <1>6, <1>7, <1>8, <1>9, <1>10, <1>11,
       <1>12, <1>13, <1>14, <1>15, <1>16, <1>17, <1>18, <1>19, <1>20, <1>21,
       <1>22, <1>23, <1>24, <1>25, <1>26, <1>27, <1>28, <1>29
    DEF Step, ManagerStep, Outside

\* Every step keeps what is known of the exchange in progress.
LEMMA ExchangeStep ==
  ASSUME IInv, TypeOK', [Next]_vars
  PROVE  ExchangeOK'
  <1> USE NoProxyAssumption, NoneAssumption, AttemptsAssumption DEF IInv, TypeOK, ExchangeOK, Committed, FreshOK, Idle, Goal, Alive, Managed, Steps, Statuses, NoTries, manager, reconcile, processes, history
  <1> SUFFICES ASSUME Step \/ UNCHANGED vars PROVE ExchangeOK'
    BY DEF Next
  <1>1. CASE SwitchOn
    BY <1>1, ZenonT(30) DEF SwitchOn, Configure
  <1>2. CASE Activate
    <2>1. enabled' <=> address' # NoProxy
      BY <1>2, Zenon DEF Activate, Configure
    <2> QED
      BY <1>2, <2>1 DEF Activate, Configure
  <1>3. CASE SwitchOff
    BY <1>3 DEF SwitchOff, CallRestore
  <1>4. CASE Suspend
    BY <1>4 DEF Suspend, CallRestore
  <1>5. CASE RestoreAttempt
    BY <1>5, ZenonT(30) DEF RestoreAttempt, Configure
  <1>6. CASE Tick
    BY <1>6 DEF Tick
  <1>7. CASE ListFails
    BY <1>7 DEF ListFails, Conclude, CountAttempt, ReportOf
  <1>8. CASE ListSucceeds
    BY <1>8 DEF ListSucceeds, Listed, NeedsRestart, Kept
  <1>9. CASE AllDone
    BY <1>9 DEF AllDone, Conclude, CountAttempt, ReportOf
  <1>10. ASSUME NEW i \in Instances, Open(i) PROVE ExchangeOK'
    BY <1>10 DEF Open, Take
  <1>27. ASSUME NEW i \in Instances, OpenFails(i) PROVE ExchangeOK'
    BY <1>27 DEF OpenFails, Take, RestartFails, RememberFailure
  <1>11. CASE CreateFails
    BY <1>11 DEF CreateFails, RestartFails, RememberFailure
  <1>12. CASE Create
    BY <1>12 DEF Create
  <1>29. CASE StillThere
    BY <1>29 DEF StillThere
  <1>13. CASE VerifySucceeds
    BY <1>13 DEF VerifySucceeds
  <1>14. CASE VerifyFails
    BY <1>14 DEF VerifyFails, RestartFails, RememberFailure
  <1>15. CASE Terminate
    BY <1>15 DEF Terminate
  <1>16. CASE TerminateFails
    BY <1>16 DEF TerminateFails, RestartFails, RememberFailure
  <1>17. CASE WaitSucceeds
    BY <1>17 DEF WaitSucceeds
  <1>18. CASE WaitFails
    BY <1>18 DEF WaitFails, RestartFails, RememberFailure
  <1>19. CASE Resume
    BY <1>19 DEF Resume, Exchange
  <1>20. CASE ResumeFails
    BY <1>20 DEF ResumeFails, RestartFails, RememberFailure
  <1>21. CASE StartBKNetwork
    BY <1>21 DEF StartBKNetwork
  <1>22. CASE Exit
    BY <1>22 DEF Exit, FreshManager
  <1>23. ASSUME NEW i \in Instances, UserStarts(i) PROVE ExchangeOK'
    BY <1>23 DEF UserStarts
  <1>24. ASSUME NEW i \in Instances, UserCloses(i) PROVE ExchangeOK'
    BY <1>24 DEF UserCloses
  <1>25. ASSUME NEW i \in Instances, TerminatedEnds(i) PROVE ExchangeOK'
    BY <1>25 DEF TerminatedEnds
  <1>26. CASE UNCHANGED vars
    BY <1>26 DEF vars, state
  <1>28. CASE Crash
    BY <1>28 DEF Crash, FreshManager, NoReconcile
  <1> QED
    BY <1>1, <1>2, <1>3, <1>4, <1>5, <1>6, <1>7, <1>8, <1>9, <1>10, <1>11,
       <1>12, <1>13, <1>14, <1>15, <1>16, <1>17, <1>18, <1>19, <1>20, <1>21,
       <1>22, <1>23, <1>24, <1>25, <1>26, <1>27, <1>28, <1>29
    DEF Step, ManagerStep, Outside

\* Every step keeps that nothing is known of instances not yet started, and that
\* the entries match the environments.
LEMMA FreshStep ==
  ASSUME IInv, TypeOK', [Next]_vars
  PROVE  (FreshOK /\ EntriesMatchEnvironment)'
  <1> USE NoProxyAssumption, NoneAssumption, AttemptsAssumption DEF IInv, TypeOK, ExchangeOK, Committed, FreshOK, EntriesMatchEnvironment, Idle, Goal, Alive, Managed, Steps, Statuses, NoTries, manager, reconcile, processes, history
  <1> SUFFICES ASSUME Step \/ UNCHANGED vars PROVE (FreshOK /\ EntriesMatchEnvironment)'
    BY DEF Next
  <1>1. CASE SwitchOn
    BY <1>1 DEF SwitchOn, Configure
  <1>2. CASE Activate
    <2>1. enabled' <=> address' # NoProxy
      BY <1>2, Zenon DEF Activate, Configure
    <2> QED
      BY <1>2, <2>1 DEF Activate, Configure
  <1>3. CASE SwitchOff
    BY <1>3 DEF SwitchOff, CallRestore
  <1>4. CASE Suspend
    BY <1>4 DEF Suspend, CallRestore
  <1>5. CASE RestoreAttempt
    BY <1>5 DEF RestoreAttempt, Configure
  <1>6. CASE Tick
    BY <1>6 DEF Tick
  <1>7. CASE ListFails
    BY <1>7 DEF ListFails, Conclude, CountAttempt, ReportOf
  <1>8. CASE ListSucceeds
    BY <1>8 DEF ListSucceeds, Listed, NeedsRestart, Kept
  <1>9. CASE AllDone
    BY <1>9 DEF AllDone, Conclude, CountAttempt, ReportOf
  <1>10. ASSUME NEW i \in Instances, Open(i) PROVE (FreshOK /\ EntriesMatchEnvironment)'
    BY <1>10 DEF Open, Take
  <1>27. ASSUME NEW i \in Instances, OpenFails(i) PROVE (FreshOK /\ EntriesMatchEnvironment)'
    BY <1>27 DEF OpenFails, Take, RestartFails, RememberFailure
  <1>11. CASE CreateFails
    BY <1>11 DEF CreateFails, RestartFails, RememberFailure
  <1>12. CASE Create
    BY <1>12 DEF Create
  <1>29. CASE StillThere
    BY <1>29 DEF StillThere
  <1>13. CASE VerifySucceeds
    BY <1>13 DEF VerifySucceeds
  <1>14. CASE VerifyFails
    BY <1>14 DEF VerifyFails, RestartFails, RememberFailure
  <1>15. CASE Terminate
    BY <1>15 DEF Terminate
  <1>16. CASE TerminateFails
    BY <1>16 DEF TerminateFails, RestartFails, RememberFailure
  <1>17. CASE WaitSucceeds
    BY <1>17 DEF WaitSucceeds
  <1>18. CASE WaitFails
    BY <1>18 DEF WaitFails, RestartFails, RememberFailure
  <1>19. CASE Resume
    BY <1>19 DEF Resume, Exchange
  <1>20. CASE ResumeFails
    BY <1>20 DEF ResumeFails, RestartFails, RememberFailure
  <1>21. CASE StartBKNetwork
    BY <1>21 DEF StartBKNetwork
  <1>22. CASE Exit
    BY <1>22 DEF Exit, FreshManager
  <1>23. ASSUME NEW i \in Instances, UserStarts(i) PROVE (FreshOK /\ EntriesMatchEnvironment)'
    BY <1>23 DEF UserStarts
  <1>24. ASSUME NEW i \in Instances, UserCloses(i) PROVE (FreshOK /\ EntriesMatchEnvironment)'
    BY <1>24 DEF UserCloses
  <1>25. ASSUME NEW i \in Instances, TerminatedEnds(i) PROVE (FreshOK /\ EntriesMatchEnvironment)'
    BY <1>25 DEF TerminatedEnds
  <1>26. CASE UNCHANGED vars
    BY <1>26 DEF vars, state
  <1>28. CASE Crash
    BY <1>28 DEF Crash, FreshManager, NoReconcile
  <1> QED
    BY <1>1, <1>2, <1>3, <1>4, <1>5, <1>6, <1>7, <1>8, <1>9, <1>10, <1>11,
       <1>12, <1>13, <1>14, <1>15, <1>16, <1>17, <1>18, <1>19, <1>20, <1>21,
       <1>22, <1>23, <1>24, <1>25, <1>26, <1>27, <1>28, <1>29
    DEF Step, ManagerStep, Outside

\* Every step keeps at most one instance of an origin outside the exchange: a
\* second one appears only suspended, and runs only when the first has ended.
LEMMA OriginStep ==
  ASSUME IInv, TypeOK', ExchangeOK', [Next]_vars, calm
  PROVE  OriginOK'
  <1> USE NoProxyAssumption, NoneAssumption, AttemptsAssumption DEF IInv, TypeOK, ExchangeOK, Committed, FreshOK, OriginOK, Alive, Managed, Goal, Idle, Statuses, NoTries, manager, reconcile, processes, history
  <1> SUFFICES ASSUME Step \/ UNCHANGED vars PROVE OriginOK'
    BY DEF Next
  <1>1. CASE SwitchOn
    BY <1>1 DEF SwitchOn, Configure
  <1>2. CASE Activate
    BY <1>2 DEF Activate, Configure
  <1>3. CASE SwitchOff
    BY <1>3 DEF SwitchOff, CallRestore
  <1>4. CASE Suspend
    BY <1>4 DEF Suspend, CallRestore
  <1>5. CASE RestoreAttempt
    BY <1>5 DEF RestoreAttempt, Configure
  <1>6. CASE Tick
    BY <1>6 DEF Tick
  <1>7. CASE ListFails
    BY <1>7 DEF ListFails, Conclude, CountAttempt, ReportOf
  <1>8. CASE ListSucceeds
    BY <1>8 DEF ListSucceeds, Listed, NeedsRestart, Kept, Happens
  <1>9. CASE AllDone
    BY <1>9 DEF AllDone, Conclude, CountAttempt, ReportOf
  <1>10. ASSUME NEW i \in Instances, Open(i) PROVE OriginOK'
    BY <1>10 DEF Open, Take
  <1>27. ASSUME NEW i \in Instances, OpenFails(i) PROVE OriginOK'
    BY <1>27 DEF OpenFails, Take, RestartFails, RememberFailure
  <1>11. CASE CreateFails
    BY <1>11 DEF CreateFails, RestartFails, RememberFailure
  <1>12. CASE Create
    BY <1>12 DEF Create
  <1>29. CASE StillThere
    BY <1>29 DEF StillThere
  <1>13. CASE VerifySucceeds
    BY <1>13 DEF VerifySucceeds
  <1>14. CASE VerifyFails
    BY <1>14 DEF VerifyFails, RestartFails, RememberFailure
  <1>15. CASE Terminate
    BY <1>15 DEF Terminate
  <1>16. CASE TerminateFails
    BY <1>16 DEF TerminateFails, RestartFails, RememberFailure
  <1>17. CASE WaitSucceeds
    BY <1>17 DEF WaitSucceeds
  <1>18. CASE WaitFails
    BY <1>18 DEF WaitFails, RestartFails, RememberFailure
  <1>19. CASE Resume
    <2>1. /\ child \in Instances /\ target \in Instances
          /\ child # target /\ status[target] = "dead" /\ status[child] = "suspended"
          /\ child' = None /\ Alive' = Alive
      BY <1>19 DEF Resume
    <2>2. \A i, j \in Alive' : origin'[i] = origin'[j] => i = j
      BY <1>19, <2>1 DEF Resume
    <2> QED
      BY <1>19, <2>1, <2>2 DEF Resume, Exchange
  <1>20. CASE ResumeFails
    BY <1>20 DEF ResumeFails, RestartFails, RememberFailure
  <1>21. CASE StartBKNetwork
    BY <1>21 DEF StartBKNetwork
  <1>22. CASE Exit
    BY <1>22 DEF Exit, FreshManager
  <1>23. ASSUME NEW i \in Instances, UserStarts(i) PROVE OriginOK'
    BY <1>23 DEF UserStarts
  <1>24. ASSUME NEW i \in Instances, UserCloses(i) PROVE OriginOK'
    BY <1>24 DEF UserCloses
  <1>25. ASSUME NEW i \in Instances, TerminatedEnds(i) PROVE OriginOK'
    BY <1>25 DEF TerminatedEnds
  <1>26. CASE UNCHANGED vars
    BY <1>26 DEF vars, state
  <1> QED
    BY <1>1, <1>2, <1>3, <1>4, <1>5, <1>6, <1>7, <1>8, <1>9, <1>10, <1>11,
       <1>12, <1>13, <1>14, <1>15, <1>16, <1>17, <1>18, <1>19, <1>20, <1>21,
       <1>22, <1>23, <1>24, <1>25, <1>26, <1>27, <1>29
    DEF Step, ManagerStep, Outside, Crash, Happens

\* Every step keeps the manager's memory true to the environments.
LEMMA RecordStep ==
  ASSUME IInv, TypeOK', ExchangeOK', OriginOK', EntriesMatchEnvironment', [Next]_vars, calm
  PROVE  (RecordOK /\ \A i \in Instances : tries[i] <= 1)'
  <1> USE NoProxyAssumption, NoneAssumption, AttemptsAssumption DEF IInv, TypeOK, ExchangeOK, Committed, OriginOK, RecordOK, FreshOK, EntriesMatchEnvironment, Alive, Managed, Goal, Idle, Statuses, NoTries, manager, reconcile, processes, history
  <1> SUFFICES ASSUME Step \/ UNCHANGED vars PROVE (RecordOK /\ \A i \in Instances : tries[i] <= 1)'
    BY DEF Next
  <1>1. CASE SwitchOn
    BY <1>1 DEF SwitchOn, Configure
  <1>2. CASE Activate
    BY <1>2 DEF Activate, Configure
  <1>3. CASE SwitchOff
    BY <1>3 DEF SwitchOff, CallRestore
  <1>4. CASE Suspend
    BY <1>4 DEF Suspend, CallRestore
  <1>5. CASE RestoreAttempt
    BY <1>5 DEF RestoreAttempt, Configure
  <1>6. CASE Tick
    BY <1>6 DEF Tick
  <1>7. CASE ListFails
    BY <1>7 DEF ListFails, Conclude, CountAttempt, ReportOf
  <1>8. CASE ListSucceeds
    <2>1. /\ managed' = Kept(Alive) /\ failed' = failed \cap Alive
          /\ pending' = NeedsRestart(Alive) \ failed
          /\ ~failures' => NeedsRestart(Alive) \cap failed = {}
          /\ pc' = "next" /\ target = None
      BY <1>8, ListEffect
    <2>2. \A i \in mine \cap Alive : managed'[i] = env[i]
      BY <1>8, <2>1 DEF ListSucceeds, Listed, Kept
    <2>3. \A i \in pending' : tries[i] = 0
      BY <1>8, <2>1 DEF ListSucceeds, Listed, NeedsRestart, Kept
    <2>4. ~failures' => \A i \in mine \cap Alive : env[i] # Goal => i \in pending'
      BY <2>1 DEF NeedsRestart
    <2> QED
      BY <1>8, <2>1, <2>2, <2>3, <2>4 DEF ListSucceeds, Listed
  <1>9. CASE AllDone
    BY <1>9 DEF AllDone, Conclude, CountAttempt, ReportOf
  <1>10. ASSUME NEW i \in Instances, Open(i) PROVE (RecordOK /\ \A j \in Instances : tries[j] <= 1)'
    BY <1>10 DEF Open, Take
  <1>27. ASSUME NEW i \in Instances, OpenFails(i) PROVE (RecordOK /\ \A j \in Instances : tries[j] <= 1)'
    BY <1>27 DEF OpenFails, Take, RestartFails, RememberFailure
  <1>11. CASE CreateFails
    BY <1>11 DEF CreateFails, RestartFails, RememberFailure
  <1>12. CASE Create
    BY <1>12 DEF Create
  <1>29. CASE StillThere
    BY <1>29 DEF StillThere
  <1>13. CASE VerifySucceeds
    BY <1>13 DEF VerifySucceeds
  <1>14. CASE VerifyFails
    BY <1>14 DEF VerifyFails, RestartFails, RememberFailure
  <1>15. CASE Terminate
    BY <1>15 DEF Terminate
  <1>16. CASE TerminateFails
    BY <1>16 DEF TerminateFails, RestartFails, RememberFailure
  <1>17. CASE WaitSucceeds
    BY <1>17 DEF WaitSucceeds
  <1>18. CASE WaitFails
    BY <1>18 DEF WaitFails, RestartFails, RememberFailure
  <1>19. CASE Resume
    BY <1>19 DEF Resume, Exchange
  <1>20. CASE ResumeFails
    BY <1>20 DEF ResumeFails, RestartFails, RememberFailure
  <1>21. CASE StartBKNetwork
    BY <1>21 DEF StartBKNetwork
  <1>22. CASE Exit
    BY <1>22 DEF Exit, FreshManager
  <1>23. ASSUME NEW i \in Instances, UserStarts(i) PROVE (RecordOK /\ \A j \in Instances : tries[j] <= 1)'
    BY <1>23 DEF UserStarts
  <1>24. ASSUME NEW i \in Instances, UserCloses(i) PROVE (RecordOK /\ \A j \in Instances : tries[j] <= 1)'
    BY <1>24 DEF UserCloses
  <1>25. ASSUME NEW i \in Instances, TerminatedEnds(i) PROVE (RecordOK /\ \A j \in Instances : tries[j] <= 1)'
    BY <1>25 DEF TerminatedEnds
  <1>26. CASE UNCHANGED vars
    BY <1>26 DEF vars, state
  <1> QED
    BY <1>1, <1>2, <1>3, <1>4, <1>5, <1>6, <1>7, <1>8, <1>9, <1>10, <1>11,
       <1>12, <1>13, <1>14, <1>15, <1>16, <1>17, <1>18, <1>19, <1>20, <1>21,
       <1>22, <1>23, <1>24, <1>25, <1>26, <1>27, <1>29
    DEF Step, ManagerStep, Outside, Crash, Happens

\* The inductive invariant holds in every reachable state.
THEOREM Invariance ==
  Spec => []IInv
  <1>1. Init => IInv
    BY InitIInv
  <1>2. IInv /\ [Next]_vars => IInv'
    <2>1. [Next]_vars => (calm' <=> calm)
      BY DEF Next, vars
    <2> QED
      BY <2>1, TypeStep, ExchangeStep, FreshStep, OriginStep, RecordStep DEF IInv
  <1> QED
    BY <1>1, <1>2, PTL DEF Spec

\* Never two running instances of one program the user started.
THEOREM OneRunning ==
  Spec => []OneRunningPerOrigin
  <1>1. IInv => OneRunningPerOrigin
    BY NoneAssumption
    DEF IInv, TypeOK, ExchangeOK, OriginOK, OneRunningPerOrigin, Alive, Committed
  <1> QED
    BY <1>1, Invariance, PTL

\* An entry tells the truth about the environment of its instance.
THEOREM EntriesAreTrue == Spec => []EntriesMatchEnvironment
  <1>1. IInv => EntriesMatchEnvironment
    BY DEF IInv
  <1> QED
    BY <1>1, Invariance, PTL

\* The card says "restored" only when no adapted instance has the proxy left.
THEOREM RestoredIsTrue ==
  Spec => []RestoredMeansDefaultEnvironment
  <1>1. IInv => RestoredMeansDefaultEnvironment
    BY DEF IInv, RecordOK, RestoredMeansDefaultEnvironment, Goal
  <1> QED
    BY <1>1, Invariance, PTL

\* The card says "active" only when every adapted instance has the address of
\* the switch.
THEOREM ActiveIsTrue ==
  Spec => []ActiveMeansCurrentAddress
  <1>1. IInv => ActiveMeansCurrentAddress
    BY DEF IInv, ExchangeOK, RecordOK, ActiveMeansCurrentAddress, Goal
  <1> QED
    BY <1>1, Invariance, PTL

\* One exchange of an instance between two Configure calls.
THEOREM TriedOnce ==
  Spec => []TriedOncePerConfigure
  <1>1. IInv => TriedOncePerConfigure
    BY DEF IInv, TriedOncePerConfigure
  <1> QED
    BY <1>1, Invariance, PTL

\* What the user closed before the last look of its exchange does not come back.
THEOREM ClosedForGood ==
  Spec => []ClosedStaysClosed
  <1>1. IInv => ClosedStaysClosed
    BY DEF IInv, OriginOK, ClosedStaysClosed, Started, Running, Alive
  <1> QED
    BY <1>1, Invariance, PTL

\* The original is terminated only beside its prepared replacement.
THEOREM PreparedFirst ==
  Spec => SwitchOnlyWhenPrepared
  <1> DEFINE Prepared ==
        \A i \in Instances : status[i] = "live" /\ status'[i] = "dying" =>
          \E c \in Instances :
             status[c] = "suspended" /\ origin[c] = origin[i] /\ env[c] = Goal
  <1>1. IInv /\ [Next]_vars => Prepared
    <2> SUFFICES ASSUME IInv, [Next]_vars,
                        NEW i \in Instances, status[i] = "live", status'[i] = "dying"
                 PROVE  \E c \in Instances :
                          status[c] = "suspended" /\ origin[c] = origin[i] /\ env[c] = Goal
      OBVIOUS
    <2> USE NoneAssumption DEF IInv, TypeOK, ExchangeOK, Committed
    <2>1. ~UNCHANGED processes
      BY DEF processes
    <2>2. ASSUME NEW j \in Instances, RestartFails(j) PROVE FALSE
      BY <2>2 DEF RestartFails
    <2>3. CASE Create
      BY <2>3 DEF Create
    <2>4. CASE Resume
      BY <2>4 DEF Resume
    <2>5. CASE \E j \in Instances : UserStarts(j) \/ UserCloses(j) \/ TerminatedEnds(j)
      BY <2>5 DEF UserStarts, UserCloses, TerminatedEnds
    <2>6. CASE Terminate
      BY <2>6 DEF Terminate
    <2>7. CASE \E j \in Instances : Open(j) \/ OpenFails(j)
      BY <2>1, <2>2, <2>7 DEF Open, OpenFails, processes
    <2>8. CASE CreateFails \/ VerifyFails \/ TerminateFails \/ WaitFails \/ ResumeFails
      BY <2>2, <2>8 DEF CreateFails, VerifyFails, TerminateFails, WaitFails, ResumeFails
    <2>9. CASE SwitchOn \/ Activate \/ SwitchOff \/ Suspend \/ RestoreAttempt \/ Tick
      BY <2>1, <2>9 DEF SwitchOn, Activate, SwitchOff, Suspend, RestoreAttempt, Tick,
                        Configure, CallRestore
    <2>10. CASE ListFails \/ ListSucceeds \/ AllDone \/ StillThere \/ VerifySucceeds
                  \/ WaitSucceeds
      BY <2>1, <2>10 DEF ListFails, ListSucceeds, Listed, AllDone, StillThere,
                         VerifySucceeds, WaitSucceeds
    <2>11. CASE StartBKNetwork \/ Exit \/ Crash \/ UNCHANGED vars
      BY <2>1, <2>11 DEF StartBKNetwork, Exit, Crash, vars, state
    <2> QED
      BY <2>3, <2>4, <2>5, <2>6, <2>7, <2>8, <2>9, <2>10, <2>11
      DEF Next, Step, ManagerStep, Outside
  <1> QED
    BY <1>1, Invariance, PTL DEF Spec, SwitchOnlyWhenPrepared
=============================================================================
