-------------------------- MODULE HomeRoutingProofs --------------------------
(***************************************************************************)
(* Proofs about HomeRouting for any sets of tunnels, adapters, options,    *)
(* endpoints and markers: the adapter can be restored from the record on   *)
(* disk in every reachable state, and HomeRouting implements RoutingLease. *)
(***************************************************************************)
EXTENDS HomeRouting, TLAPS

LEMMA InitIInv == Init => IInv
  BY MarkerAssumption
  DEF Init, IInv, TypeOK, ControlInv, RecordedFlags, Recoverable, Starting,
      Restoring, OwnedRoutes, Records, Routes

\* Every step keeps the variables in their sets.
LEMMA TypeStep == IInv /\ [Next]_vars => TypeOK'
  <1> SUFFICES ASSUME IInv, [Next]_vars PROVE TypeOK'
    OBVIOUS
  <1> USE DEF IInv, ControlInv, TypeOK, Starting, Restoring, Goto, Records, Routes
  <1>1. ASSUME NEW a \in Adapters, NEW t \in Tunnels, StartHome(a, t) PROVE TypeOK'
    BY <1>1 DEF StartHome
  <1>2. CASE Snapshot \/ KeepRecord \/ Save \/ Disable \/ StartService
    BY <1>2 DEF Snapshot, KeepRecord, Save, Disable, StartService
  <1>3. CASE ProtectBegin
    BY <1>3 DEF ProtectBegin, RecordOf
  <1>4. ASSUME NEW e \in Endpoints, RecordRoute(e) \/ RouteThere(e) PROVE TypeOK'
    BY <1>4 DEF RecordRoute, RouteThere
  <1>5. CASE AddRoute
    BY <1>5 DEF AddRoute
  <1>6. CASE VerifyRoute \/ Protected \/ StartFails
    BY <1>6 DEF VerifyRoute, Protected, StartFails
  <1>7. ASSUME NEW t \in Tunnels, StopHome(t) PROVE TypeOK'
    BY <1>7 DEF StopHome
  <1>8. CASE StopConfirmed \/ StopUnconfirmed \/ NothingToRestore \/ RestoreBegin
    BY <1>8 DEF StopConfirmed, StopUnconfirmed, NothingToRestore, RestoreBegin, RecordOf
  <1>9. ASSUME NEW r \in Endpoints \X Markers, RemoveRoute(r) PROVE TypeOK'
    BY <1>9 DEF RemoveRoute
  <1>10. CASE RestoreFlags \/ Forget \/ RestoreFails \/ Crash
    BY <1>10 DEF RestoreFlags, Forget, RestoreFails, Crash
  <1>11. CASE Outside
    BY <1>11 DEF Outside, OutsideFlags, OutsideAddsRoute, OutsideRemovesRoute,
                 OutsideStartsTunnel, OutsideStopsTunnel, control
  <1>12. CASE UNCHANGED vars
    BY <1>12 DEF vars, control
  <1> QED
    BY <1>1, <1>2, <1>3, <1>4, <1>5, <1>6, <1>7, <1>8, <1>9, <1>10, <1>11, <1>12
    DEF Next, Start, Stop

\* Every step keeps the rest of the invariant: before the first change the
\* options are on record, and a record goes only when all is undone.
LEMMA ControlStep ==
  IInv /\ TypeOK' /\ [Next]_vars => (ControlInv /\ RecordedFlags /\ Recoverable)'
  <1> DEFINE Inv == ControlInv /\ RecordedFlags /\ Recoverable
  <1> SUFFICES ASSUME IInv, TypeOK', [Next]_vars PROVE Inv'
    OBVIOUS
  <1> USE MarkerAssumption, NoRecordAssumption
      DEF IInv, TypeOK, ControlInv, RecordedFlags, Recoverable, Goto, Records,
          Routes, OwnedRoutes, Restoring, Starting
  <1>1. ASSUME NEW a \in Adapters, NEW t \in Tunnels, StartHome(a, t) PROVE Inv'
    BY <1>1 DEF StartHome
  <1>2. CASE Snapshot
    BY <1>2 DEF Snapshot
  <1>3. CASE KeepRecord
    BY <1>3 DEF KeepRecord, OwnedBy
  <1>4. CASE Save
    BY <1>4 DEF Save
  <1>5. CASE Disable
    BY <1>5 DEF Disable
  <1>6. CASE StartService
    BY <1>6 DEF StartService
  <1>7. CASE ProtectBegin
    BY <1>7 DEF ProtectBegin, RecordOf
  <1>8. ASSUME NEW e \in Endpoints, RecordRoute(e) PROVE Inv'
    BY <1>8 DEF RecordRoute
  <1>9. ASSUME NEW e \in Endpoints, RouteThere(e) PROVE Inv'
    BY <1>9 DEF RouteThere
  <1>10. CASE AddRoute
    BY <1>10 DEF AddRoute
  <1>11. CASE VerifyRoute \/ Protected \/ StartFails
    BY <1>11 DEF VerifyRoute, Protected, StartFails
  <1>12. ASSUME NEW t \in Tunnels, StopHome(t) PROVE Inv'
    BY <1>12 DEF StopHome
  <1>13. CASE StopConfirmed
    BY <1>13 DEF StopConfirmed
  <1>14. CASE StopUnconfirmed \/ NothingToRestore
    BY <1>14 DEF StopUnconfirmed, NothingToRestore, RecordOf
  <1>15. CASE RestoreBegin
    BY <1>15 DEF RestoreBegin, RecordOf
  <1>16. ASSUME NEW r \in Endpoints \X Markers, RemoveRoute(r) PROVE Inv'
    BY <1>16 DEF RemoveRoute
  <1>17. CASE RestoreFlags
    BY <1>17 DEF RestoreFlags
  <1>18. CASE Forget
    BY <1>18 DEF Forget
  <1>19. CASE RestoreFails \/ Crash
    BY <1>19 DEF RestoreFails, Crash
  <1>20. ASSUME NEW a \in Adapters, OutsideFlags(a) PROVE Inv'
    BY <1>20 DEF OutsideFlags, Undisturbed, control
  <1>21. ASSUME NEW a \in Adapters, NEW e \in Endpoints, OutsideAddsRoute(a, e)
         PROVE  Inv'
    BY <1>21 DEF OutsideAddsRoute, control
  <1>22. ASSUME NEW r \in Routes, OutsideRemovesRoute(r) PROVE Inv'
    BY <1>22 DEF OutsideRemovesRoute, control
  <1>23. ASSUME NEW t \in Tunnels,
                OutsideStartsTunnel(t) \/ OutsideStopsTunnel(t)
         PROVE  Inv'
    BY <1>23 DEF OutsideStartsTunnel, OutsideStopsTunnel, control
  <1>24. CASE UNCHANGED vars
    BY <1>24 DEF vars, control
  <1> QED
    BY <1>1, <1>2, <1>3, <1>4, <1>5, <1>6, <1>7, <1>8, <1>9, <1>10, <1>11, <1>12,
       <1>13, <1>14, <1>15, <1>16, <1>17, <1>18, <1>19, <1>20, <1>21, <1>22,
       <1>23, <1>24
    DEF Next, Start, Stop, Outside

LEMMA NextIInv == IInv /\ [Next]_vars => IInv'
  BY TypeStep, ControlStep DEF IInv

\* The inductive invariant holds in every reachable state.
THEOREM SpecIInv == Spec => []IInv
  BY InitIInv, NextIInv, PTL DEF Spec

\* Whenever the process dies, everything BKNetwork changed on an adapter can be
\* undone from the record on disk.
THEOREM SpecRecoverable == Spec => []Recoverable
  <1>1. IInv => Recoverable
    BY DEF IInv
  <1> QED
    BY <1>1, SpecIInv, PTL

\* No step of BKNetwork weakens the protection of the recorded tunnel while
\* that tunnel is running.
THEOREM SpecProtectionOutlivesTunnel == Spec => ProtectionOutlivesTunnel
  <1> DEFINE A == OwnStep /\ record # NoRecord /\ record.tunnel \in running =>
                    /\ record' # NoRecord
                    /\ OwnedRoutes \subseteq OwnedRoutes'
                    /\ flags'[record.adapter] \subseteq flags[record.adapter]
  <1>1. IInv /\ [Next]_vars => [A]_vars
    <2> SUFFICES ASSUME IInv, Next, OwnStep, record # NoRecord,
                        record.tunnel \in running
                 PROVE  /\ record' # NoRecord
                        /\ OwnedRoutes \subseteq OwnedRoutes'
                        /\ flags'[record.adapter] \subseteq flags[record.adapter]
      BY DEF A
    <2> USE NoRecordAssumption
        DEF IInv, TypeOK, ControlInv, Goto, Records, Routes, OwnedRoutes,
            Restoring, Starting
    <2>1. CASE Start
      BY <2>1 DEF Start, StartHome, Snapshot, KeepRecord, Save, Disable,
                  StartService, ProtectBegin, RecordOf, RecordRoute, RouteThere,
                  AddRoute, VerifyRoute, Protected, StartFails
    <2>2. CASE Stop
      BY <2>2 DEF Stop, StopHome, StopConfirmed, StopUnconfirmed,
                  NothingToRestore, RestoreBegin, RecordOf, RemoveRoute,
                  RestoreFlags, Forget, RestoreFails
    <2>3. CASE Crash
      BY <2>3 DEF Crash
    <2>4. CASE Outside
      BY <2>4 DEF Outside, OutsideFlags, OutsideAddsRoute, OutsideRemovesRoute,
                  OutsideStartsTunnel, OutsideStopsTunnel, OwnStep
    <2> QED
      BY <2>1, <2>2, <2>3, <2>4 DEF Next
  <1> QED
    BY <1>1, SpecIInv, PTL DEF Spec, ProtectionOutlivesTunnel

\* No step of BKNetwork adds or removes a route that is not its own.
THEOREM SpecForeignRoutesUntouched == Spec => ForeignRoutesUntouched
  <1> DEFINE A == OwnStep => {r \in routes : r[3] = Foreign}
                               = {r \in routes' : r[3] = Foreign}
  <1>1. IInv /\ [Next]_vars => [A]_vars
    <2> SUFFICES ASSUME IInv, Next, OwnStep
                 PROVE  {r \in routes : r[3] = Foreign}
                          = {r \in routes' : r[3] = Foreign}
      BY DEF A
    <2> USE MarkerAssumption DEF IInv, TypeOK, ControlInv
    <2>1. CASE AddRoute
      BY <2>1 DEF AddRoute
    <2>2. ASSUME NEW r \in Endpoints \X Markers, RemoveRoute(r)
          PROVE  {q \in routes : q[3] = Foreign} = {q \in routes' : q[3] = Foreign}
      BY <2>2 DEF RemoveRoute
    <2>3. CASE UNCHANGED routes
      BY <2>3
    <2> QED
      BY <2>1, <2>2, <2>3
      DEF Next, Start, Stop, Crash, Outside, OwnStep, StartHome, Snapshot,
          KeepRecord, Save, Disable, StartService, ProtectBegin, RecordRoute,
          RouteThere, VerifyRoute, Protected, StartFails, StopHome,
          StopConfirmed, StopUnconfirmed, NothingToRestore, RestoreBegin,
          RestoreFlags, Forget, RestoreFails, OutsideFlags, OutsideAddsRoute,
          OutsideRemovesRoute, OutsideStartsTunnel, OutsideStopsTunnel
  <1> QED
    BY <1>1, SpecIInv, PTL DEF Spec, ForeignRoutesUntouched

-----------------------------------------------------------------------------
(* HomeRouting implements RoutingLease: every step is a step of the lease   *)
(* or leaves it alone.                                                      *)

\* The steps that only move the operation along, start or stop a tunnel, or
\* touch routes that carry no marker.
LEMMA StutterStep ==
  ASSUME UNCHANGED <<record, flags, orig>>, OwnedRoutes' = OwnedRoutes
  PROVE  UNCHANGED Lease!leaseVars
  BY DEF Lease!leaseVars

LEMMA LeaseStep == IInv /\ IInv' /\ [Next]_vars => [Lease!Next]_(Lease!leaseVars)
  <1> SUFFICES ASSUME IInv, IInv', [Next]_vars
               PROVE  Lease!Next \/ UNCHANGED Lease!leaseVars
    OBVIOUS
  <1> USE MarkerAssumption, NoRecordAssumption
      DEF IInv, TypeOK, ControlInv, Goto, Records, Routes, Restoring, Starting
  <1>1. ASSUME NEW a \in Adapters, NEW t \in Tunnels, StartHome(a, t)
        PROVE  UNCHANGED Lease!leaseVars
    BY <1>1, StutterStep DEF StartHome, OwnedRoutes
  <1>2. CASE Snapshot \/ KeepRecord \/ StartService \/ VerifyRoute \/ Protected
               \/ StartFails \/ StopConfirmed \/ StopUnconfirmed
               \/ NothingToRestore \/ RestoreBegin \/ RestoreFails \/ Crash
    BY <1>2, StutterStep
    DEF Snapshot, KeepRecord, StartService, VerifyRoute, Protected, StartFails,
        StopConfirmed, StopUnconfirmed, NothingToRestore, RestoreBegin,
        RestoreFails, Crash, OwnedRoutes
  <1>3. CASE Save
    BY <1>3 DEF Save, Lease!Next, Lease!Take, OwnedRoutes
  <1>4. CASE Disable \/ ProtectBegin
    BY <1>4 DEF Disable, ProtectBegin, RecordOf, Lease!Next, Lease!Adjust,
                OwnedRoutes
  <1>5. ASSUME NEW e \in Endpoints, RecordRoute(e)
        PROVE  Lease!Next
    BY <1>5 DEF RecordRoute, Lease!Next, Lease!Announce, OwnedRoutes
  <1>6. ASSUME NEW e \in Endpoints, RouteThere(e)
        PROVE  UNCHANGED Lease!leaseVars
    BY <1>6, StutterStep DEF RouteThere, OwnedRoutes
  <1>7. ASSUME record # NoRecord,
               UNCHANGED <<record, flags, orig>>,
               OwnedRoutes' \subseteq OwnedRoutes
                 \cup {<<record.adapter, r[1], r[2]>> : r \in record.routes}
        PROVE  Lease!Next
    <2>1. flags' = [flags EXCEPT ![record.adapter] = flags[record.adapter]]
      BY <1>7
    <2> QED
      BY <1>7, <2>1 DEF Lease!Next, Lease!Adjust
  <1>8. CASE AddRoute
    BY <1>7, <1>8 DEF AddRoute, OwnedRoutes
  <1>9. ASSUME NEW r \in Endpoints \X Markers, RemoveRoute(r)
        PROVE  Lease!Next
    BY <1>7, <1>9 DEF RemoveRoute, OwnedRoutes
  <1>10. CASE RestoreFlags
    BY <1>10 DEF RestoreFlags, Lease!Next, Lease!Adjust, OwnedRoutes
  <1>11. CASE Forget
    <2>1. OwnedRoutes = {}
      BY <1>11 DEF Forget
    <2> QED
      BY <1>11, <2>1 DEF Forget, Lease!Next, Lease!Release, OwnedRoutes
  <1>12. ASSUME NEW t \in Tunnels,
                StopHome(t) \/ OutsideStartsTunnel(t) \/ OutsideStopsTunnel(t)
         PROVE  UNCHANGED Lease!leaseVars
    BY <1>12, StutterStep
    DEF StopHome, OutsideStartsTunnel, OutsideStopsTunnel, OwnedRoutes
  <1>13. ASSUME NEW a \in Adapters, OutsideFlags(a)
         PROVE  Lease!Next
    <2>1. CASE record # NoRecord /\ record.adapter = a
      BY <1>13, <2>1 DEF OutsideFlags, control, Lease!Next, Lease!Adjust, OwnedRoutes
    <2>2. CASE ~(record # NoRecord /\ record.adapter = a)
      BY <1>13, <2>2
      DEF OutsideFlags, control, Lease!Next, Lease!Outside, Lease!Leased, OwnedRoutes
    <2> QED
      BY <2>1, <2>2
  <1>14. ASSUME NEW a \in Adapters, NEW e \in Endpoints, OutsideAddsRoute(a, e)
         PROVE  UNCHANGED Lease!leaseVars
    <2>1. OwnedRoutes' = OwnedRoutes
      BY <1>14 DEF OutsideAddsRoute, OwnedRoutes
    <2> QED
      BY <1>14, <2>1, StutterStep DEF OutsideAddsRoute
  <1>15. ASSUME NEW r \in Routes, OutsideRemovesRoute(r)
         PROVE  Lease!Next \/ UNCHANGED Lease!leaseVars
    <2>1. CASE record # NoRecord
      BY <1>7, <1>15, <2>1 DEF OutsideRemovesRoute, OwnedRoutes
    <2>2. CASE record = NoRecord
      <3>1. OwnedRoutes' = OwnedRoutes
        BY <1>15, <2>2 DEF OutsideRemovesRoute, OwnedRoutes, Recoverable
      <3> QED
        BY <1>15, <3>1, StutterStep DEF OutsideRemovesRoute
    <2> QED
      BY <2>1, <2>2
  <1>16. CASE UNCHANGED vars
    BY <1>16, StutterStep DEF vars, OwnedRoutes
  <1> QED
    BY <1>1, <1>2, <1>3, <1>4, <1>5, <1>6, <1>8, <1>9, <1>10, <1>11, <1>12,
       <1>13, <1>14, <1>15, <1>16
    DEF Next, Start, Stop, Outside

\* HomeRouting implements the promise of RoutingLease.
THEOREM SpecImplementsLease == Spec => ImplementsLease
  <1>1. Init => Lease!Init
    BY DEF Init, Lease!Init, OwnedRoutes
  <1> QED
    BY <1>1, LeaseStep, SpecIInv, PTL DEF Spec, ImplementsLease, Lease!Spec

=============================================================================
