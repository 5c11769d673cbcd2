----------------------- MODULE SnapshotCollectionProofs -----------------------
(***************************************************************************)
(* Proofs about SnapshotCollection for any sets of readers, operations and *)
(* call objects: requests never receive stale parts, and collections are   *)
(* shared within a generation.  Then about StatusPage, two of the readers  *)
(* among any others: what the page waits for, and that it never goes back  *)
(* behind a refresh that has ended.                                        *)
(***************************************************************************)
EXTENDS StatusPage, TLAPS

USE NoCallAssumption, BoundsAssumption

\* The state that the program starts in satisfies the inductive invariant.
LEMMA InitIInv == Init => IInv
  BY DEF Init, IInv, TypeOK, CallState, CurrentIsShareable, Active, Waiting,
         ActiveInGenerationIsCurrent, FloorsArePast, FreshSnapshot,
         OneCollectionPerGeneration

\* Requests arriving, being answered and giving up preserve the invariant.
LEMMA ReaderStepIInv ==
  ASSUME IInv, NEW r \in Readers, ReaderStep(r)
  PROVE  IInv'
  <1> USE DEF IInv, TypeOK, CallState, CurrentIsShareable, Active, Waiting,
              ActiveInGenerationIsCurrent, FloorsArePast, FreshSnapshot,
              OneCollectionPerGeneration
  <1>1. CASE Join(r)
    BY <1>1 DEF Join
  <1>2. CASE Start(r)
    <2>1. PICK c \in Calls :
            /\ Unreferenced(c)
            /\ current' = c
            /\ call' = [call EXCEPT ![c] = [state |-> "running", seen |-> {},
                                            gen |-> generation]]
            /\ reader' = [reader EXCEPT ![r] = [call |-> c, floor |-> floor]]
      BY <1>2 DEF Start
    <2>2. TypeOK'
      BY <1>2, <2>1 DEF Start
    <2>3. CurrentIsShareable'
      BY <1>2, <2>1 DEF Start
    <2>4. ActiveInGenerationIsCurrent'
      BY <1>2, <2>1 DEF Start
    <2>5. FloorsArePast'
      BY <1>2, <2>1 DEF Start
    <2>6. FreshSnapshot'
      BY <1>2, <2>1 DEF Start, Unreferenced
    <2>7. OneCollectionPerGeneration'
      BY <1>2, <2>1 DEF Start
    <2> QED
      BY <2>2, <2>3, <2>4, <2>5, <2>6, <2>7
  <1>3. CASE Receive(r)
    BY <1>3 DEF Receive
  <1>4. CASE GiveUp(r)
    BY <1>4 DEF GiveUp
  <1> QED
    BY <1>1, <1>2, <1>3, <1>4 DEF ReaderStep

\* The goroutine of a call preserves the invariant; the guard in Close is what
\* keeps a newer call published when an older one finishes.
LEMMA CallStepIInv ==
  ASSUME IInv, NEW c \in Calls, CallStep(c)
  PROVE  IInv'
  <1> USE DEF IInv, TypeOK, CallState, CurrentIsShareable, Active, Waiting,
              ActiveInGenerationIsCurrent, FloorsArePast, FreshSnapshot,
              OneCollectionPerGeneration
  <1>1. CASE ReadPart(c)
    BY <1>1 DEF ReadPart
  <1>2. CASE CollectReturns(c)
    BY <1>2 DEF CollectReturns
  <1>3. CASE Close(c)
    BY <1>3 DEF Close
  <1> QED
    BY <1>1, <1>2, <1>3 DEF CallStep

\* Both boundaries of an operation preserve the invariant.
LEMMA OperationStepIInv ==
  ASSUME IInv, NEW o \in Operations, OperationStep(o)
  PROVE  IInv'
  <1> USE DEF IInv, TypeOK, CallState, CurrentIsShareable, Active, Waiting,
              ActiveInGenerationIsCurrent, FloorsArePast, FreshSnapshot,
              OneCollectionPerGeneration
  <1>1. CASE BeginOperation(o)
    BY <1>1 DEF BeginOperation, invalidate
  <1>2. CASE EndOperation(o)
    BY <1>2 DEF EndOperation, invalidate
  <1> QED
    BY <1>1, <1>2 DEF OperationStep

LEMMA NextIInv == IInv /\ [Next]_vars => IInv'
  <1> SUFFICES ASSUME IInv, [Next]_vars PROVE IInv'
    OBVIOUS
  <1>1. CASE NetworkChanges
    BY <1>1 DEF NetworkChanges, IInv, TypeOK, CallState, CurrentIsShareable,
                Active, Waiting, ActiveInGenerationIsCurrent, FloorsArePast,
                FreshSnapshot, OneCollectionPerGeneration
  <1>2. CASE UNCHANGED vars
    BY <1>2 DEF vars, IInv, TypeOK, CallState, CurrentIsShareable, Active,
                Waiting, ActiveInGenerationIsCurrent, FloorsArePast,
                FreshSnapshot, OneCollectionPerGeneration
  <1> QED
    BY <1>1, <1>2, ReaderStepIInv, CallStepIInv, OperationStepIInv DEF Next

\* The inductive invariant holds in every reachable state, for any numbers of
\* readers, operations and calls.
THEOREM SpecIInv == Spec => []IInv
  BY InitIInv, NextIInv, PTL DEF Spec

\* No request, joined or started, ever receives a part of the snapshot that was
\* read before the last operation boundary preceding the request.
THEOREM SpecFreshSnapshot == Spec => []FreshSnapshot
  <1>1. IInv => FreshSnapshot
    BY DEF IInv
  <1> QED
    BY <1>1, SpecIInv, PTL

\* Between two operation boundaries at most one collection is running.
THEOREM SpecOneCollection == Spec => []OneCollectionPerGeneration
  <1>1. IInv => OneCollectionPerGeneration
    BY DEF IInv
  <1> QED
    BY <1>1, SpecIInv, PTL

\* A completed snapshot is never served to a later request: no step makes a
\* request wait for a call whose result has already been delivered.
THEOREM SpecNoJoinAfterCompletion == Spec => NoJoinAfterCompletion
  <1> DEFINE A == \A r \in Readers :
                    ~Waiting(r) /\ Waiting(r)'
                      => call'[reader'[r].call].state # "closed"
  <1>1. IInv /\ [Next]_vars => [A]_vars
    <2> SUFFICES ASSUME IInv, Next, NEW r \in Readers,
                        ~Waiting(r), Waiting(r)'
                 PROVE  call'[reader'[r].call].state # "closed"
      BY DEF A
    <2>1. PICK q \in Readers : ReaderStep(q)
      BY DEF Next, Waiting, CallStep, ReadPart, CollectReturns, Close,
             OperationStep, BeginOperation, EndOperation, NetworkChanges
    <2>2. CASE Join(q)
      BY <2>2 DEF Join, Waiting, IInv, TypeOK, CurrentIsShareable, Active
    <2>3. CASE Start(q)
      BY <2>3 DEF Start, Waiting, IInv, TypeOK
    <2>4. CASE Receive(q) \/ GiveUp(q)
      BY <2>4 DEF Receive, GiveUp, Waiting, IInv, TypeOK
    <2> QED
      BY <2>1, <2>2, <2>3, <2>4 DEF ReaderStep
  <1> QED
    BY <1>1, SpecIInv, PTL DEF Spec, NoJoinAfterCompletion

-----------------------------------------------------------------------------
(* StatusPage                                                              *)

\* What the page and its server do are steps of the collection.
LEMMA PageStep ==
  ASSUME [PageNext]_allVars
  PROVE  [Next]_vars
  <1>1. Page \in Readers /\ Socket \in Readers /\ Click \in Operations
    BY PageAssumption, ClickAssumption
  <1>2. CASE Server
    BY <1>1, <1>2 DEF Server, Next, OperationStep
  <1>3. CASE Connect \/ SocketStatus \/ Disconnect
    BY <1>1, <1>3 DEF Connect, SocketStatus, Disconnect, Next, ReaderStep
  <1>4. CASE Refresh \/ ForceRefresh \/ StartFollowUp \/ AskAgain \/ WarpPoll
    BY <1>1, <1>4
    DEF Refresh, ForceRefresh, StartFollowUp, AskAgain, WarpPoll, Fetch, Next, ReaderStep
  <1>5. CASE Render \/ RefreshFails
    BY <1>1, <1>5 DEF Render, RefreshFails, Next, ReaderStep
  <1>6. CASE ClickSwitch
    BY <1>1, <1>6 DEF ClickSwitch, Next, OperationStep
  <1>7. CASE UNCHANGED allVars
    BY <1>7 DEF allVars
  <1> QED
    BY <1>2, <1>3, <1>4, <1>5, <1>6, <1>7 DEF PageNext

\* The page, with its requests and its WebSocket, implements the collection.
THEOREM PageImplements == PageSpec => Spec
  <1>1. PageInit => Init
    BY DEF PageInit
  <1>2. [PageNext]_allVars => [Next]_vars
    BY PageStep
  <1> QED
    BY <1>1, <1>2, PTL DEF PageSpec, Spec

\* What a request of the page is bound to, and how it ends.
LEMMA FetchBinds ==
  ASSUME TypeOK, Fetch
  PROVE  /\ promise' = TRUE /\ Waiting(Page)' /\ reader'[Page].floor = floor
         /\ UNCHANGED floor
  BY PageAssumption DEF Fetch, Join, Start, Waiting, TypeOK

LEMMA EndOfRequest ==
  ASSUME TypeOK, Receive(Page) \/ GiveUp(Page)
  PROVE  Waiting(Page) /\ ~Waiting(Page)' /\ UNCHANGED floor
  BY PageAssumption DEF Receive, GiveUp, Waiting, TypeOK

\* The WebSocket and the server leave the page's request alone.
LEMMA OthersLeavePage ==
  ASSUME TypeOK, Server \/ Connect \/ SocketStatus \/ Disconnect \/ ClickSwitch
  PROVE  reader'[Page] = reader[Page]
  BY PageAssumption
  DEF TypeOK, Server, Connect, SocketStatus, Disconnect, ClickSwitch, Join, Start, Receive, GiveUp,
    CallStep, ReadPart, CollectReturns, Close, BeginOperation, EndOperation, NetworkChanges

LEMMA WaitingIsSame ==
  ASSUME reader'[Page] = reader[Page]
  PROVE  Waiting(Page)' <=> Waiting(Page)
  BY DEF Waiting

\* What was read is a set of versions.
LEMMA SeenVersions ==
  ASSUME TypeOK, Receive(Page)
  PROVE  call[reader[Page].call].seen \subseteq Nat
  BY PageAssumption DEF TypeOK, Receive, Waiting

\* What an answer puts on display was read for it.
LEMMA Displayed ==
  ASSUME NEW seen, GetNetworkWithValidWarpStatus(seen)
  PROVE  shown' \subseteq seen /\ warp' \subseteq seen
  BY DEF GetNetworkWithValidWarpStatus, Foreign

\* The poll asks like any forced refresh, or not at all; the request in flight
\* stays.
LEMMA PollForces ==
  ASSUME TypeOK, PageOK, WarpPoll
  PROVE  /\ promise' <=> Waiting(Page)'
         /\ {promise', followUp'} \subseteq BOOLEAN
         /\ promise => promise'
         /\ followUp => followUp'
         /\ UNCHANGED floor
         /\ promise => reader'[Page] = reader[Page]
         /\ Waiting(Page)' /\ ~promise => reader'[Page].floor = floor
  <1>1. CASE promise \/ followUp
    BY <1>1 DEF WarpPoll, PageOK, vars, Waiting
  <1>2. CASE ~(promise \/ followUp)
    <2>1. Fetch \/ UNCHANGED <<vars, promise>>
      BY <1>2 DEF WarpPoll
    <2>2. CASE Fetch
      BY <1>2, <2>2, FetchBinds DEF WarpPoll, PageOK
    <2>3. CASE UNCHANGED <<vars, promise>>
      BY <1>2, <2>3 DEF WarpPoll, PageOK, vars, Waiting
    <2> QED
      BY <2>1, <2>2, <2>3
  <1> QED
    BY <1>1, <1>2

LEMMA PageOKStep ==
  ASSUME TypeOK, PageOK, [PageNext]_allVars
  PROVE  PageOK'
  <1> USE DEF PageOK
  <1>1. floor \in Nat
    BY DEF TypeOK
  <1>2. CASE Server \/ Connect \/ Disconnect
    <2>1. UNCHANGED <<promise, followUp, action, awaited, shown, warp, since, confirmed>>
      BY <1>2 DEF Server, Connect, Disconnect, page, display
    <2>2. Waiting(Page)' <=> Waiting(Page)
      BY <1>2, OthersLeavePage, WaitingIsSame
    <2> QED
      BY <2>1, <2>2
  <1>3. CASE SocketStatus
    BY <1>3, OthersLeavePage, WaitingIsSame DEF SocketStatus, display, Foreign
  <1>4. CASE ClickSwitch
    BY <1>4, OthersLeavePage, WaitingIsSame DEF ClickSwitch, display, Foreign
  <1>5. CASE Refresh
    BY <1>5, FetchBinds DEF Refresh, display
  <1>6. CASE ForceRefresh
    BY <1>6 DEF ForceRefresh, vars, Waiting, display
  <1>7. CASE StartFollowUp
    BY <1>7, FetchBinds DEF StartFollowUp, display
  <1>8. CASE AskAgain
    <2>1. CASE promise \/ followUp
      BY <1>1, <1>8, <2>1 DEF AskAgain, vars, Waiting, display
    <2>2. CASE ~(promise \/ followUp)
      BY <1>1, <1>8, <2>2, FetchBinds DEF AskAgain, display
    <2> QED
      BY <2>1, <2>2
  <1>9. CASE Render
    <2>1. shown' \subseteq Nat /\ warp' \subseteq Nat
      BY <1>9, SeenVersions, Displayed DEF Render
    <2> QED
      BY <1>9, <2>1, EndOfRequest DEF Render, Settle
  <1>10. CASE RefreshFails
    BY <1>10, EndOfRequest DEF RefreshFails, Settle, display
  <1>11. CASE UNCHANGED allVars
    BY <1>11 DEF allVars, vars, page, display, Waiting
  <1>12. CASE WarpPoll
    <2>1. warp' \subseteq Nat /\ UNCHANGED <<action, awaited, shown, since, confirmed>>
      BY <1>12 DEF WarpPoll, Foreign
    <2>2. /\ promise' <=> Waiting(Page)'
          /\ {promise', followUp'} \subseteq BOOLEAN
          /\ promise => promise'
          /\ followUp => followUp'
      BY <1>12, PollForces
    <2> QED
      BY <2>1, <2>2
  <1> QED
    BY <1>2, <1>3, <1>4, <1>5, <1>6, <1>7, <1>8, <1>9, <1>10, <1>11, <1>12 DEF PageNext

\* One request of the page at a time, and everything that waits waits for
\* something that is there (coalesceRequest), beside any other readers.
THEOREM PageWaitsForSomething == PageSpec => []PageInv
  <1>1. PageInit => PageOK
    <2> SUFFICES ASSUME PageInit PROVE PageOK
      OBVIOUS
    <2>1. ~Waiting(Page)
      BY PageAssumption DEF PageInit, Init, Waiting
    <2>2. promise = FALSE /\ followUp = FALSE
      BY DEF PageInit
    <2>3. {promise, followUp} \subseteq BOOLEAN
      BY <2>2
    <2>4. shown \subseteq Nat /\ warp \subseteq Nat /\ since \in Nat /\ confirmed \in Nat
      BY DEF PageInit, Foreign
    <2> QED
      BY <2>1, <2>2, <2>3, <2>4 DEF PageInit, PageOK
  <1>2. IInv /\ PageOK /\ [PageNext]_allVars => PageOK'
    BY PageOKStep DEF IInv
  <1>3. IInv /\ PageOK => PageInv
    BY DEF PageInv
  <1> QED
    BY <1>1, <1>2, <1>3, PageImplements, SpecIInv, PTL DEF PageSpec

\* No floor is ahead of the last boundary, and the request in flight is bound
\* at least to what the page has already been told, and to what its action
\* waits for.
PageBound ==
  /\ confirmed <= floor /\ since <= floor
  /\ Waiting(Page) => reader[Page].floor >= confirmed
  /\ awaited = "current" => reader[Page].floor >= since

LEMMA FloorGrows ==
  ASSUME IInv, [PageNext]_allVars
  PROVE  floor \in Nat /\ floor' \in Nat /\ floor' >= floor
  <1>1. floor \in Nat /\ version \in Nat /\ floor <= version
    BY DEF IInv, TypeOK, FloorsArePast
  <1>2. floor' \in {floor, version}
    BY PageStep DEF Next, ReaderStep, Join, Start, Receive, GiveUp, CallStep, ReadPart,
      CollectReturns, Close, OperationStep, BeginOperation, EndOperation, invalidate,
      NetworkChanges, vars
  <1> QED
    BY <1>1, <1>2

LEMMA PageBoundStep ==
  ASSUME IInv, PageOK, PageBound, RefreshedStaysFresh, [PageNext]_allVars
  PROVE  PageBound' /\ RefreshedStaysFresh'
  <1>1. floor \in Nat /\ floor' \in Nat /\ floor' >= floor
    BY FloorGrows
  <1>2. since \in Nat /\ confirmed \in Nat /\ TypeOK
    BY DEF PageOK, IInv
  <1>3. CASE Server \/ Connect \/ Disconnect \/ SocketStatus \/ ClickSwitch
    <2>1. /\ UNCHANGED <<awaited, since, confirmed>>
          /\ UNCHANGED <<shown, warp>> \/ shown' \cup warp' = {}
      BY <1>3 DEF Server, Connect, Disconnect, SocketStatus, ClickSwitch, page, display, Foreign
    <2>2. PageBound'
      BY <1>1, <1>2, <1>3, <2>1, OthersLeavePage, WaitingIsSame DEF PageBound
    <2> QED
      BY <2>1, <2>2 DEF RefreshedStaysFresh
  <1>4. CASE Refresh \/ StartFollowUp
    <2>1. Fetch /\ UNCHANGED <<since, confirmed, shown, warp>>
      BY <1>4 DEF Refresh, StartFollowUp, display
    <2> QED
      BY <1>1, <1>2, <2>1, FetchBinds DEF PageBound, RefreshedStaysFresh
  <1>5. CASE ForceRefresh \/ UNCHANGED allVars
    BY <1>5 DEF ForceRefresh, allVars, vars, page, display, PageBound, RefreshedStaysFresh,
      Waiting
  <1>6. CASE AskAgain
    <2>1. CASE promise \/ followUp
      BY <1>1, <1>2, <1>6, <2>1 DEF AskAgain, vars, Waiting, display, PageBound, RefreshedStaysFresh
    <2>2. CASE ~(promise \/ followUp)
      BY <1>1, <1>2, <1>6, <2>2, FetchBinds
      DEF AskAgain, display, PageBound, RefreshedStaysFresh
    <2> QED
      BY <2>1, <2>2
  <1>7. CASE Render
    <2>1. Waiting(Page) /\ ~Waiting(Page)' /\ UNCHANGED floor
      BY <1>2, <1>7, EndOfRequest DEF Render
    <2>2. /\ awaited' # "current"
          /\ confirmed' = IF awaited = "current" THEN since ELSE confirmed
          /\ since' = IF awaited = "current" THEN 0 ELSE since
          /\ shown' \cup warp' \subseteq call[reader[Page].call].seen
      BY <1>7, Displayed DEF Render, Settle
    <2>3. reader[Page].floor \in Nat /\ reader[Page].floor >= confirmed'
      BY <1>2, <2>1, <2>2, PageAssumption DEF PageBound, TypeOK
    <2>4. \A v \in shown' \cup warp' : v >= reader[Page].floor
      BY <2>1, <2>2, PageAssumption DEF IInv, FreshSnapshot
    <2>5. shown' \cup warp' \subseteq Nat /\ confirmed' \in Nat
      BY <1>2, <1>7, <2>2, SeenVersions DEF Render
    <2>6. RefreshedStaysFresh'
      BY <2>3, <2>4, <2>5 DEF RefreshedStaysFresh
    <2> QED
      BY <1>1, <1>2, <2>1, <2>2, <2>6 DEF PageBound
  <1>8. CASE RefreshFails
    <2>1. ~Waiting(Page)' /\ UNCHANGED floor
      BY <1>2, <1>8, EndOfRequest DEF RefreshFails
    <2>2. awaited' # "current" /\ UNCHANGED <<confirmed, shown, warp>> /\ since' \in {0, since}
      BY <1>8 DEF RefreshFails, Settle, display
    <2> QED
      BY <1>1, <1>2, <2>1, <2>2 DEF PageBound, RefreshedStaysFresh
  <1>9. CASE WarpPoll
    <2>1. warp' = {} /\ UNCHANGED <<awaited, shown, since, confirmed>>
      BY <1>9 DEF WarpPoll, Foreign
    <2>2. RefreshedStaysFresh'
      BY <2>1 DEF RefreshedStaysFresh
    <2>3. CASE promise
      BY <1>2, <1>9, <2>1, <2>2, <2>3, PollForces, WaitingIsSame DEF PageBound
    <2>4. CASE ~promise
      BY <1>1, <1>2, <1>9, <2>1, <2>2, <2>4, PollForces DEF PageBound, PageOK
    <2> QED
      BY <2>3, <2>4
  <1> QED
    BY <1>3, <1>4, <1>5, <1>6, <1>7, <1>8, <1>9 DEF PageNext

\* Once a refresh after an operation has been answered, nothing that a later
\* answer brings is from before that operation: a request is bound at least to
\* the last confirmed boundary when it starts, and nothing older is read for
\* it. A WARP status the page keeps, because the answer has no valid one, is
\* not brought by it and may be older.
THEOREM NoWayBack == PageSpec => []RefreshedStaysFresh
  <1>1. PageInit => PageBound /\ RefreshedStaysFresh
    BY PageAssumption DEF PageInit, Init, PageBound, RefreshedStaysFresh, Waiting, Foreign
  <1>2. /\ IInv /\ PageOK /\ PageBound /\ RefreshedStaysFresh /\ [PageNext]_allVars
        => PageBound' /\ RefreshedStaysFresh'
    BY PageBoundStep
  <1>3. PageInv => IInv /\ PageOK
    BY DEF PageInv
  <1> QED
    BY <1>1, <1>2, <1>3, PageWaitsForSomething, PTL DEF PageSpec

\* The freshness of the collection reaches the page and its WebSocket.
THEOREM PageFreshSnapshot == PageSpec => []FreshSnapshot
  BY PageImplements, SpecFreshSnapshot, PTL

=============================================================================
