----------------------------- MODULE StatusPage -----------------------------
(***************************************************************************)
(* The network status as the page shows it (web/app.js), on top of the     *)
(* server's shared collections.  The page asks with GET /api/v1/status,    *)
(* one request at a time (coalesceRequest): a plain refresh shares the     *)
(* request in flight, a forced one follows it.  It forces a refresh when   *)
(* an operation has been answered, and waits for it.  Beside that, every   *)
(* WebSocket connection brings one snapshot, collected when it was opened, *)
(* and a poll of its own replaces the WARP status that is shown.           *)
(*                                                                         *)
(* The page is two of the server's readers and one of its operations.      *)
(* Asking, and answering, are one step each with the server's: a request   *)
(* under way is one not sent, an answer under way one not received yet.    *)
(***************************************************************************)
EXTENDS SnapshotCollection

CONSTANTS
  Page,    \* the reader that serves the page's GET requests
  Socket,  \* the reader that serves its WebSocket
  Click    \* the operation the page starts

ASSUME PageAssumption == Page \in Readers /\ Socket \in Readers /\ Page # Socket
ASSUME ClickAssumption == Click \in Operations

VARIABLES
  promise,   \* statusRefreshState.promise is set
  followUp,  \* statusRefreshState.followUpPromise is set
  action,    \* applyEasyMode or applyHomeNetwork: where it is
  awaited,   \* the promise its refreshStatus(true) returned
  shown,     \* the versions at which the parts of latestNetwork that a GET
             \* answer brought were read (but for homeNetwork, see WarpPoll),
  warp,      \* and the version its WARP status was, if it came with that answer
  since,     \* history: floor when the action called refreshStatus(true),
  confirmed  \* and the last such floor whose refresh has ended with an answer

display == <<shown, warp>>
page == <<promise, followUp, action, awaited, display, since, confirmed>>

\* Nothing of a GET answer: what the WebSocket, the page itself or a poll put
\* there, or a WARP status kept from before the answer.
Foreign == {}

PageInit ==
  /\ Init
  /\ promise = FALSE /\ followUp = FALSE
  /\ action = "idle" /\ awaited = "none"
  /\ shown = Foreign /\ warp = Foreign
  /\ since = 0 /\ confirmed = 0

-----------------------------------------------------------------------------
(* coalesceRequest                                                         *)

\* The factory calls fetch.
Fetch == promise' = TRUE /\ (Join(Page) \/ Start(Page))

\* refreshStatus() with nothing in flight; with something it shares that.
\* checkAdminStatus, the fast refreshes of a pending switch.
Refresh ==
  /\ ~promise /\ ~followUp
  /\ Fetch
  /\ UNCHANGED <<followUp, action, awaited, display, since, confirmed>>

\* refreshStatus(true) behind a request in flight, for nobody who waits: saved
\* DNS servers.
ForceRefresh ==
  /\ promise /\ ~followUp
  /\ followUp' = TRUE
  /\ UNCHANGED <<vars, promise, action, awaited, display, since, confirmed>>

\* startFollowUp: the request in flight has settled.
StartFollowUp ==
  /\ followUp /\ ~promise
  /\ followUp' = FALSE
  /\ Fetch
  /\ awaited' = IF awaited = "followUp" THEN "current" ELSE awaited
  /\ UNCHANGED <<action, display, since, confirmed>>

\* Mutated: the promise stays when the request has failed.
SettlesOnSuccess(answered) ==
  /\ promise' = ~answered
  /\ awaited' = IF awaited = "current" THEN "none" ELSE awaited
  /\ action' = IF awaited = "current" THEN "idle" ELSE action
  /\ confirmed' = IF awaited = "current" /\ answered THEN since ELSE confirmed
  /\ since' = IF awaited = "current" THEN 0 ELSE since
  /\ UNCHANGED followUp

\* The request settles; an action that waits for it goes on.
Settle(answered) ==
  /\ promise' = FALSE
  /\ awaited' = IF awaited = "current" THEN "none" ELSE awaited
  /\ action' = IF awaited = "current" THEN "idle" ELSE action
  /\ confirmed' = IF awaited = "current" /\ answered THEN since ELSE confirmed
  /\ since' = IF awaited = "current" THEN 0 ELSE since
  /\ UNCHANGED followUp

\* An answer is rendered; one without adapters shows none. One without a
\* valid WARP status keeps the WARP status shown before.
GetNetworkWithValidWarpStatus(seen) ==
  /\ shown' \in {seen, {}}
  /\ warp' \in {{v} : v \in seen} \cup {Foreign}

Render ==
  /\ Receive(Page)
  /\ GetNetworkWithValidWarpStatus(call[reader[Page].call].seen)
  /\ Settle(TRUE)

\* A request that failed leaves the page as it is.
RefreshFails ==
  /\ GiveUp(Page)
  /\ Settle(FALSE)
  /\ UNCHANGED display

-----------------------------------------------------------------------------
(* The actions of the user                                                 *)

\* The POST; the free-flow switch shows what it expects meanwhile
\* (applyOptimisticNetworkState).
ClickSwitch ==
  /\ action = "idle"
  /\ BeginOperation(Click)
  /\ action' = "posting"
  /\ UNCHANGED display \/ (shown' = Foreign /\ warp' = Foreign)
  /\ UNCHANGED <<promise, followUp, awaited, since, confirmed>>

\* Mutated: forcing shares the request in flight like a plain refresh
AsksPlainly ==
  /\ action = "posting"
  /\ action' = "refreshing"
  /\ since' = floor
  /\ awaited' = "current"
  /\ IF promise THEN UNCHANGED <<vars, promise>> ELSE Fetch
  /\ UNCHANGED <<followUp, display, confirmed>>

\* The answer of the POST, or its failure while the handler goes on: await
\* refreshStatus(true) in either case.
AskAgain ==
  /\ action = "posting"
  /\ action' = "refreshing"
  /\ since' = floor
  /\ IF promise \/ followUp
     THEN followUp' = TRUE /\ awaited' = "followUp" /\ UNCHANGED <<vars, promise>>
     ELSE Fetch /\ awaited' = "current" /\ UNCHANGED followUp
  /\ UNCHANGED <<display, confirmed>>

-----------------------------------------------------------------------------
(* The WebSocket, and the poll of the WARP status                          *)

\* A connection is opened: serveWebSocket collects its first snapshot.
Connect == (Join(Socket) \/ Start(Socket)) /\ UNCHANGED page

\* network.status: rendered in place of what is shown, if the connection still
\* is the page's and the snapshot not of the same second as the last one that
\* came this way.
SocketStatus ==
  /\ Receive(Socket)
  /\ UNCHANGED display \/ (shown' = Foreign /\ warp' = Foreign)
  /\ UNCHANGED <<promise, followUp, action, awaited, since, confirmed>>

Disconnect == GiveUp(Socket) /\ UNCHANGED page

\* GET /api/v1/warp-status, with a request of its own, has brought a status; one
\* that differs calls refreshStatus(true) and waits for nothing else. (The
\* homeNetwork field is replaced in the same way by loadHomeNetwork.)
WarpPoll ==
  /\ warp' = Foreign
  /\ CASE promise \/ followUp -> followUp' \in {followUp, TRUE} /\ UNCHANGED <<vars, promise>>
       [] OTHER -> (Fetch \/ UNCHANGED <<vars, promise>>) /\ UNCHANGED followUp
  /\ UNCHANGED <<action, awaited, shown, since, confirmed>>

-----------------------------------------------------------------------------
Server ==
  /\ \/ \E c \in Calls : CallStep(c)
     \/ EndOperation(Click)
     \/ NetworkChanges
  /\ UNCHANGED page

PageNext ==
  \/ Refresh \/ ForceRefresh \/ StartFollowUp \/ Render \/ RefreshFails
  \/ ClickSwitch \/ AskAgain
  \/ Connect \/ SocketStatus \/ Disconnect \/ WarpPoll
  \/ Server

allVars == <<vars, page>>

PageSpec == PageInit /\ [][PageNext]_allVars

\* Every probe of a collection has a deadline of its own, so it returns;
\* goroutines that can run do run; the page handles its promises and answers,
\* and a handler that has ended has answered. Operations, changes of the
\* network, refreshes and connections are not assumed to happen.
PageFairSpec ==
  /\ PageSpec
  /\ \A c \in Calls :
       /\ WF_allVars(ReadPart(c) /\ call[c].seen = {} /\ UNCHANGED page)
       /\ WF_allVars(CollectReturns(c) /\ UNCHANGED page)
       /\ WF_allVars(Close(c) /\ UNCHANGED page)
  /\ WF_allVars(Render)
  /\ WF_allVars(StartFollowUp)
  /\ WF_allVars(~operation[Click] /\ AskAgain)

-----------------------------------------------------------------------------
(* Properties                                                              *)

\* One request at a time, and everything that waits waits for something: the
\* reader is the promise in flight, an action waits for that promise or for
\* the one behind it.
PageOK ==
  /\ {promise, followUp} \subseteq BOOLEAN
  /\ shown \subseteq Nat /\ warp \subseteq Nat
  /\ since \in Nat /\ confirmed \in Nat
  /\ action \in {"idle", "posting", "refreshing"}
  /\ promise <=> Waiting(Page)
  /\ awaited # "none" <=> action = "refreshing"
  /\ awaited = "current" => promise
  /\ awaited = "followUp" => followUp

\* Sharing a collection with other readers breaks neither side: the invariant
\* of the collection holds with a page that forces and coalesces requests.
PageInv == IInv /\ PageOK

\* Once the refresh after an operation has ended with an answer, no later
\* answer takes the page back to what the network was before it: the page's
\* requests are answered in order and the server shares none across the end of
\* an operation. It binds what a GET answer brought. Excepted are a snapshot of
\* the WebSocket (app.js:1982 compares it with the ones that came the same way
\* only), and the WARP status while it is the one of before that an answer
\* without a valid WARP status keeps (app.js:1122-1133, README.md:67).
RefreshedStaysFresh == \A v \in shown \cup warp : v >= confirmed

\* The operation of the page ends: the refresh it waits for ends, whatever
\* refreshes are asked for meanwhile.
RefreshEnds == action = "refreshing" ~> action = "idle"
=============================================================================
