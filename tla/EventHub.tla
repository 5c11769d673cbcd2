------------------------------ MODULE EventHub ------------------------------
(***************************************************************************)
(* internal/events/events.go, serveWebSocket of internal/handlers/         *)
(* handlers.go, and the part of web/app.js that depends on them: the page  *)
(* keeps one WebSocket and reconnects when it breaks; every connection has *)
(* a subscription of the hub with a bounded channel; the WARP switch of    *)
(* the page stays pending until the event warp.ok arrives, which the       *)
(* handler publishes after it has written its answer.                      *)
(*                                                                         *)
(* An event is its number in the order of publication; 0 is "no event".    *)
(* hello, network.status and pings change nothing the properties look at:  *)
(* writing them is a step that can fail, and they are not put on the wire. *)
(***************************************************************************)
EXTENDS Integers, Sequences, FiniteSets

CONSTANTS
  MaxConnections, \* bound on the connections alive at the same time
  Buffer,         \* capacity of a subscription's channel (8 in the code)
  MaxToggles,     \* bound on the WARP requests of the page
  MaxOthers,      \* bound on the events other than warp.ok
  MaxBreaks       \* bound on the broken connections

ASSUME BufferAssumption == Buffer \in Nat \ {0}
ASSUME BoundsAssumption ==
  /\ MaxConnections \in Nat
  /\ MaxToggles \in Nat /\ MaxOthers \in Nat /\ MaxBreaks \in Nat

VARIABLES
  published,   \* types of all the events so far; the last one is Hub.last
  subscribers, \* Hub.subscribers
  queue,       \* the channel of each subscription
  held,        \* the event Subscribe took along for the replay
  pc,          \* where serveWebSocket is
  link,        \* whether the connection carries data
  sent,        \* events written to each connection
  socket,      \* websocketState.socket
  pending,     \* pendingToggleState.warp is set
  request,     \* WarpHandler for each click on the switch
  answer,      \* its HTTP answer
  refused,     \* history: events a working connection had no room for
  breaks, others \* counters of the bounds

hubVars == <<published, subscribers, queue, refused>>
connVars == <<held, pc, link, sent>>
pageVars == <<socket, pending>>
requestVars == <<request, answer>>
counters == <<breaks, others>>
vars == <<hubVars, connVars, pageVars, requestVars, counters>>

\* A connection is used again once its handler has returned.
Connections == 1..MaxConnections
NoConnection == 0

Requests == 1..MaxToggles
Last == Len(published)

Location ==
  {"idle", "accepted", "replaying", "greeting", "collecting", "serving", "leaving"}

\* Between hub.Subscribe and the deferred hub.Unsubscribe.
Subscribed(c) == pc[c] \notin {"idle", "accepted"}

TypeOK ==
  /\ published \in Seq({"warp.ok", "other"})
  /\ subscribers \subseteq Connections
  /\ queue \in [Connections -> Seq(Nat)]
  /\ held \in [Connections -> Nat]
  /\ pc \in [Connections -> Location]
  /\ link \in [Connections -> BOOLEAN]
  /\ sent \in [Connections -> Seq(Nat)]
  /\ socket \in Connections \cup {NoConnection}
  /\ pending \in BOOLEAN
  /\ request \in [Requests -> {"none", "running", "succeeded", "failed", "done"}]
  /\ answer \in [Requests -> {"none", "ok", "error", "read"}]
  /\ refused \subseteq 1..Last
  /\ breaks \in Nat /\ others \in Nat

Init ==
  /\ published = <<>>
  /\ subscribers = {}
  /\ queue = [c \in Connections |-> <<>>]
  /\ held = [c \in Connections |-> 0]
  /\ pc = [c \in Connections |-> "idle"]
  /\ link = [c \in Connections |-> FALSE]
  /\ sent = [c \in Connections |-> <<>>]
  /\ socket = NoConnection
  /\ pending = FALSE
  /\ request = [i \in Requests |-> "none"]
  /\ answer = [i \in Requests |-> "none"]
  /\ refused = {}
  /\ breaks = 0 /\ others = 0

-----------------------------------------------------------------------------
(* The hub.                                                                *)

\* A send that never blocks: select with an empty default.
Full(c) == Len(queue[c]) = Buffer
Offer(c, event) == IF Full(c) THEN queue[c] ELSE Append(queue[c], event)

\* Hub.Publish: under the lock, the event becomes the last one and is offered
\* to every subscriber.
Publish(type) ==
  /\ published' = Append(published, type)
  /\ queue' = [c \in Connections |->
                 IF c \in subscribers THEN Offer(c, Last + 1) ELSE queue[c]]
  /\ refused' = refused \cup {Last + 1 : c \in {d \in subscribers : link[d] /\ Full(d)}}
  /\ UNCHANGED subscribers

\* Mutant: a new subscription is not given the last event.
SubscribesAfresh(c) ==
  /\ pc[c] = "accepted"
  /\ pc' = [pc EXCEPT ![c] = "replaying"]
  /\ subscribers' = subscribers \cup {c}
  /\ UNCHANGED <<published, queue, refused, held, link, sent, pageVars, requestVars, counters>>

\* Hub.Subscribe, the part under the lock: the channel is registered and the
\* last event taken along.
Subscribe(c) ==
  /\ pc[c] = "accepted"
  /\ pc' = [pc EXCEPT ![c] = "replaying"]
  /\ subscribers' = subscribers \cup {c}
  /\ held' = [held EXCEPT ![c] = Last]
  /\ UNCHANGED <<published, queue, refused, link, sent, pageVars, requestVars, counters>>

\* Mutant: h.last is read after the unlock.
ReplaysNewest(c) ==
  /\ pc[c] = "replaying"
  /\ Last # 0
  /\ pc' = [pc EXCEPT ![c] = "greeting"]
  /\ queue' = [queue EXCEPT ![c] = Offer(c, Last)]
  /\ UNCHANGED <<published, subscribers, refused, held, link, sent, pageVars,
                 requestVars, counters>>

\* Hub.Subscribe after the unlock: the last event, if any, is offered to the
\* channel, which Publish may have filled meanwhile.
Replay(c) ==
  /\ pc[c] = "replaying"
  /\ pc' = [pc EXCEPT ![c] = "greeting"]
  /\ \/ held[c] = 0 /\ UNCHANGED <<queue, refused>>
     \/ /\ held[c] # 0
        /\ queue' = [queue EXCEPT ![c] = Offer(c, held[c])]
        /\ refused' = refused \cup (IF link[c] /\ Full(c) THEN {held[c]} ELSE {})
  /\ UNCHANGED <<published, subscribers, held, link, sent, pageVars,
                 requestVars, counters>>

\* Mutant: the channel is closed and stays registered.
ClosesOnly(c) ==
  /\ pc[c] = "leaving"
  /\ pc' = [pc EXCEPT ![c] = "idle"]
  /\ queue' = [queue EXCEPT ![c] = <<>>]
  /\ sent' = [sent EXCEPT ![c] = <<>>]
  /\ held' = [held EXCEPT ![c] = 0]
  /\ UNCHANGED <<published, subscribers, refused, link, pageVars, requestVars, counters>>

\* The deferred Close and Unsubscribe; the channel is closed and forgotten.
Unsubscribe(c) ==
  /\ pc[c] = "leaving"
  /\ pc' = [pc EXCEPT ![c] = "idle"]
  /\ subscribers' = subscribers \ {c}
  /\ queue' = [queue EXCEPT ![c] = <<>>]
  /\ sent' = [sent EXCEPT ![c] = <<>>]
  /\ held' = [held EXCEPT ![c] = 0]
  /\ UNCHANGED <<published, refused, link, pageVars, requestVars, counters>>

-----------------------------------------------------------------------------
(* serveWebSocket.                                                         *)

\* A write to a broken connection can still seem to succeed.
WriteResult(c, next) ==
  \/ pc' = [pc EXCEPT ![c] = next]
  \/ ~link[c] /\ pc' = [pc EXCEPT ![c] = "leaving"]

WriteHello(c) ==
  /\ pc[c] = "greeting"
  /\ WriteResult(c, "collecting")
  /\ UNCHANGED <<hubVars, held, link, sent, pageVars, requestVars, counters>>

\* The snapshot, or the error of its collection, has arrived and is written.
WriteSnapshot(c) ==
  /\ pc[c] = "collecting"
  /\ WriteResult(c, "serving")
  /\ UNCHANGED <<hubVars, held, link, sent, pageVars, requestVars, counters>>

\* The "message" event of the page: warp.ok clears the pending switch, whatever
\* request it belongs to.
Receive(c, event) ==
  pending' = (pending /\ ~(link[c] /\ published[event] = "warp.ok"))

\* One event is taken from the channel and written. On a link that works the
\* page, whose current socket this is, handles it; on a broken one it is lost.
WriteEvent(c) ==
  /\ pc[c] = "serving"
  /\ queue[c] # <<>>
  /\ WriteResult(c, "serving")
  /\ queue' = [queue EXCEPT ![c] = Tail(@)]
  /\ sent' = [sent EXCEPT ![c] = Append(@, Head(queue[c]))]
  /\ Receive(c, Head(queue[c]))
  /\ UNCHANGED <<published, subscribers, refused, held, link, socket, requestVars, counters>>

\* Mutant: no read pump; the end of the connection is met by writing events only.
NoReadPump(c) ==
  /\ pc[c] \in {"collecting", "serving"}
  /\ ~link[c]
  /\ queue[c] # <<>>
  /\ pc' = [pc EXCEPT ![c] = "leaving"]
  /\ UNCHANGED <<hubVars, held, link, sent, pageVars, requestVars, counters>>

\* readDone: the read pump met the end of the connection, or no pong came in
\* time; a failed ping ends the loop in the same way.
ReadFails(c) ==
  /\ pc[c] \in {"collecting", "serving"}
  /\ ~link[c]
  /\ pc' = [pc EXCEPT ![c] = "leaving"]
  /\ UNCHANGED <<hubVars, held, link, sent, pageVars, requestVars, counters>>

\* The connection breaks.
Break(c) ==
  /\ link[c]
  /\ breaks < MaxBreaks
  /\ breaks' = breaks + 1
  /\ link' = [link EXCEPT ![c] = FALSE]
  /\ UNCHANGED <<hubVars, held, pc, sent, pageVars, requestVars, others>>

-----------------------------------------------------------------------------
(* The page.                                                               *)

\* connectWS, at the start of the page or from the timer of the reconnection.
Connect(c) ==
  /\ socket = NoConnection
  /\ pc[c] = "idle" /\ \A d \in 1..(c - 1) : pc[d] # "idle"
  /\ socket' = c
  /\ pc' = [pc EXCEPT ![c] = "accepted"]
  /\ link' = [link EXCEPT ![c] = TRUE]
  /\ UNCHANGED <<hubVars, held, sent, pending, requestVars, counters>>

\* The "close" event of the current socket.
SocketCloses(c) ==
  /\ socket = c
  /\ ~link[c]
  /\ socket' = NoConnection
  /\ UNCHANGED <<hubVars, connVars, pending, requestVars, counters>>

\* applyWarpToggle: refused while an earlier one is pending. That the switch is
\* also disabled until the answer arrives (setBusy) is left out: any other
\* operation of the page that ends, a DNS save for one, enables it again.
Toggle(i) ==
  /\ ~pending
  /\ request[i] = "none" /\ \A j \in 1..(i - 1) : request[j] # "none"
  /\ pending' = TRUE
  /\ request' = [request EXCEPT ![i] = "running"]
  /\ UNCHANGED <<hubVars, connVars, socket, answer, counters>>

\* The answer arrives: only an error clears the pending switch, an answer
\* with success leaves that to warp.ok.
ReadAnswer(i) ==
  /\ answer[i] \in {"ok", "error"}
  /\ answer' = [answer EXCEPT ![i] = "read"]
  /\ pending' = (pending /\ answer[i] = "ok")
  /\ UNCHANGED <<hubVars, connVars, socket, request, counters>>

-----------------------------------------------------------------------------
(* WarpHandler, as far as its answer and its event go, and the handlers    *)
(* that publish other events.                                              *)

WarpAnswers(i) ==
  /\ request[i] = "running"
  /\ \/ /\ request' = [request EXCEPT ![i] = "succeeded"]
        /\ answer' = [answer EXCEPT ![i] = "ok"]
     \/ /\ request' = [request EXCEPT ![i] = "failed"]
        /\ answer' = [answer EXCEPT ![i] = "error"]
  /\ UNCHANGED <<hubVars, connVars, pageVars, counters>>

WarpSucceeded(i) ==
  /\ request[i] = "succeeded"
  /\ request' = [request EXCEPT ![i] = "done"]
  /\ Publish("warp.ok")
  /\ UNCHANGED <<connVars, pageVars, answer, counters>>

\* Within the bound on them.
PublishOther ==
  /\ others < MaxOthers
  /\ others' = others + 1
  /\ Publish("other")

\* warp.error; one of the failures publishes nothing.
WarpFailed(i) ==
  /\ request[i] = "failed"
  /\ request' = [request EXCEPT ![i] = "done"]
  /\ PublishOther \/ UNCHANGED <<hubVars, others>>
  /\ UNCHANGED <<connVars, pageVars, answer, breaks>>

OtherEvent ==
  /\ PublishOther
  /\ UNCHANGED <<connVars, pageVars, requestVars, breaks>>

-----------------------------------------------------------------------------

Server(c) ==
  \/ Subscribe(c) \/ Replay(c) \/ Unsubscribe(c)
  \/ WriteHello(c) \/ WriteSnapshot(c) \/ WriteEvent(c) \/ ReadFails(c)

Handler(i) == WarpAnswers(i) \/ WarpSucceeded(i) \/ WarpFailed(i)

Next ==
  \/ \E c \in Connections :
       Server(c) \/ Break(c) \/ Connect(c) \/ SocketCloses(c)
  \/ \E i \in Requests : Handler(i) \/ Toggle(i) \/ ReadAnswer(i)
  \/ OtherEvent

Spec == Init /\ [][Next]_vars

(***************************************************************************)
(* The goroutines are scheduled, and the collection a connection waits for *)
(* returns, since its commands have deadlines. The select of               *)
(* serveWebSocket takes a ready readDone sooner or later, and until then   *)
(* only finitely many events are in the channel. The browser delivers      *)
(* answers and close events, and its timer reconnects. Nobody is obliged   *)
(* to click, to publish other events or to break a link.                   *)
(***************************************************************************)
Fairness ==
  /\ \A c \in Connections :
       /\ WF_vars(Server(c))
       /\ WF_vars(ReadFails(c))
       /\ WF_vars(SocketCloses(c))
  /\ WF_vars(\E c \in Connections : Connect(c))
  /\ \A i \in Requests : WF_vars(Handler(i)) /\ WF_vars(ReadAnswer(i))

FairSpec == Spec /\ Fairness

-----------------------------------------------------------------------------
(* Properties.                                                             *)

\* Everything a connection was given, in the order in which it was given.
Stream(c) == sent[c] \o queue[c]

\* The hub knows exactly the connections that are being served, so Publish
\* never sends to a channel that Unsubscribe has closed (which would panic
\* with the lock held), and no channel holds more than its capacity.
Registration ==
  /\ subscribers = {c \in Connections : Subscribed(c)}
  /\ \A c \in Connections : Len(queue[c]) <= Buffer

\* The type invariant with the registration, and: a connection that works is
\* the page's current one and has a handler.
IInv ==
  /\ TypeOK
  /\ Registration
  /\ \A c \in Connections : link[c] => socket = c /\ pc[c] # "idle"

\* Of all that is published a connection gets no event twice and none from
\* before its subscription but the last one; what it gets is in the order of
\* publication, except that the replayed event, sent after the unlock, may
\* come after newer ones.
InOrder ==
  \A c \in Connections :
    LET s == Stream(c) IN
    \A k \in 1..Len(s) :
      /\ s[k] >= held[c]
      /\ \A j \in 1..(k - 1) : s[j] < s[k] \/ (s[k] = held[c] /\ s[j] # s[k])

\* README.md:64: when a connection breaks, its subscription is released, even
\* if no event is published any more.
SubscriptionReleased ==
  \A c \in Connections : (c \in subscribers /\ ~link[c]) ~> (c \notin subscribers)

\* The page's connection, which carries data, has a subscription.
Listening(c) == socket = c /\ link[c] /\ Subscribed(c)

\* Events the page can still get: in the channel of its connection, about to
\* be replayed to it, or the last one, which a new connection would replay.
OnTheWay ==
  {e \in 1..Last :
     \/ e = Last /\ e \notin refused
     \/ \E c \in Connections :
          /\ Listening(c)
          /\ \/ \E k \in 1..Len(queue[c]) : queue[c][k] = e
             \/ pc[c] = "replaying" /\ held[c] = e}

\* Something will still end the pending switch: a request that has to publish
\* its event, an error the page has not read, or a warp.ok on its way.
OutcomeAhead ==
  \/ \E i \in Requests : request[i] \in {"running", "succeeded"} \/ answer[i] = "error"
  \/ \E e \in OnTheWay : published[e] = "warp.ok"

\* A pending WARP switch is released, unless its event was lost: warp.ok is
\* not repeated, and it is gone when a full channel refuses it or when the
\* connection breaks and another event takes its place as the last one.
ToggleSettles == pending ~> (~pending \/ ~OutcomeAhead)

=============================================================================
