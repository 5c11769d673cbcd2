--------------------------- MODULE EventHubProofs ---------------------------
(***************************************************************************)
(* Proofs about EventHub for any number of connections, requests and       *)
(* events and any capacity of the channels: the hub knows the connections  *)
(* that are served and overflows no channel, and what a connection gets is *)
(* in order, the replayed event aside.                                     *)
(***************************************************************************)
EXTENDS EventHub, SequenceTheorems, TLAPS

-----------------------------------------------------------------------------
(* Kinds of steps                                                          *)

\* A connection that is not subscribed stays so or is accepted; one that is
\* served goes on or begins to leave.
Moves(c) ==
  \/ pc'[c] = pc[c]
  \/ pc[c] = "idle" /\ pc'[c] = "accepted"
  \/ /\ pc[c] \in {"greeting", "collecting", "serving"}
     /\ pc'[c] \in {"collecting", "serving", "leaving"}

Publishes ==
  /\ \E type \in {"warp.ok", "other"} : Publish(type)
  /\ UNCHANGED <<held, pc, link, sent, socket>>

\* The channels, and what was published, stay as they are.
Quiet ==
  /\ UNCHANGED <<published, subscribers, queue, refused, held, sent>>
  /\ \A c \in Connections : Moves(c)

LEMMA StepKinds ==
  ASSUME pc \in [Connections -> Location], [Next]_vars
  PROVE  \/ Publishes \/ Quiet
         \/ \E c \in Connections :
              Subscribe(c) \/ Replay(c) \/ WriteEvent(c) \/ Unsubscribe(c)
  <1>1. ASSUME NEW i \in Requests, Handler(i) \/ Toggle(i) \/ ReadAnswer(i)
        PROVE  Publishes \/ Quiet
    <2>1. CASE WarpSucceeded(i)
      BY <2>1 DEF WarpSucceeded, Publishes, connVars, pageVars
    <2>2. CASE WarpFailed(i)
      BY <2>2 DEF WarpFailed, PublishOther, Publishes, Quiet, Moves, connVars, pageVars, hubVars
    <2>3. CASE WarpAnswers(i) \/ Toggle(i) \/ ReadAnswer(i)
      BY <2>3 DEF WarpAnswers, Toggle, ReadAnswer, Quiet, Moves, connVars, hubVars
    <2> QED
      BY <1>1, <2>1, <2>2, <2>3 DEF Handler
  <1>2. CASE OtherEvent
    BY <1>2 DEF OtherEvent, PublishOther, Publishes, connVars, pageVars
  <1>3. ASSUME NEW c \in Connections,
               WriteHello(c) \/ WriteSnapshot(c) \/ ReadFails(c) \/ Break(c)
                 \/ Connect(c) \/ SocketCloses(c)
        PROVE  Quiet
    BY <1>3 DEF WriteHello, WriteSnapshot, WriteResult, ReadFails, Break, Connect,
      SocketCloses, Quiet, Moves, hubVars, connVars
  <1>4. CASE UNCHANGED vars
    BY <1>4 DEF vars, hubVars, connVars, Quiet, Moves
  <1> QED
    BY <1>1, <1>2, <1>3, <1>4 DEF Next, Server

-----------------------------------------------------------------------------
(* Types                                                                   *)

StreamTypes ==
  /\ published \in Seq({"warp.ok", "other"})
  /\ queue \in [Connections -> Seq(Nat)]
  /\ sent \in [Connections -> Seq(Nat)]
  /\ held \in [Connections -> Nat]

PlainTypes ==
  /\ subscribers \subseteq Connections
  /\ pc \in [Connections -> Location]
  /\ link \in [Connections -> BOOLEAN]
  /\ socket \in Connections \cup {NoConnection}
  /\ pending \in BOOLEAN
  /\ request \in [Requests -> {"none", "running", "succeeded", "failed", "done"}]
  /\ answer \in [Requests -> {"none", "ok", "error", "read"}]
  /\ breaks \in Nat /\ others \in Nat

LEMMA LastIsNat ==
  ASSUME published \in Seq({"warp.ok", "other"})
  PROVE  Last \in Nat
  BY LenProperties DEF Last

\* Publishing adds one event.
LEMMA PublishGrows ==
  ASSUME published \in Seq({"warp.ok", "other"}), NEW type \in {"warp.ok", "other"},
         Publish(type)
  PROVE  published' \in Seq({"warp.ok", "other"}) /\ Last' = Last + 1
  BY AppendProperties DEF Publish, Last

LEMMA OfferType ==
  ASSUME NEW c \in Connections, queue[c] \in Seq(Nat), NEW event \in Nat
  PROVE  Offer(c, event) \in Seq(Nat)
  BY AppendProperties DEF Offer

LEMMA StreamTypesStep ==
  ASSUME StreamTypes, PlainTypes, [Next]_vars
  PROVE  StreamTypes'
  <1>1. Last \in Nat
    BY LastIsNat DEF StreamTypes
  <1>2. CASE Publishes
    <2>1. PICK type \in {"warp.ok", "other"} : Publish(type)
      BY <1>2 DEF Publishes
    <2>2. published' \in Seq({"warp.ok", "other"})
      BY <2>1, PublishGrows DEF StreamTypes
    <2>3. \A c \in Connections : Offer(c, Last + 1) \in Seq(Nat)
      BY <1>1, OfferType DEF StreamTypes
    <2>4. queue' \in [Connections -> Seq(Nat)]
      BY <2>1, <2>3 DEF Publish, StreamTypes
    <2> QED
      BY <1>2, <2>2, <2>4 DEF Publishes, StreamTypes
  <1>3. CASE Quiet
    BY <1>3 DEF Quiet, StreamTypes
  <1>4. ASSUME NEW c \in Connections, Subscribe(c) PROVE StreamTypes'
    BY <1>1, <1>4 DEF Subscribe, StreamTypes
  <1>5. ASSUME NEW c \in Connections, Replay(c) PROVE StreamTypes'
    <2>1. Offer(c, held[c]) \in Seq(Nat)
      BY OfferType DEF StreamTypes
    <2> QED
      BY <1>5, <2>1 DEF Replay, StreamTypes
  <1>6. ASSUME NEW c \in Connections, WriteEvent(c) PROVE StreamTypes'
    <2>1. queue[c] \in Seq(Nat) /\ queue[c] # <<>> /\ sent[c] \in Seq(Nat)
      BY <1>6 DEF WriteEvent, StreamTypes
    <2>2. Tail(queue[c]) \in Seq(Nat) /\ Append(sent[c], Head(queue[c])) \in Seq(Nat)
      BY <2>1, HeadTailProperties, AppendProperties
    <2> QED
      BY <1>6, <2>2 DEF WriteEvent, StreamTypes
  <1>7. ASSUME NEW c \in Connections, Unsubscribe(c) PROVE StreamTypes'
    <2>1. <<>> \in Seq(Nat)
      BY EmptySeq
    <2> QED
      BY <1>7, <2>1 DEF Unsubscribe, StreamTypes
  <1> QED
    BY <1>2, <1>3, <1>4, <1>5, <1>6, <1>7, StepKinds DEF PlainTypes

LEMMA PlainTypesStep ==
  ASSUME PlainTypes, [Next]_vars
  PROVE  PlainTypes'
  <1> USE DEF PlainTypes
  <1>1. ASSUME NEW c \in Connections, Subscribe(c) \/ Replay(c) \/ Unsubscribe(c)
        PROVE  PlainTypes'
    BY <1>1 DEF Subscribe, Replay, Unsubscribe, Location, pageVars, requestVars, counters
  <1>2. ASSUME NEW c \in Connections, WriteHello(c) \/ WriteSnapshot(c) \/ ReadFails(c)
        PROVE  PlainTypes'
    BY <1>2 DEF WriteHello, WriteSnapshot, WriteResult, ReadFails, Location, hubVars,
      pageVars, requestVars, counters
  <1>3. ASSUME NEW c \in Connections, WriteEvent(c) PROVE PlainTypes'
    BY <1>3 DEF WriteEvent, WriteResult, Receive, Location, requestVars, counters
  <1>4. ASSUME NEW c \in Connections, Break(c) \/ Connect(c) \/ SocketCloses(c)
        PROVE  PlainTypes'
    <2>1. CASE Break(c)
      BY <1>4, <2>1 DEF Break, hubVars, pageVars, requestVars
    <2>2. CASE Connect(c)
      BY <1>4, <2>2 DEF Connect, Location, hubVars, requestVars, counters
    <2>3. CASE SocketCloses(c)
      BY <1>4, <2>3 DEF SocketCloses, hubVars, connVars, requestVars, counters
    <2> QED
      BY <1>4, <2>1, <2>2, <2>3
  <1>5. ASSUME NEW i \in Requests, Handler(i) PROVE PlainTypes'
    BY <1>5 DEF Handler, WarpAnswers, WarpSucceeded, WarpFailed, PublishOther, Publish,
      hubVars, connVars, pageVars, counters
  <1>6. ASSUME NEW i \in Requests, Toggle(i) \/ ReadAnswer(i) PROVE PlainTypes'
    BY <1>6 DEF Toggle, ReadAnswer, hubVars, connVars, counters
  <1>7. CASE OtherEvent \/ UNCHANGED vars
    BY <1>7 DEF OtherEvent, PublishOther, Publish, hubVars, connVars, pageVars,
      requestVars, counters, vars
  <1> QED
    BY <1>1, <1>2, <1>3, <1>4, <1>5, <1>6, <1>7 DEF Next, Server

-----------------------------------------------------------------------------
(* The registration                                                        *)

\* A handler leaves only a connection that is broken, and a connection that
\* works is the page's and has a handler.
Linked ==
  \A c \in Connections :
    /\ link[c] => socket = c /\ pc[c] # "idle"
    /\ pc[c] = "leaving" => ~link[c]

LEMMA LinkedStep ==
  ASSUME PlainTypes, Linked, [Next]_vars
  PROVE  Linked'
  <1> USE DEF Linked, PlainTypes
  <1>1. ASSUME NEW c \in Connections, Subscribe(c) \/ Replay(c) \/ Unsubscribe(c)
        PROVE  Linked'
    BY <1>1 DEF Subscribe, Replay, Unsubscribe, pageVars
  <1>2. ASSUME NEW c \in Connections, WriteHello(c) \/ WriteSnapshot(c) \/ ReadFails(c)
        PROVE  Linked'
    BY <1>2 DEF WriteHello, WriteSnapshot, WriteResult, ReadFails, pageVars
  <1>3. ASSUME NEW c \in Connections, WriteEvent(c) PROVE Linked'
    BY <1>3 DEF WriteEvent, WriteResult
  <1>4. ASSUME NEW c \in Connections, Break(c) PROVE Linked'
    BY <1>4 DEF Break, pageVars
  <1>5. ASSUME NEW c \in Connections, Connect(c) PROVE Linked'
    <2>1. \A d \in Connections : ~link[d]
      BY <1>5, BoundsAssumption DEF Connect, Connections, NoConnection
    <2> QED
      BY <1>5, <2>1 DEF Connect
  <1>6. ASSUME NEW c \in Connections, SocketCloses(c) PROVE Linked'
    BY <1>6 DEF SocketCloses, connVars
  <1>7. ASSUME NEW i \in Requests, Handler(i) \/ Toggle(i) \/ ReadAnswer(i)
        PROVE  Linked'
    BY <1>7 DEF Handler, WarpAnswers, WarpSucceeded, WarpFailed, Toggle, ReadAnswer,
      connVars, pageVars
  <1>8. CASE OtherEvent \/ UNCHANGED vars
    BY <1>8 DEF OtherEvent, connVars, pageVars, vars
  <1> QED
    BY <1>1, <1>2, <1>3, <1>4, <1>5, <1>6, <1>7, <1>8 DEF Next, Server

LEMMA OfferFits ==
  ASSUME NEW c \in Connections, queue[c] \in Seq(Nat), NEW event \in Nat,
         Len(queue[c]) <= Buffer
  PROVE  Len(Offer(c, event)) <= Buffer
  BY AppendProperties, LenProperties, BufferAssumption DEF Offer, Full

LEMMA RegistrationStep ==
  ASSUME PlainTypes, StreamTypes, Registration, [Next]_vars
  PROVE  Registration'
  <1>1. pc \in [Connections -> Location] /\ queue \in [Connections -> Seq(Nat)] /\ Last \in Nat
    BY LastIsNat DEF PlainTypes, StreamTypes
  <1>2. CASE Publishes
    <2>1. \A c \in Connections : queue'[c] \in {queue[c], Offer(c, Last + 1)}
      BY <1>2 DEF Publishes, Publish
    <2>2. \A c \in Connections : Len(queue'[c]) <= Buffer
      BY <1>1, <2>1, OfferFits DEF Registration
    <2>3. UNCHANGED <<pc, subscribers>>
      BY <1>2 DEF Publishes, Publish
    <2> QED
      BY <2>2, <2>3 DEF Registration, Subscribed
  <1>3. CASE Quiet
    BY <1>3 DEF Quiet, Moves, Registration, Subscribed
  <1>4. ASSUME NEW c \in Connections, Subscribe(c) PROVE Registration'
    BY <1>1, <1>4 DEF Subscribe, Registration, Subscribed
  <1>5. ASSUME NEW c \in Connections, Replay(c) PROVE Registration'
    <2>1. \A d \in Connections : Len(queue'[d]) <= Buffer
      <3>1. Len(Offer(c, held[c])) <= Buffer
        BY <1>1, OfferFits DEF Registration, StreamTypes
      <3> QED
        BY <1>1, <1>5, <3>1 DEF Replay, Registration
    <2> QED
      BY <1>1, <1>5, <2>1 DEF Replay, Registration, Subscribed
  <1>6. ASSUME NEW c \in Connections, WriteEvent(c) PROVE Registration'
    <2>1. Len(Tail(queue[c])) <= Buffer
      <3>1. queue[c] \in Seq(Nat) /\ queue[c] # <<>> /\ Len(queue[c]) <= Buffer
        BY <1>1, <1>6 DEF WriteEvent, Registration
      <3> QED
        BY <3>1, HeadTailProperties, LenProperties, BufferAssumption
    <2>2. subscribers' = subscribers /\ \A d \in Connections : Subscribed(d)' <=> Subscribed(d)
      BY <1>1, <1>6 DEF WriteEvent, WriteResult, Subscribed
    <2>3. \A d \in Connections : Len(queue'[d]) <= Buffer
      BY <1>1, <1>6, <2>1 DEF WriteEvent, Registration
    <2> QED
      BY <2>2, <2>3 DEF Registration
  <1>7. ASSUME NEW c \in Connections, Unsubscribe(c) PROVE Registration'
    <2>1. Len(<<>>) = 0 /\ 0 <= Buffer
      BY EmptySeq, BufferAssumption
    <2>2. \A d \in Connections : Len(queue'[d]) <= Buffer
      BY <1>1, <1>7, <2>1 DEF Unsubscribe, Registration
    <2> QED
      BY <1>1, <1>7, <2>2 DEF Unsubscribe, Registration, Subscribed
  <1> QED
    BY <1>1, <1>2, <1>3, <1>4, <1>5, <1>6, <1>7, StepKinds

-----------------------------------------------------------------------------
(* The order                                                               *)

\* In the order of publication, the replayed event "first" aside, from it to
\* the last event.
Ordered(s, first, last) ==
  \A k \in 1..Len(s) :
    /\ s[k] >= first /\ s[k] <= last
    /\ \A j \in 1..(k - 1) : s[j] < s[k] \/ (s[k] = first /\ s[j] # s[k])

Lacks(s, event) == \A k \in 1..Len(s) : s[k] # event

LEMMA AppendElements ==
  ASSUME NEW s \in Seq(Nat), NEW e \in Nat
  PROVE  /\ Len(s) \in Nat /\ Len(Append(s, e)) = Len(s) + 1
         /\ \A k \in 1..Len(s) : Append(s, e)[k] = s[k] /\ s[k] \in Nat
         /\ Append(s, e)[Len(s) + 1] = e
  BY AppendProperties, LenProperties, ElementOfSeq

LEMMA NothingIsOrdered ==
  ASSUME NEW first, NEW last
  PROVE  Ordered(<<>>, first, last) /\ Lacks(<<>>, first)
  BY EmptySeq DEF Ordered, Lacks

\* A new event comes behind all the others,
LEMMA NewestIsOrdered ==
  ASSUME NEW s \in Seq(Nat), NEW first \in Nat, NEW last \in Nat, first <= last,
         Ordered(s, first, last)
  PROVE  /\ Ordered(s, first, last + 1)
         /\ Ordered(Append(s, last + 1), first, last + 1)
         /\ Lacks(s, first) => Lacks(Append(s, last + 1), first)
  <1> DEFINE a == Append(s, last + 1)
  <1>1. /\ Len(s) \in Nat /\ Len(a) = Len(s) + 1
        /\ \A k \in 1..Len(s) : a[k] = s[k] /\ s[k] \in Nat
        /\ a[Len(s) + 1] = last + 1
    BY AppendElements
  <1> HIDE DEF a
  <1>2. Ordered(s, first, last + 1)
    BY <1>1 DEF Ordered
  <1>3. Ordered(a, first, last + 1)
    <2> SUFFICES ASSUME NEW k \in 1..Len(a)
                 PROVE  /\ a[k] >= first /\ a[k] <= last + 1
                        /\ \A j \in 1..(k - 1) : a[j] < a[k] \/ (a[k] = first /\ a[j] # a[k])
      BY DEF Ordered
    <2>1. CASE k \in 1..Len(s)
      <3>1. \A j \in 1..(k - 1) : j \in 1..Len(s)
        BY <1>1, <2>1
      <3>2. /\ s[k] >= first /\ s[k] <= last
            /\ \A j \in 1..(k - 1) : s[j] < s[k] \/ (s[k] = first /\ s[j] # s[k])
        BY <2>1 DEF Ordered
      <3>3. a[k] = s[k] /\ s[k] \in Nat /\ \A j \in 1..(k - 1) : a[j] = s[j]
        BY <1>1, <2>1, <3>1
      <3> QED
        BY <3>2, <3>3
    <2>2. CASE k = Len(s) + 1
      <3>1. \A j \in 1..(k - 1) : j \in 1..Len(s) /\ s[j] <= last
        BY <1>1, <2>2 DEF Ordered
      <3> QED
        BY <1>1, <2>2, <3>1
    <2> QED
      BY <1>1, <2>1, <2>2
  <1>4. Lacks(s, first) => Lacks(a, first)
    BY <1>1 DEF Lacks
  <1> QED
    BY <1>2, <1>3, <1>4 DEF a

\* and the event that is replayed may come behind newer ones, once.
LEMMA ReplayedIsOrdered ==
  ASSUME NEW s \in Seq(Nat), NEW first \in Nat, NEW last \in Nat, first <= last,
         Ordered(s, first, last), Lacks(s, first)
  PROVE  Ordered(Append(s, first), first, last)
  <1> DEFINE a == Append(s, first)
  <1>1. /\ Len(s) \in Nat /\ Len(a) = Len(s) + 1
        /\ \A k \in 1..Len(s) : a[k] = s[k] /\ s[k] \in Nat
        /\ a[Len(s) + 1] = first
    BY AppendElements
  <1> HIDE DEF a
  <1> SUFFICES ASSUME NEW k \in 1..Len(a)
               PROVE  /\ a[k] >= first /\ a[k] <= last
                      /\ \A j \in 1..(k - 1) : a[j] < a[k] \/ (a[k] = first /\ a[j] # a[k])
    BY DEF Ordered, a
  <1>2. CASE k \in 1..Len(s)
    <2>1. \A j \in 1..(k - 1) : j \in 1..Len(s)
      BY <1>1, <1>2
    <2> QED
      BY <1>1, <1>2, <2>1 DEF Ordered
  <1>3. CASE k = Len(s) + 1
    BY <1>1, <1>3 DEF Lacks
  <1> QED
    BY <1>1, <1>2, <1>3

\* What is taken from the channel and written stays in its place.
LEMMA WrittenStays ==
  ASSUME NEW s \in Seq(Nat), NEW q \in Seq(Nat), q # <<>>
  PROVE  Append(s, Head(q)) \o Tail(q) = s \o q
  <1>1. /\ Head(q) = q[1] /\ Head(q) \in Nat /\ Tail(q) \in Seq(Nat)
        /\ Len(q) \in Nat \ {0} /\ Len(Tail(q)) = Len(q) - 1
        /\ \A i \in 1..Len(Tail(q)) : Tail(q)[i] = q[i + 1]
    BY HeadTailProperties, EmptySeq
  <1>2. /\ Append(s, Head(q)) \in Seq(Nat) /\ Len(s) \in Nat
        /\ Len(Append(s, Head(q))) = Len(s) + 1
        /\ \A k \in 1..Len(s) : Append(s, Head(q))[k] = s[k]
        /\ Append(s, Head(q))[Len(s) + 1] = Head(q)
    BY <1>1, AppendProperties, LenProperties
  <1> DEFINE h == Append(s, Head(q))
             t == Tail(q)
             l == h \o t
             r == s \o q
  <1>3. /\ l \in Seq(Nat) /\ Len(l) = Len(h) + Len(t)
        /\ \A i \in 1..Len(h) + Len(t) : l[i] = IF i <= Len(h) THEN h[i] ELSE t[i - Len(h)]
    BY <1>1, <1>2, ConcatProperties
  <1>4. /\ r \in Seq(Nat) /\ Len(r) = Len(s) + Len(q)
        /\ \A i \in 1..Len(s) + Len(q) : r[i] = IF i <= Len(s) THEN s[i] ELSE q[i - Len(s)]
    BY ConcatProperties
  <1> HIDE DEF h, t, l, r
  <1>5. Len(h) = Len(s) + 1 /\ Len(t) = Len(q) - 1
    BY <1>1, <1>2 DEF h, t
  <1>6. ASSUME NEW i \in 1..Len(l) PROVE l[i] = r[i]
    <2>0. i \in 1..Len(s) + Len(q) /\ i \in 1..Len(h) + Len(t)
      BY <1>1, <1>2, <1>3, <1>5
    <2>00. /\ l[i] = IF i <= Len(h) THEN h[i] ELSE t[i - Len(h)]
           /\ r[i] = IF i <= Len(s) THEN s[i] ELSE q[i - Len(s)]
      BY <1>3, <1>4, <2>0
    <2>1. CASE i <= Len(s)
      <3>1. h[i] = s[i]
        BY <1>2, <2>0, <2>1 DEF h
      <3> QED
        BY <1>2, <1>5, <2>0, <2>00, <2>1, <3>1
    <2>2. CASE i = Len(s) + 1
      <3>1. h[i] = q[1]
        BY <1>1, <1>2, <2>2 DEF h
      <3>2. l[i] = h[i] /\ r[i] = q[i - Len(s)] /\ i - Len(s) = 1
        BY <1>2, <1>5, <2>0, <2>00, <2>2
      <3> QED
        BY <3>1, <3>2
    <2>3. CASE i > Len(s) + 1
      <3> DEFINE m == i - (Len(s) + 1)
      <3>1. m \in 1..Len(t) /\ m + 1 = i - Len(s) /\ m = i - Len(h)
        BY <1>1, <1>2, <1>5, <2>0, <2>3
      <3>2. t[m] = q[m + 1]
        BY <1>1, <3>1 DEF t
      <3>3. l[i] = t[i - Len(h)] /\ r[i] = q[i - Len(s)]
        BY <1>2, <1>5, <2>0, <2>00, <2>3
      <3> QED
        BY <3>1, <3>2, <3>3
    <2> QED
      BY <1>2, <2>0, <2>1, <2>2, <2>3
  <1>7. Len(l) = Len(r)
    BY <1>1, <1>2, <1>3, <1>4, <1>5
  <1>8. l = r
    BY <1>3, <1>4, <1>6, <1>7, SeqEqual
  <1> QED
    BY <1>8 DEF l, r, h, t

LEMMA ConcatAppend ==
  ASSUME NEW s \in Seq(Nat), NEW q \in Seq(Nat), NEW e \in Nat
  PROVE  s \o Append(q, e) = Append(s \o q, e)
  <1>1. <<e>> \in Seq(Nat)
    OBVIOUS
  <1>2. Append(q, e) = q \o <<e>> /\ Append(s \o q, e) = (s \o q) \o <<e>>
    BY ConcatProperties, AppendIsConcat
  <1> QED
    BY <1>1, <1>2, ConcatAssociative

\* The replayed event is one of those published, what a connection gets is
\* ordered, and until the replay it does not hold the event to be replayed.
Delivered(c) ==
  /\ held[c] <= Last
  /\ Ordered(Stream(c), held[c], Last)
  /\ pc[c] = "replaying" => Lacks(Stream(c), held[c])
  /\ pc[c] \in {"idle", "accepted"} => Stream(c) = <<>>

LEMMA StreamType ==
  ASSUME StreamTypes, NEW c \in Connections
  PROVE  /\ Stream(c) \in Seq(Nat) /\ queue[c] \in Seq(Nat) /\ sent[c] \in Seq(Nat)
         /\ held[c] \in Nat /\ Last \in Nat
  BY ConcatProperties, LastIsNat DEF StreamTypes, Stream

\* A connection that a step leaves alone
LEMMA Untouched ==
  ASSUME NEW d \in Connections, Delivered(d), published' = published,
         queue'[d] = queue[d], sent'[d] = sent[d], held'[d] = held[d],
         pc'[d] = "replaying" => pc[d] = "replaying",
         pc'[d] \in {"idle", "accepted"} => pc[d] \in {"idle", "accepted"}
  PROVE  Delivered(d)'
  BY DEF Delivered, Stream, Last

LEMMA PublishDelivers ==
  ASSUME StreamTypes, Publishes, NEW d \in Connections, Delivered(d),
         d \in subscribers => pc[d] \notin {"idle", "accepted"}
  PROVE  Delivered(d)'
  <1>1. PICK type \in {"warp.ok", "other"} : Publish(type)
    BY DEF Publishes
  <1>2. Last' = Last + 1
    BY <1>1, PublishGrows DEF StreamTypes
  <1>3. /\ Stream(d) \in Seq(Nat) /\ queue[d] \in Seq(Nat) /\ sent[d] \in Seq(Nat)
        /\ held[d] \in Nat /\ Last \in Nat
    BY StreamType
  <1>4. UNCHANGED <<held, sent, pc>>
    BY DEF Publishes
  <1>5. /\ queue'[d] \in {queue[d], Append(queue[d], Last + 1)}
        /\ queue'[d] # queue[d] => d \in subscribers
    BY <1>1 DEF Publish, Offer
  <1>6. /\ Ordered(Stream(d), held[d], Last + 1)
        /\ Ordered(Append(Stream(d), Last + 1), held[d], Last + 1)
        /\ Lacks(Stream(d), held[d]) => Lacks(Append(Stream(d), Last + 1), held[d])
    BY <1>3, NewestIsOrdered DEF Delivered
  <1>7. held'[d] <= Last'
    BY <1>2, <1>3, <1>4 DEF Delivered
  <1>8. CASE queue'[d] = queue[d]
    <2>1. Stream(d)' = Stream(d)
      BY <1>4, <1>8 DEF Stream
    <2> QED
      BY <1>2, <1>4, <1>6, <1>7, <2>1 DEF Delivered
  <1>9. CASE queue'[d] = Append(queue[d], Last + 1) /\ d \in subscribers
    <2>1. Stream(d)' = Append(Stream(d), Last + 1)
      <3>1. Last + 1 \in Nat
        BY <1>3
      <3>2. sent[d] \o Append(queue[d], Last + 1) = Append(sent[d] \o queue[d], Last + 1)
        BY <1>3, <3>1, ConcatAppend
      <3>3. Stream(d)' = sent[d] \o Append(queue[d], Last + 1)
        BY <1>4, <1>9 DEF Stream
      <3> QED
        BY <3>2, <3>3 DEF Stream
    <2> QED
      BY <1>2, <1>4, <1>6, <1>7, <1>9, <2>1 DEF Delivered
  <1> QED
    BY <1>5, <1>8, <1>9

LEMMA ReplayDelivers ==
  ASSUME StreamTypes, PlainTypes, NEW c \in Connections, Replay(c), Delivered(c)
  PROVE  Delivered(c)'
  <1>1. /\ Stream(c) \in Seq(Nat) /\ queue[c] \in Seq(Nat) /\ sent[c] \in Seq(Nat)
        /\ held[c] \in Nat /\ Last \in Nat
    BY StreamType
  <1>2. /\ pc[c] = "replaying" /\ pc'[c] = "greeting"
        /\ UNCHANGED <<published, held, sent>>
    BY DEF Replay, PlainTypes
  <1>3. queue'[c] \in {queue[c], Append(queue[c], held[c])}
    BY DEF Replay, StreamTypes, Offer
  <1>4. CASE queue'[c] = queue[c]
    BY <1>2, <1>4, Untouched
  <1>5. CASE queue'[c] = Append(queue[c], held[c])
    <2>1. Stream(c)' = Append(Stream(c), held[c])
      <3>1. held[c] \in Nat
        BY <1>1
      <3>2. sent[c] \o Append(queue[c], held[c]) = Append(sent[c] \o queue[c], held[c])
        BY <1>1, <3>1, ConcatAppend
      <3>3. Stream(c)' = sent[c] \o Append(queue[c], held[c])
        BY <1>2, <1>5 DEF Stream
      <3> QED
        BY <3>2, <3>3 DEF Stream
    <2>2. Ordered(Append(Stream(c), held[c]), held[c], Last)
      BY <1>1, <1>2, ReplayedIsOrdered DEF Delivered
    <2> QED
      BY <1>2, <2>1, <2>2 DEF Delivered, Last
  <1> QED
    BY <1>3, <1>4, <1>5

LEMMA WriteDelivers ==
  ASSUME StreamTypes, PlainTypes, NEW c \in Connections, WriteEvent(c), Delivered(c)
  PROVE  Delivered(c)'
  <1>1. queue[c] \in Seq(Nat) /\ sent[c] \in Seq(Nat) /\ queue[c] # <<>>
    BY StreamType DEF WriteEvent
  <1>2. queue'[c] = Tail(queue[c]) /\ sent'[c] = Append(sent[c], Head(queue[c]))
    BY DEF WriteEvent, StreamTypes
  <1>3. Stream(c)' = Stream(c)
    BY <1>1, <1>2, WrittenStays DEF Stream
  <1>4. pc'[c] \in {"serving", "leaving"} /\ UNCHANGED <<published, held>>
    BY DEF WriteEvent, WriteResult, PlainTypes
  <1> QED
    BY <1>3, <1>4 DEF Delivered, Last

LEMMA DeliveredStep ==
  ASSUME StreamTypes, PlainTypes, Registration, NEW d \in Connections, Delivered(d),
         [Next]_vars
  PROVE  Delivered(d)'
  <1>1. pc \in [Connections -> Location]
    BY DEF PlainTypes
  <1>2. CASE Publishes
    <2>1. d \in subscribers => pc[d] \notin {"idle", "accepted"}
      BY DEF Registration, Subscribed
    <2> QED
      BY <1>2, <2>1, PublishDelivers
  <1>3. CASE Quiet
    BY <1>3, Untouched DEF Quiet, Moves
  <1>4. ASSUME NEW c \in Connections, c # d,
               Subscribe(c) \/ Replay(c) \/ WriteEvent(c) \/ Unsubscribe(c)
        PROVE  Delivered(d)'
    <2>1. /\ queue'[d] = queue[d] /\ sent'[d] = sent[d] /\ held'[d] = held[d]
          /\ pc'[d] = pc[d] /\ published' = published
      BY <1>1, <1>4 DEF Subscribe, Replay, WriteEvent, WriteResult, Unsubscribe, StreamTypes
    <2> QED
      BY <2>1, Untouched
  <1>5. CASE Subscribe(d)
    <2>1. /\ pc[d] = "accepted" /\ pc'[d] = "replaying" /\ held'[d] = Last
          /\ UNCHANGED <<published, queue, sent>>
      BY <1>1, <1>5 DEF Subscribe, StreamTypes
    <2>2. Stream(d)' = <<>>
      BY <2>1 DEF Delivered, Stream
    <2>3. Last' = Last /\ Last \in Nat
      BY <2>1, LastIsNat DEF Last, StreamTypes
    <2>4. Ordered(Stream(d)', Last, Last) /\ Lacks(Stream(d)', Last)
      BY <2>2, NothingIsOrdered
    <2> QED
      BY <2>1, <2>3, <2>4 DEF Delivered
  <1>6. CASE Replay(d)
    BY <1>6, ReplayDelivers
  <1>7. CASE WriteEvent(d)
    BY <1>7, WriteDelivers
  <1>8. CASE Unsubscribe(d)
    <2>1. /\ pc'[d] = "idle" /\ held'[d] = 0 /\ queue'[d] = <<>> /\ sent'[d] = <<>>
          /\ UNCHANGED published
      BY <1>1, <1>8 DEF Unsubscribe, StreamTypes
    <2>2. Stream(d)' = <<>>
      BY <2>1, EmptySeq, ConcatEmptySeq DEF Stream
    <2>3. Last' = Last /\ Last \in Nat
      BY <2>1, LastIsNat DEF Last, StreamTypes
    <2>4. Ordered(Stream(d)', 0, Last)
      BY <2>2, NothingIsOrdered
    <2> QED
      BY <2>1, <2>2, <2>3, <2>4 DEF Delivered
  <1> QED
    BY <1>1, <1>2, <1>3, <1>4, <1>5, <1>6, <1>7, <1>8, StepKinds

\* Only published events are refused.
LEMMA RefusedStep ==
  ASSUME StreamTypes, PlainTypes, refused \subseteq 1..Last,
         \A c \in Connections : Delivered(c), [Next]_vars
  PROVE  refused' \subseteq 1..Last'
  <1>1. Last \in Nat
    BY LastIsNat DEF StreamTypes
  <1>2. CASE Publishes
    <2>1. PICK type \in {"warp.ok", "other"} : Publish(type)
      BY <1>2 DEF Publishes
    <2>2. Last' = Last + 1
      BY <2>1, PublishGrows DEF StreamTypes
    <2>3. refused' \subseteq refused \cup {Last + 1}
      BY <2>1 DEF Publish
    <2> QED
      BY <1>1, <2>2, <2>3
  <1>3. ASSUME NEW c \in Connections, Replay(c) PROVE refused' \subseteq 1..Last'
    <2>1. /\ published' = published /\ refused' \subseteq refused \cup {held[c]}
          /\ held[c] = 0 => refused' = refused
      BY <1>3 DEF Replay
    <2>2. held[c] \in Nat /\ held[c] <= Last
      BY DEF StreamTypes, Delivered
    <2> QED
      BY <1>1, <2>1, <2>2 DEF Last
  <1>4. CASE UNCHANGED <<published, refused>>
    BY <1>4 DEF Last
  <1> QED
    BY <1>2, <1>3, <1>4, StepKinds DEF Quiet, Subscribe, WriteEvent, Unsubscribe, PlainTypes

-----------------------------------------------------------------------------
(* The theorems                                                            *)

Served ==
  /\ StreamTypes /\ PlainTypes /\ refused \subseteq 1..Last
  /\ Registration /\ Linked
  /\ \A c \in Connections : Delivered(c)

LEMMA InitServed == Init => Served
  <1> SUFFICES ASSUME Init PROVE Served
    OBVIOUS
  <1>1. StreamTypes
    BY EmptySeq DEF Init, StreamTypes
  <1>2. PlainTypes
    BY DEF Init, PlainTypes, Location
  <1>3. Last = 0 /\ Len(<<>>) = 0
    BY EmptySeq DEF Init, Last
  <1>4. Registration /\ Linked
    BY <1>3, BufferAssumption DEF Init, Registration, Subscribed, Linked
  <1>5. ASSUME NEW c \in Connections PROVE Delivered(c)
    <2>1. Stream(c) = <<>>
      BY EmptySeq, ConcatEmptySeq DEF Init, Stream
    <2>2. held[c] = 0
      BY DEF Init
    <2> QED
      BY <1>3, <2>1, <2>2, NothingIsOrdered DEF Delivered
  <1> QED
    BY <1>1, <1>2, <1>4, <1>5 DEF Served, Init

LEMMA NextServed == Served /\ [Next]_vars => Served'
  <1> SUFFICES ASSUME Served, [Next]_vars PROVE Served'
    OBVIOUS
  <1>1. StreamTypes' /\ PlainTypes'
    BY StreamTypesStep, PlainTypesStep DEF Served
  <1>2. Registration' /\ Linked' /\ refused' \subseteq 1..Last'
    BY RegistrationStep, LinkedStep, RefusedStep DEF Served
  <1>3. ASSUME NEW c \in Connections PROVE Delivered(c)'
    BY DeliveredStep DEF Served
  <1> QED
    BY <1>1, <1>2, <1>3 DEF Served

\* The subscribers are the connections between Subscribe and Unsubscribe, so
\* Publish sends to no closed channel, and none holds more than its capacity;
\* a connection that works is the page's and has a handler.
THEOREM HubKnowsItsConnections == Spec => []IInv
  <1>1. Served => IInv
    BY DEF Served, StreamTypes, PlainTypes, IInv, TypeOK, Linked
  <1> QED
    BY <1>1, InitServed, NextServed, PTL DEF Spec

\* A connection gets no event twice, none from before its subscription but the
\* replayed one, and what it gets in the order of publication, the replayed
\* event aside, however Subscribe, Publish and the loop of serveWebSocket
\* interleave.
THEOREM EventsInOrder == Spec => []InOrder
  <1>1. Served => InOrder
    BY DEF Served, Delivered, Ordered, InOrder
  <1> QED
    BY <1>1, InitServed, NextServed, PTL DEF Spec
=============================================================================
