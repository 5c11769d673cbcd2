------------------------- MODULE SnapshotCollection -------------------------
(***************************************************************************)
(* internal/handlers/snapshot_collection.go: concurrent requests for the   *)
(* network snapshot (GET /api/v1/status and every WebSocket refresh) share *)
(* one running collection; the POST handlers that change the network cut   *)
(* the sharing before and after their work, so that a request which starts *)
(* after an operation never receives what was read before it ended.        *)
(*                                                                         *)
(* A snapshot is abstracted to the set of network versions its parts       *)
(* (adapters, Wi-Fi, IPv6, WARP, ...) were read at.                        *)
(***************************************************************************)
EXTENDS Integers

CONSTANTS
  Readers,      \* goroutines that ask for a snapshot
  Operations,   \* POST handlers wrapped by NetworkChangeHandler, and StartWarp
  Calls,        \* snapshotCall objects (bounds the concurrent collections)
  NoCall,       \* the nil pointer
  MaxVersion,   \* bound on the changes of the network
  MaxGeneration \* bound on the invalidations

ASSUME NoCallAssumption == NoCall \notin Calls
ASSUME BoundsAssumption == MaxVersion \in Nat /\ MaxGeneration \in Nat

VARIABLES
  version,     \* the current state of the network, as a number of changes
  current,     \* snapshotCollection.current
  call,        \* the snapshotCall objects
  reader,      \* what each reader waits for
  operation,   \* whether each operation is inside its handler
  floor,       \* history: version at the last invalidation
  generation   \* history: number of invalidations

vars == <<version, current, call, reader, operation, floor, generation>>

\* running: collect() is executing; collected: it has returned and the
\* goroutine has not taken g.mu yet; closed: done is closed (or unused).
CallState == {"running", "collected", "closed"}

Active(c) == call[c].state # "closed"

Waiting(r) == reader[r].call # NoCall

TypeOK ==
  /\ version \in Nat
  /\ current \in Calls \cup {NoCall}
  /\ call \in [Calls -> [state: CallState, seen: SUBSET Nat, gen: Nat]]
  /\ reader \in [Readers -> [call: Calls \cup {NoCall}, floor: Nat]]
  /\ operation \in [Operations -> BOOLEAN]
  /\ floor \in Nat
  /\ generation \in Nat

Init ==
  /\ version = 0
  /\ current = NoCall
  /\ call = [c \in Calls |-> [state |-> "closed", seen |-> {}, gen |-> 0]]
  /\ reader = [r \in Readers |-> [call |-> NoCall, floor |-> 0]]
  /\ operation = [o \in Operations |-> FALSE]
  /\ floor = 0
  /\ generation = 0

-----------------------------------------------------------------------------
(* The request side: collect, up to its select.                            *)

\* An object nobody refers to any more; allocating reuses it.
Unreferenced(c) ==
  /\ ~Active(c)
  /\ current # c
  /\ \A r \in Readers : reader[r].call # c

\* g.current is set: the request waits for the collection already running.
Join(r) ==
  /\ ~Waiting(r)
  /\ current # NoCall
  /\ reader' = [reader EXCEPT ![r] = [call |-> current, floor |-> floor]]
  /\ UNCHANGED <<version, current, call, operation, floor, generation>>

\* g.current is nil: the request starts a collection and publishes it.
Start(r) ==
  /\ ~Waiting(r)
  /\ current = NoCall
  /\ \E c \in Calls :
       /\ Unreferenced(c)
       /\ current' = c
       /\ call' = [call EXCEPT ![c] = [state |-> "running", seen |-> {},
                                       gen |-> generation]]
       /\ reader' = [reader EXCEPT ![r] = [call |-> c, floor |-> floor]]
  /\ UNCHANGED <<version, operation, floor, generation>>

\* <-call.done: the request returns what the collection stored.
Receive(r) ==
  /\ Waiting(r)
  /\ ~Active(reader[r].call)
  /\ reader' = [reader EXCEPT ![r] = [call |-> NoCall, floor |-> 0]]
  /\ UNCHANGED <<version, current, call, operation, floor, generation>>

\* <-ctx.Done(): the client went away; the collection keeps running.
GiveUp(r) ==
  /\ Waiting(r)
  /\ reader' = [reader EXCEPT ![r] = [call |-> NoCall, floor |-> 0]]
  /\ UNCHANGED <<version, current, call, operation, floor, generation>>

-----------------------------------------------------------------------------
(* The goroutine of a call.                                                *)

\* collectNetworkSnapshotUnshared reads one more part of the network state.
ReadPart(c) ==
  /\ call[c].state = "running"
  /\ call' = [call EXCEPT ![c].seen = @ \cup {version}]
  /\ UNCHANGED <<version, current, reader, operation, floor, generation>>

\* collectNetworkSnapshotUnshared has read everything; it assembles the snapshot
\* and returns it, or it returns an error.
CollectReturns(c) ==
  /\ call[c].state = "running"
  /\ call[c].seen # {}
  /\ call' = [call EXCEPT ![c].state = "collected"]
  /\ UNCHANGED <<version, current, reader, operation, floor, generation>>

\* Mutated: close without checking that the published call is still its own
CloseUnguarded(c) ==
  /\ call[c].state = "collected"
  /\ call' = [call EXCEPT ![c].state = "closed"]
  /\ current' = NoCall
  /\ UNCHANGED <<version, reader, operation, floor, generation>>

\* Mutated: close without withdrawing the published call: a cache
CloseKeepsCurrent(c) ==
  /\ call[c].state = "collected"
  /\ call' = [call EXCEPT ![c].state = "closed"]
  /\ UNCHANGED <<version, current, reader, operation, floor, generation>>

\* Mutated: close only when the call is still the published one
CloseOnlyCurrent(c) ==
  /\ call[c].state = "collected"
  /\ current = c
  /\ call' = [call EXCEPT ![c].state = "closed"]
  /\ current' = NoCall
  /\ UNCHANGED <<version, reader, operation, floor, generation>>

\* Under g.mu: stop the sharing if it is still this call's, then wake everyone.
Close(c) ==
  /\ call[c].state = "collected"
  /\ call' = [call EXCEPT ![c].state = "closed"]
  /\ current' = IF current = c THEN NoCall ELSE current
  /\ UNCHANGED <<version, reader, operation, floor, generation>>

-----------------------------------------------------------------------------
(* The operations and the network.                                         *)

invalidate ==
  /\ generation < MaxGeneration
  /\ current' = NoCall
  /\ floor' = version
  /\ generation' = generation + 1

BeginOperation(o) ==
  /\ ~operation[o]
  /\ operation' = [operation EXCEPT ![o] = TRUE]
  /\ invalidate
  /\ UNCHANGED <<version, call, reader>>

\* Mutated: the deferred invalidate is missing (the operation still has a boundary)
EndWithoutInvalidate(o) ==
  /\ operation[o]
  /\ operation' = [operation EXCEPT ![o] = FALSE]
  /\ generation < MaxGeneration
  /\ generation' = generation + 1
  /\ floor' = version
  /\ UNCHANGED <<version, current, call, reader>>

\* The deferred invalidate: whatever the handler answered.
EndOperation(o) ==
  /\ operation[o]
  /\ operation' = [operation EXCEPT ![o] = FALSE]
  /\ invalidate
  /\ UNCHANGED <<version, call, reader>>

\* An operation in progress, or something outside the program.
NetworkChanges ==
  /\ version < MaxVersion
  /\ version' = version + 1
  /\ UNCHANGED <<current, call, reader, operation, floor, generation>>

ReaderStep(r) == Join(r) \/ Start(r) \/ Receive(r) \/ GiveUp(r)

CallStep(c) == ReadPart(c) \/ CollectReturns(c) \/ Close(c)

OperationStep(o) == BeginOperation(o) \/ EndOperation(o)

Next ==
  \/ \E r \in Readers : ReaderStep(r)
  \/ \E c \in Calls : CallStep(c)
  \/ \E o \in Operations : OperationStep(o)
  \/ NetworkChanges

Spec == Init /\ [][Next]_vars

-----------------------------------------------------------------------------
(* Correctness.                                                            *)

\* What a request receives was read entirely after the last operation boundary
\* that precedes the request: a refresh issued after POST /switch returned can
\* never show the network as it was before (snapshot_collection.go:8-9, 62-63).
FreshSnapshot ==
  \A r \in Readers : Waiting(r) =>
    \A v \in call[reader[r].call].seen : v >= reader[r].floor

\* Collections are really shared: between two operation boundaries at most one
\* runs, even while collections cut loose by an invalidation are finishing.
OneCollectionPerGeneration ==
  \A c, d \in Calls :
    /\ Active(c)
    /\ Active(d)
    /\ call[c].gen = call[d].gen
    => c = d

\* "Completed snapshots are never cached" (snapshot_collection.go:8-9): a
\* request never joins a call that has already delivered its result.
NoJoinAfterCompletion ==
  [][\A r \in Readers :
       ~Waiting(r) /\ Waiting(r)' => call'[reader'[r].call].state # "closed"]_vars

-----------------------------------------------------------------------------
(* The inductive invariant behind the two state properties.                *)

\* The published call runs, belongs to the current generation and has read
\* nothing from before the last invalidation.
CurrentIsShareable ==
  current # NoCall =>
    /\ Active(current)
    /\ call[current].gen = generation
    /\ \A v \in call[current].seen : v >= floor

\* A call of the current generation that is still active is the published one.
ActiveInGenerationIsCurrent ==
  \A c \in Calls : Active(c) =>
    /\ call[c].gen <= generation
    /\ call[c].gen = generation => c = current

FloorsArePast ==
  /\ floor <= version
  /\ \A r \in Readers : reader[r].floor <= version

IInv ==
  /\ TypeOK
  /\ CurrentIsShareable
  /\ ActiveInGenerationIsCurrent
  /\ FloorsArePast
  /\ FreshSnapshot
  /\ OneCollectionPerGeneration

=============================================================================
