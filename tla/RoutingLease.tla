---------------------------- MODULE RoutingLease ----------------------------
(***************************************************************************)
(* What the home tunnel promises about the physical adapter it borrows     *)
(* (home_routing.go): BKNetwork touches the adapter's IPv6 options and adds *)
(* host routes only while a lease on disk says how to undo it, and the     *)
(* lease disappears only when everything is undone.  Crashes are steps     *)
(* that change nothing here: the promise is about what is on disk and in   *)
(* the operating system.                                                   *)
(***************************************************************************)
CONSTANTS
  Tunnels, Adapters,
  Options,     \* IPv6 options of an adapter that can be enabled
  Endpoints,   \* addresses of WireGuard peers
  Markers,     \* route metrics that mark a route as BKNetwork's
  NoRecord

VARIABLES
  lease,       \* NoRecord, or what is needed to undo every change
  flags,       \* the options enabled on each adapter
  owned,       \* the active routes that carry a marker
  orig         \* the options as everybody but BKNetwork left them

leaseVars == <<lease, flags, owned, orig>>

Leased(a) == lease # NoRecord /\ lease.adapter = a

Init ==
  /\ lease = NoRecord
  /\ flags = orig
  /\ orig \in [Adapters -> SUBSET Options]
  /\ owned = {}

\* The lease remembers the options before the first change.
Take ==
  /\ lease = NoRecord
  /\ \E t \in Tunnels, a \in Adapters :
       lease' = [tunnel |-> t, adapter |-> a, flags |-> flags[a], routes |-> {}]
  /\ UNCHANGED <<flags, owned, orig>>

\* A route is announced in the lease before it is added.
Announce ==
  /\ lease # NoRecord
  /\ \E r \in Endpoints \X Markers :
       lease' = [lease EXCEPT !.routes = lease.routes \cup {r}]
  /\ UNCHANGED <<flags, owned, orig>>

\* Under a lease the options of its adapter and its own routes may change.
Adjust ==
  /\ lease # NoRecord
  /\ \E f \in SUBSET Options : flags' = [flags EXCEPT ![lease.adapter] = f]
  /\ owned' \subseteq owned \cup {<<lease.adapter, r[1], r[2]>> : r \in lease.routes}
  /\ UNCHANGED <<lease, orig>>

\* An adapter without a lease belongs to the rest of the world.
Outside ==
  /\ \E a \in Adapters, f \in SUBSET Options :
       /\ ~Leased(a)
       /\ flags' = [flags EXCEPT ![a] = f]
       /\ orig' = [orig EXCEPT ![a] = f]
  /\ UNCHANGED <<lease, owned>>

\* The lease ends when nothing is left to undo.
Release ==
  /\ lease # NoRecord
  /\ flags[lease.adapter] = lease.flags
  /\ owned = {}
  /\ lease' = NoRecord
  /\ UNCHANGED <<flags, owned, orig>>

Next == Take \/ Announce \/ Adjust \/ Outside \/ Release

Spec == Init /\ [][Next]_leaseVars

=============================================================================
