--------------------------- MODULE SnapshotContent ---------------------------
(***************************************************************************)
(* What collectNetworkSnapshotUnshared (internal/handlers/snapshot.go)     *)
(* concludes from what it has read: which adapter is recommended, which    *)
(* ones are shown, whether the machine is online, and which free-flow mode *)
(* is reported on which adapter.  A reading has                            *)
(*   basics     the adapters in the order Get-NetAdapter lists them,       *)
(*   ipv4, ipv6 the adapters to which the protocol is bound,               *)
(*   addressed  those with an address,                                     *)
(*   detected4, detected6  what warp-cli sees outside its tunnel,          *)
(*   route4, route6  where the default routes lead,                        *)
(*   warp, home whether WARP and the home tunnel are connected;            *)
(* the claim is freeFlowRuntime, read last.  Names are compared without    *)
(* case.  SnapshotCollection has the moments at which the parts are read.  *)
(***************************************************************************)
EXTENDS Integers, Sequences, WellFoundedInduction, TLAPS

CONSTANTS
  Names,        \* of adapters
  NoName,       \* the empty name
  WarpAdapter   \* "CloudflareWARP"

\* "up" is the status, "gateway" what the IP configuration has, "virtual" a
\* name or description with one of the markers of isWARPOrVirtualAdapter.
Basics == Seq([name: Names, up: BOOLEAN, virtual: BOOLEAN, gateway: BOOLEAN])

Readings ==
  [basics: Basics, ipv4: SUBSET Names, ipv6: SUBSET Names, addressed: SUBSET Names,
   detected4: Names \cup {NoName}, detected6: Names \cup {NoName},
   route4: Names \cup {NoName}, route6: Names \cup {NoName},
   warp: BOOLEAN, home: BOOLEAN]

Claims == [kind: {"", "warp", "home"}, adapter: Names \cup {NoName}]

-----------------------------------------------------------------------------
Elements(basics) == {basics[i] : i \in DOMAIN basics}
Listed(basics) == {b.name : b \in Elements(basics)}
Physical(basics) == {b.name : b \in {x \in Elements(basics) : ~x.virtual}}

Least(S) == CHOOSE i \in S : \A j \in S : i <= j

\* The first candidate that is a listed physical adapter, else the first
\* physical adapter that is up.
ChooseRecommendedInterface(basics, candidates) ==
  LET usable == {i \in DOMAIN candidates : candidates[i] \in Physical(basics)}
      online == {i \in DOMAIN basics : basics[i].up /\ ~basics[i].virtual}
  IN  IF usable # {} THEN candidates[Least(usable)]
      ELSE IF online # {} THEN basics[Least(online)].name
      ELSE NoName

Recommended(r, claim) ==
  ChooseRecommendedInterface(r.basics,
    <<claim.adapter, r.detected6, r.route6, r.route4>>)

\* The adapters of the snapshot
Selected(r, claim) ==
  Listed(r.basics) \cap
    ( {claim.adapter, r.detected6, r.route4, r.route6, WarpAdapter,
       Recommended(r, claim)}
      \cup {b.name : b \in {x \in Elements(r.basics) : x.up /\ x.gateway}} )

\* availableAdapters
Available(r) == Physical(r.basics)

Online(r, claim) ==
  \E b \in Elements(r.basics) :
    /\ b.name \in Selected(r, claim)
    /\ b.up
    /\ b.name \in r.addressed \/ b.gateway

\* evaluateWarpIPv6Underlay
UnderlayOK(r, adapter) ==
  r.detected6 # NoName /\ r.detected6 = adapter /\ r.detected4 = NoName

IPv6Only(r, adapter) == adapter \in r.ipv6 /\ adapter \notin r.ipv4

FreeByWarp(r, claim, adapter) ==
  /\ adapter = Recommended(r, claim)
  /\ r.warp /\ IPv6Only(r, adapter) /\ UnderlayOK(r, adapter)

FreeByHome(r, claim, adapter) ==
  /\ adapter = Recommended(r, claim)
  /\ claim.kind = "home" /\ r.home /\ IPv6Only(r, adapter)

FreeFlow(r, claim, adapter) ==
  FreeByWarp(r, claim, adapter) \/ FreeByHome(r, claim, adapter)

\* freeFlowModeSnapshot: the home mode is looked at last. Active is Mode # "none".
Mode(r, claim) ==
  CASE \E a \in Selected(r, claim) : FreeByHome(r, claim, a) -> "home"
    [] /\ \E a \in Selected(r, claim) : FreeByWarp(r, claim, a)
       /\ \A a \in Selected(r, claim) : ~FreeByHome(r, claim, a) -> "warp"
    [] OTHER -> "none"

-----------------------------------------------------------------------------
LEMMA LeastIsLeast ==
  ASSUME NEW S \in SUBSET Nat, S # {}
  PROVE  Least(S) \in S /\ \A j \in S : Least(S) <= j
<1> DEFINE R == OpToRel(<, Nat)
<1>1. \E i \in S : \A j \in S : ~(<<j, i>> \in R)
  <2>1. IsWellFoundedOn(R, Nat)
    BY NatLessThanWellFounded
  <2> HIDE DEF R
  <2> QED
    BY <2>1, WFMin
<1>2. \A i, j \in S : ~(<<j, i>> \in R) => i <= j
  BY DEF OpToRel
<1>3. \E i \in S : \A j \in S : i <= j
  <2> HIDE DEF R
  <2> QED
    BY <1>1, <1>2
<1> QED
  BY <1>3 DEF Least

\* The page never recommends WARP's adapter, a VPN's or a virtual machine's:
\* chooseRecommendedInterface (snapshot.go:497-516) answers a listed physical
\* adapter, or nothing, and then no listed physical adapter is up.
THEOREM RecommendsPhysical ==
  ASSUME NEW basics \in Basics, NEW candidates \in Seq(Names \cup {NoName})
  PROVE  LET chosen == ChooseRecommendedInterface(basics, candidates)
         IN  \/ chosen \in Physical(basics)
             \/ chosen = NoName /\ \A b \in Elements(basics) : ~(b.up /\ ~b.virtual)
<1> DEFINE usable == {i \in DOMAIN candidates : candidates[i] \in Physical(basics)}
           online == {i \in DOMAIN basics : basics[i].up /\ ~basics[i].virtual}
<1>1. usable \in SUBSET Nat /\ online \in SUBSET Nat
  BY DEF Basics
<1>2. CASE usable # {}
  <2>1. Least(usable) \in usable
    BY <1>1, <1>2, LeastIsLeast
  <2> QED
    BY <1>2, <2>1 DEF ChooseRecommendedInterface
<1>3. CASE usable = {} /\ online # {}
  <2>1. Least(online) \in online
    BY <1>1, <1>3, LeastIsLeast
  <2>2. basics[Least(online)].name \in Physical(basics)
    BY <2>1 DEF Physical, Elements
  <2> QED
    BY <1>3, <2>2 DEF ChooseRecommendedInterface
<1>4. CASE usable = {} /\ online = {}
  BY <1>4 DEF ChooseRecommendedInterface, Elements
<1> QED
  BY <1>2, <1>3, <1>4

\* A claim is followed: whatever the routes and WARP say, the adapter a mode
\* was claimed for stays the recommended one as long as it is a listed
\* physical adapter, and the home mode is reported exactly while it is claimed,
\* its tunnel is connected and that adapter has IPv6 alone (snapshot.go:375-474).
THEOREM FollowsTheClaim ==
  ASSUME NEW r \in Readings, NEW claim \in Claims,
         claim.adapter \in Physical(r.basics)
  PROVE  /\ Recommended(r, claim) = claim.adapter
         /\ Mode(r, claim) = "home" <=>
              claim.kind = "home" /\ r.home /\ IPv6Only(r, claim.adapter)
<1> DEFINE candidates == <<claim.adapter, r.detected6, r.route6, r.route4>>
           usable == {i \in DOMAIN candidates : candidates[i] \in Physical(r.basics)}
<1>1. 1 \in usable /\ usable \in SUBSET Nat /\ \A i \in usable : 1 <= i
  OBVIOUS
<1>2. Least(usable) = 1
  <2>1. Least(usable) \in usable /\ Least(usable) <= 1
    BY <1>1, LeastIsLeast
  <2> QED
    BY <1>1, <2>1
<1>3. Recommended(r, claim) = claim.adapter
  BY <1>1, <1>2 DEF Recommended, ChooseRecommendedInterface
<1>4. claim.adapter \in Selected(r, claim)
  BY DEF Selected, Listed, Physical
<1>5. Mode(r, claim) = "home" <=> \E a \in Selected(r, claim) : FreeByHome(r, claim, a)
  BY DEF Mode
<1> QED
  BY <1>3, <1>4, <1>5 DEF FreeByHome

\* Free flow is never reported of a virtual adapter or one with IPv4, in
\* either of the two places: a mode is active exactly if an adapter of the
\* snapshot is marked, which is then the recommended, physical one with IPv6
\* alone (snapshot.go:419-474), for which WARP sees no IPv4 outside its tunnel
\* unless the home mode is the reason.
THEOREM FreeFlowIsReal ==
  ASSUME NEW r \in Readings, NEW claim \in Claims, NoName \notin Names
  PROVE  /\ Mode(r, claim) # "none" <=> \E a \in Selected(r, claim) : FreeFlow(r, claim, a)
         /\ \A a \in Selected(r, claim) : FreeFlow(r, claim, a) =>
              /\ a \in Physical(r.basics) /\ IPv6Only(r, a)
              /\ Mode(r, claim) = "warp" => r.detected4 = NoName
<1> DEFINE candidates == <<claim.adapter, r.detected6, r.route6, r.route4>>
<1>1. r.basics \in Basics /\ candidates \in Seq(Names \cup {NoName})
  <2>1. r.basics \in Basics
    BY DEF Readings
  <2>2. /\ claim.adapter \in Names \cup {NoName}
        /\ r.detected6 \in Names \cup {NoName}
        /\ r.route6 \in Names \cup {NoName}
        /\ r.route4 \in Names \cup {NoName}
    BY DEF Readings, Claims
  <2> QED
    BY <2>1, <2>2
<1>2. Recommended(r, claim) \in Physical(r.basics) \/ Recommended(r, claim) = NoName
  <2> HIDE DEF candidates
  <2>1. ChooseRecommendedInterface(r.basics, candidates) \in Physical(r.basics)
          \/ ChooseRecommendedInterface(r.basics, candidates) = NoName
    BY <1>1, RecommendsPhysical
  <2> QED
    BY <2>1 DEF Recommended, candidates
<1>3. Selected(r, claim) \subseteq Names
  <2>1. \A i \in DOMAIN r.basics : r.basics[i].name \in Names
    <3> DEFINE Basic == [name: Names, up: BOOLEAN, virtual: BOOLEAN, gateway: BOOLEAN]
    <3>1. r.basics \in Seq(Basic)
      BY <1>1 DEF Basics
    <3>2. \A b \in Basic : b.name \in Names
      OBVIOUS
    <3> HIDE DEF Basic
    <3>3. \A i \in DOMAIN r.basics : r.basics[i] \in Basic
      BY <3>1
    <3> QED
      BY <3>2, <3>3
  <2>2. \A b \in Elements(r.basics) : b.name \in Names
    BY <2>1 DEF Elements
  <2>3. Listed(r.basics) \subseteq Names
    BY <2>2 DEF Listed
  <2> QED
    BY <2>3 DEF Selected
<1>4. Mode(r, claim) # "none" <=> \E a \in Selected(r, claim) : FreeFlow(r, claim, a)
  BY DEF Mode, FreeFlow
<1>5. ASSUME NEW a \in Selected(r, claim), FreeFlow(r, claim, a)
      PROVE  /\ a \in Physical(r.basics) /\ IPv6Only(r, a)
             /\ Mode(r, claim) = "warp" => r.detected4 = NoName
  <2>1. a = Recommended(r, claim) /\ IPv6Only(r, a)
    BY <1>5 DEF FreeFlow, FreeByHome, FreeByWarp
  <2>2. a \in Physical(r.basics)
    BY <1>2, <1>3, <2>1
  <2>3. Mode(r, claim) = "warp" => \E b \in Selected(r, claim) : FreeByWarp(r, claim, b)
    BY DEF Mode
  <2> QED
    BY <2>1, <2>2, <2>3 DEF FreeByWarp, UnderlayOK
<1> QED
  BY <1>4, <1>5
=============================================================================
