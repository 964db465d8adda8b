---------------------------- MODULE MeshBoardProofs ----------------------------
(***************************************************************************)
(* The two daemons of a board, for any number of boards, endpoints,         *)
(* networks and names, and any timeouts: a relaying board relays through    *)
(* the neighbour it thinks, and no longer through a useless one than its    *)
(* last good beacon lives; and the mesh a board runs is one network's.  The *)
(* specification is the one the run checks, MC_MeshBoard.                   *)
(***************************************************************************)
EXTENDS MC_MeshBoard, TLAPS

USE FailoverAssumption

-----------------------------------------------------------------------------
(* The watchdog.  A gateway is kept while its last beacon counts, so what    *)
(* bounds its useless ticks is the age of that beacon, and, when the beacon  *)
(* no longer counts, that the next pass looks elsewhere.                     *)

LEMMA WatchdogOrNot ==
    ASSUME [PartsNext]_<<vars, agent, part>>
    PROVE  [Next]_vars
BY DEF PartsNext

LEMMA Numbers ==
    /\ DeadAfter \in Nat /\ RecoverAfter \in Nat /\ PeerStale \in Nat
    /\ MaxEvents \in Nat /\ MaxStops \in Nat
    /\ Stale \in Nat /\ 0 < Stale
BY DEF Stale

LEMMA CappedInRange ==
    ASSUME NEW cap \in Nat, NEW n \in 0..cap
    PROVE  Capped(n, cap) \in 0..cap
BY DEF Capped

LEMMA Fields ==
    ASSUME TypeOK
    PROVE  /\ up \in [Boards -> BOOLEAN] /\ passed \in [Boards -> BOOLEAN]
           /\ seen \in [Boards -> BOOLEAN] /\ ok \in [Boards -> BOOLEAN]
BY DEF TypeOK

LEMMA TypeInit ==
    ASSUME Init
    PROVE  TypeOK
<1>1. 0 \in 0..(DeadAfter + 1) /\ 0 \in 0..RecoverAfter /\ 0 \in 0..Stale
      /\ Stale \in 0..Stale /\ 0 \in 0..(Stale + 1) /\ 0 \in 0..MaxEvents /\ 0 \in 0..MaxStops
  BY Numbers
<1> QED
  BY <1>1 DEF Init, TypeOK

LEMMA ForgetTypes ==
    ASSUME TypeOK, NEW b \in Boards, Forget(b),
           \/ up' = [up EXCEPT ![b] = TRUE]
           \/ up' = [up EXCEPT ![b] = FALSE],
           route' = route \/ route' = [route EXCEPT ![b] = {}],
           UNCHANGED env,
           stops' \in 0..MaxStops
    PROVE  TypeOK'
<1>1. 0 \in 0..(DeadAfter + 1) /\ 0 \in 0..RecoverAfter /\ Stale \in 0..Stale
      /\ 0 \in 0..(Stale + 1)
  BY Numbers
<1>2. /\ up' \in [Boards -> BOOLEAN] /\ passed' \in [Boards -> BOOLEAN]
      /\ seen' \in [Boards -> BOOLEAN] /\ ok' \in [Boards -> BOOLEAN]
  BY Fields DEF Forget
<1>3. /\ endpoint' \in [Boards -> Endpoints \cup {None}]
      /\ silent' \in [Boards -> 0..(DeadAfter + 1)]
      /\ alive' \in [Boards -> 0..RecoverAfter]
      /\ gateway' \in [Boards -> Boards \cup {None}]
      /\ bad' \in [Boards -> 0..(Stale + 1)]
  BY <1>1 DEF Forget, TypeOK
<1>4. peers' \in [Boards -> [Boards -> 0..Stale]]
  BY <1>1 DEF Forget, TypeOK
<1>5. route' \in [Boards -> SUBSET (Endpoints \X Boards)]
  BY DEF TypeOK
<1> QED
  BY <1>2, <1>3, <1>4, <1>5 DEF env, TypeOK

\* What a pass does to the gateway, the routes and the history.
LEMMA ApplyTypes ==
    ASSUME TypeOK, NEW b \in Boards, ApplyRoute(b)
    PROVE  /\ gateway' \in [Boards -> Boards \cup {None}]
           /\ route' \in [Boards -> SUBSET (Endpoints \X Boards)]
           /\ bad' \in [Boards -> 0..(Stale + 1)]
<1>1. 0 \in 0..(Stale + 1)
  BY Numbers
<1>2. CASE UNCHANGED <<gateway, route>> /\ (bad' = bad \/ bad' = [bad EXCEPT ![b] = 0])
  BY <1>1, <1>2 DEF TypeOK
<1>3. CASE KnownEndpoint(b) # None /\ \E g \in Target(b) : Switch(b, g)
  <2>1. PICK g \in Target(b) : Switch(b, g)
    BY <1>3
  <2>2. g \in Boards \cup {None}
    BY DEF Target
  <2>3. KnownEndpoint(b) \in Endpoints
    BY <1>3 DEF KnownEndpoint, TypeOK
  <2>4. gateway' \in [Boards -> Boards \cup {None}] /\ bad' \in [Boards -> 0..(Stale + 1)]
    BY <1>1, <2>1, <2>2 DEF Switch, TypeOK
  <2>5. {r \in route[b] : r[1] # KnownEndpoint(b)} \cup {<<KnownEndpoint(b), g>>}
          \in SUBSET (Endpoints \X Boards) \/ g = None
    BY <2>2, <2>3 DEF TypeOK
  <2>6. route' \in [Boards -> SUBSET (Endpoints \X Boards)]
    BY <2>1, <2>5 DEF Switch, TypeOK
  <2> QED
    BY <2>4, <2>6
<1> QED
  BY <1>2, <1>3 DEF ApplyRoute

LEMMA PassTypes ==
    ASSUME TypeOK, NEW b \in Boards, Pass(b)
    PROVE  TypeOK'
<1>1. 0 \in 0..(DeadAfter + 1) /\ 0 \in 0..RecoverAfter
  BY Numbers
<1>2. /\ up' \in [Boards -> BOOLEAN] /\ passed' \in [Boards -> BOOLEAN]
  BY Fields DEF Pass
<1>3. seen' \in [Boards -> BOOLEAN]
  BY Fields DEF Pass
<1>4. UplinkOk(b) \in BOOLEAN
  BY DEF UplinkOk, Answers
<1>5. ok' \in [Boards -> BOOLEAN]
  BY <1>4, Fields DEF Pass
<1>6. endpoint' \in [Boards -> Endpoints \cup {None}]
  BY DEF Pass, KnownEndpoint, TypeOK
<1>7. silent' \in [Boards -> 0..(DeadAfter + 1)]
  BY <1>1 DEF Pass, Silence, TypeOK
<1>8. alive' \in [Boards -> 0..RecoverAfter]
  BY <1>1 DEF Pass, TypeOK
<1>9. ApplyRoute(b) /\ UNCHANGED <<env, peers, stops>>
  BY DEF Pass
<1> QED
  BY <1>2, <1>3, <1>5, <1>6, <1>7, <1>8, <1>9, ApplyTypes DEF env, TypeOK

LEMMA SaidRange ==
    ASSUME NEW b \in Boards
    PROVE  Said(b) \in {0, Stale}
BY DEF Said

LEMMA BeaconTypes ==
    ASSUME TypeOK, NEW b \in Boards, NEW c \in Boards, Beacon(b, c)
    PROVE  TypeOK'
<1>1. 0 \in 0..Stale /\ Stale \in 0..Stale /\ 0 \in 0..(Stale + 1)
  BY Numbers
<1>2. peers' \in [Boards -> [Boards -> 0..Stale]]
  BY <1>1, SaidRange DEF Beacon, TypeOK
<1>3. bad' \in [Boards -> 0..(Stale + 1)]
  BY <1>1 DEF Beacon, TypeOK
<1> QED
  BY <1>2, <1>3, Fields DEF Beacon, env, health, TypeOK

LEMMA TickTypes ==
    ASSUME TypeOK, Tick
    PROVE  TypeOK'
<1>1. 0 \in 0..(DeadAfter + 1) /\ 0 \in 0..RecoverAfter /\ 0 \in 0..(Stale + 1)
  BY Numbers
<1>2. silent' \in [Boards -> 0..(DeadAfter + 1)]
  <2>1. \A b \in Boards : Capped(silent[b], DeadAfter + 1) \in 0..(DeadAfter + 1)
    BY Numbers, CappedInRange DEF TypeOK
  <2> QED
    BY <1>1, <2>1 DEF Tick
<1>3. alive' \in [Boards -> 0..RecoverAfter]
  <2>1. \A b \in Boards : Capped(alive[b], RecoverAfter) \in 0..RecoverAfter
    BY Numbers, CappedInRange DEF TypeOK
  <2> QED
    BY <1>1, <2>1 DEF Tick
<1>4. peers' \in [Boards -> [Boards -> 0..Stale]]
  <2>1. \A b, c \in Boards : Older(peers[b][c]) \in 0..Stale
    BY Numbers, CappedInRange DEF TypeOK, Older
  <2> QED
    BY <2>1 DEF Tick
<1>5. bad' \in [Boards -> 0..(Stale + 1)]
  <2>1. \A b \in Boards : Capped(bad[b], Stale + 1) \in 0..(Stale + 1)
    BY Numbers, CappedInRange DEF TypeOK
  <2> QED
    BY <1>1, <2>1 DEF Tick
<1>6. passed' \in [Boards -> BOOLEAN]
  BY DEF Tick
<1> QED
  BY <1>2, <1>3, <1>4, <1>5, <1>6, Fields DEF Tick, env, TypeOK

LEMMA TypeStep ==
    ASSUME TypeOK, [Next]_vars
    PROVE  TypeOK'
<1>1. CASE UNCHANGED vars
  BY <1>1 DEF vars, env, health, TypeOK
<1>2. ASSUME NEW b \in Boards, LinkChanges(b)
      PROVE  TypeOK'
  <2>1. link' \in [Boards -> {"good", "mute", "gone"}] /\ events' \in 0..MaxEvents
    BY <1>2, Numbers DEF LinkChanges, TypeOK
  <2> QED
    BY <1>2, <2>1, Fields DEF LinkChanges, health, TypeOK
<1>3. ASSUME NEW b \in Boards, EndpointChanges(b)
      PROVE  TypeOK'
  <2>1. wg' \in [Boards -> Endpoints \cup {None}] /\ events' \in 0..MaxEvents
    BY <1>3, Numbers DEF EndpointChanges, TypeOK
  <2> QED
    BY <1>3, <2>1, Fields DEF EndpointChanges, health, TypeOK
<1>4. ASSUME NEW b \in Boards, Stop(b) \/ Kill(b) \/ Start(b)
      PROVE  TypeOK'
  <2>1. stops' \in 0..MaxStops
    BY <1>4, Numbers DEF Stop, Kill, Start, TypeOK
  <2> QED
    BY <1>4, <2>1, ForgetTypes DEF Stop, Kill, Start
<1>5. CASE RadioClears
  BY <1>5, Fields DEF RadioClears, health, TypeOK
<1> QED
  BY <1>1, <1>2, <1>3, <1>4, <1>5, PassTypes, BeaconTypes, TickTypes DEF Next, Board

\* Type correctness of the watchdog, in every behaviour of the composed specification.
THEOREM UplinkTypeCorrect == PartsSpec => []TypeOK
<1>1. PartsInit => TypeOK
  BY TypeInit DEF PartsInit
<1>2. TypeOK /\ [PartsNext]_<<vars, agent, part>> => TypeOK'
  BY TypeStep, WatchdogOrNot
<1> QED
  BY <1>1, <1>2, PTL DEF PartsSpec
-----------------------------------------------------------------------------
(* The relay.                                                                *)

\* A relaying watchdog runs, knows an endpoint, and relays through another board.
RelayIsLive ==
    \A b \in Boards : gateway[b] # None =>
        up[b] /\ endpoint[b] # None /\ gateway[b] # b

\* The useless ticks of a gateway are fewer than the ticks its last beacon is old; once
\* that beacon no longer counts, the pass that follows leaves or refuses the gateway.
UselessIsYoung ==
    \A b \in Boards :
        /\ gateway[b] = None => bad[b] = 0
        /\ gateway[b] # None /\ peers[b][gateway[b]] < Stale => bad[b] <= peers[b][gateway[b]]
        /\ passed[b] => bad[b] < Stale

RelayInv == TypeOK /\ RelayIsLive /\ UselessIsYoung /\ RouteMatchesGateway /\ UselessRelayIsShort

LEMMA RelayInit ==
    ASSUME Init
    PROVE  RelayInv
<1>1. \A b \in Boards : /\ gateway[b] = None /\ bad[b] = 0 /\ ~passed[b] /\ route[b] = {}
  BY DEF Init
<1>2. RelayIsLive /\ UselessIsYoung
  BY <1>1 DEF RelayIsLive, UselessIsYoung
<1>3. RouteMatchesGateway /\ UselessRelayIsShort
  BY <1>1, Numbers DEF RouteMatchesGateway, UselessRelayIsShort
<1> QED
  BY <1>2, <1>3, TypeInit DEF RelayInv

\* A process that ends or starts relays through nobody.
LEMMA ForgetKeepsRelays ==
    ASSUME RelayInv, NEW b \in Boards, Forget(b),
           \/ up' = [up EXCEPT ![b] = TRUE] /\ route' = [route EXCEPT ![b] = {}]
           \/ up' = [up EXCEPT ![b] = FALSE]
              /\ (route' = route \/ route' = [route EXCEPT ![b] = {}])
    PROVE  RelayIsLive' /\ UselessIsYoung' /\ RouteMatchesGateway' /\ UselessRelayIsShort'
<1> USE DEF RelayInv
<1>1. \A c \in Boards \ {b} :
        /\ up'[c] = up[c] /\ passed'[c] = passed[c] /\ endpoint'[c] = endpoint[c]
        /\ gateway'[c] = gateway[c] /\ peers'[c] = peers[c] /\ bad'[c] = bad[c]
        /\ route'[c] = route[c]
  BY Fields DEF Forget, TypeOK
<1>2. /\ ~passed'[b] /\ gateway'[b] = None /\ bad'[b] = 0
      /\ route'[b] = {} \/ (~up'[b] /\ route'[b] = route[b])
  <2>1. gateway'[b] = None /\ bad'[b] = 0
    BY DEF Forget, TypeOK
  <2>2. ~passed'[b]
    BY Fields DEF Forget
  <2>3. route'[b] = {} \/ (~up'[b] /\ route'[b] = route[b])
    BY Fields DEF TypeOK
  <2> QED
    BY <2>1, <2>2, <2>3
<1>3. RelayIsLive'
  BY <1>1, <1>2 DEF RelayIsLive
<1>4. UselessIsYoung'
  BY <1>1, <1>2 DEF UselessIsYoung
<1>5. RouteMatchesGateway'
  BY <1>1, <1>2 DEF RouteMatchesGateway
<1>6. UselessRelayIsShort'
  BY <1>1, <1>2, Numbers DEF UselessRelayIsShort
<1> QED
  BY <1>3, <1>4, <1>5, <1>6

\* The board that completes a pass, and the others.
LEMMA PassKeepsRelays ==
    ASSUME RelayInv, NEW b \in Boards, Pass(b)
    PROVE  RelayIsLive' /\ UselessIsYoung' /\ RouteMatchesGateway' /\ UselessRelayIsShort'
<1> USE DEF RelayInv
<1>1. /\ up' = up /\ peers' = peers /\ up[b]
      /\ passed'[b] /\ endpoint'[b] = KnownEndpoint(b)
      /\ endpoint[b] # None => endpoint'[b] # None
      /\ \A c \in Boards \ {b} : passed'[c] = passed[c] /\ endpoint'[c] = endpoint[c]
  BY Fields DEF Pass, env, KnownEndpoint, TypeOK
<1>2. \A c \in Boards \ {b} :
        gateway'[c] = gateway[c] /\ bad'[c] = bad[c] /\ route'[c] = route[c]
  BY DEF Pass, ApplyRoute, Switch, TypeOK
<1>3. ASSUME gateway'[b] = gateway[b], route'[b] = route[b], bad'[b] = 0
      PROVE  RelayIsLive' /\ UselessIsYoung' /\ RouteMatchesGateway' /\ UselessRelayIsShort'
  <2>1. RelayIsLive'
    BY <1>1, <1>2, <1>3 DEF RelayIsLive
  <2>2. UselessIsYoung'
    BY <1>1, <1>2, <1>3, Numbers DEF UselessIsYoung, TypeOK
  <2>3. RouteMatchesGateway'
    BY <1>1, <1>2, <1>3 DEF RouteMatchesGateway
  <2>4. UselessRelayIsShort'
    BY <1>1, <1>2, <1>3, Numbers DEF UselessRelayIsShort
  <2> QED
    BY <2>1, <2>2, <2>3, <2>4
<1>4. CASE KnownEndpoint(b) = None
  <2>1. gateway[b] = None
    BY <1>4 DEF KnownEndpoint, RelayIsLive
  <2> QED
    BY <1>3, <1>4, <2>1 DEF Pass, ApplyRoute, UselessIsYoung, Target
<1>5. CASE bad' = [bad EXCEPT ![b] = 0] /\ UNCHANGED <<gateway, route>>
  BY <1>3, <1>5 DEF TypeOK
<1>6. ASSUME KnownEndpoint(b) # None, NEW g \in Target(b), Switch(b, g)
      PROVE  RelayIsLive' /\ UselessIsYoung' /\ RouteMatchesGateway' /\ UselessRelayIsShort'
  <2>1. gateway'[b] = g /\ g # b /\ (g # None => g \in Boards /\ Candidate(b, g))
    BY <1>6 DEF Switch, Target, TypeOK
  <2>2. RelayIsLive'
    BY <1>1, <1>2, <1>6, <2>1 DEF RelayIsLive
  <2>3. CASE g = gateway[b]
    <3>1. route'[b] = route[b] /\ bad'[b] = bad[b]
      BY <1>6, <2>3 DEF Switch
    <3>2. bad[b] < Stale
      <4>1. CASE g = None
        BY <2>3, <4>1, Numbers DEF UselessIsYoung
      <4>2. CASE g # None
        <5>1. peers[b][g] \in 0..Stale /\ peers[b][g] # Stale
          BY <2>1, <4>2 DEF Candidate, TypeOK
        <5>2. peers[b][g] < Stale
          BY <5>1, Numbers
        <5>4. bad[b] \in Nat
          BY Numbers DEF TypeOK
        <5>3. bad[b] <= peers[b][g]
          BY <2>3, <4>2, <5>2 DEF UselessIsYoung
        <5> QED
          BY <5>1, <5>2, <5>3, <5>4, Numbers
      <4> QED
        BY <4>1, <4>2
    <3>3. UselessIsYoung'
      BY <1>1, <1>2, <2>1, <2>3, <3>1, <3>2 DEF UselessIsYoung
    <3>4. RouteMatchesGateway'
      BY <1>1, <1>2, <2>1, <2>3, <3>1 DEF RouteMatchesGateway
    <3>5. UselessRelayIsShort'
      BY <1>2, <3>1 DEF UselessRelayIsShort
    <3> QED
      BY <2>2, <3>3, <3>4, <3>5
  <2>4. CASE g # gateway[b]
    <3>1. bad'[b] = 0
      BY <1>6, <2>4 DEF Switch, TypeOK
    <3>2. UselessIsYoung'
      BY <1>1, <1>2, <2>1, <3>1, Numbers DEF UselessIsYoung, TypeOK
    <3>3. UselessRelayIsShort'
      BY <1>2, <3>1, Numbers DEF UselessRelayIsShort
    <3>4. /\ g = None => route'[b] = {}
          /\ g # None => route'[b] = {r \in route[b] : r[1] # KnownEndpoint(b)}
                                        \cup {<<KnownEndpoint(b), g>>}
      BY <1>6, <2>4 DEF Switch, TypeOK
    <3>5. IF gateway'[b] = None THEN route'[b] = {} ELSE \E r \in route'[b] : r[2] = gateway'[b]
      <4>1. g # None => <<KnownEndpoint(b), g>> \in route'[b]
        BY <3>4
      <4> QED
        BY <2>1, <3>4, <4>1
    <3>6. \A r, q \in route'[b] : r[1] = q[1] => r = q
      BY <3>4 DEF RouteMatchesGateway
    <3>7. RouteMatchesGateway'
      BY <1>1, <1>2, <3>5, <3>6 DEF RouteMatchesGateway
    <3> QED
      BY <2>2, <3>2, <3>3, <3>7
  <2> QED
    BY <2>3, <2>4
<1> QED
  BY <1>4, <1>5, <1>6 DEF Pass, ApplyRoute

\* A beacon in which the gateway is of use clears the count; any other is too old.
LEMMA BeaconKeepsRelays ==
    ASSUME RelayInv, NEW b \in Boards, NEW c \in Boards, Beacon(b, c)
    PROVE  RelayIsLive' /\ UselessIsYoung' /\ RouteMatchesGateway' /\ UselessRelayIsShort'
<1> USE DEF RelayInv
<1>1. UNCHANGED <<up, passed, endpoint, gateway, route>>
  BY DEF Beacon, health
<1>2. \A d \in Boards : bad'[d] = bad[d] \/ bad'[d] = 0
  BY DEF Beacon, TypeOK
<1>3. ASSUME NEW d \in Boards, gateway[d] # None, peers'[d][gateway[d]] < Stale
      PROVE  bad'[d] <= peers'[d][gateway[d]]
  <2>1. CASE d = c /\ gateway[d] = b
    <3>1. peers'[d][b] = Said(b)
      BY <2>1 DEF Beacon, TypeOK
    <3>2. Said(b) = 0 /\ bad'[d] = 0
      BY <1>3, <2>1, <3>1, SaidRange, Numbers DEF Beacon, TypeOK
    <3> QED
      BY <2>1, <3>1, <3>2
  <2>2. CASE ~(d = c /\ gateway[d] = b)
    <3>1. gateway[d] \in Boards
      BY <1>3 DEF TypeOK
    <3>2. peers'[d][gateway[d]] = peers[d][gateway[d]] /\ bad'[d] = bad[d]
      BY <2>2, <3>1 DEF Beacon, TypeOK
    <3> QED
      BY <1>3, <3>2 DEF UselessIsYoung
  <2> QED
    BY <2>1, <2>2
<1>4. RelayIsLive' /\ RouteMatchesGateway'
  BY <1>1 DEF RelayIsLive, RouteMatchesGateway
<1>5. UselessIsYoung'
  BY <1>1, <1>2, <1>3, Numbers DEF UselessIsYoung
<1>6. UselessRelayIsShort'
  BY <1>2, Numbers DEF UselessRelayIsShort
<1> QED
  BY <1>4, <1>5, <1>6

\* Beacons and useless ticks age together.
LEMMA TickKeepsRelays ==
    ASSUME RelayInv, Tick
    PROVE  RelayIsLive' /\ UselessIsYoung' /\ RouteMatchesGateway' /\ UselessRelayIsShort'
<1> USE DEF RelayInv
<1>1. UNCHANGED <<up, endpoint, gateway, route>>
  BY DEF Tick
<1>2. RelayIsLive' /\ RouteMatchesGateway'
  BY <1>1 DEF RelayIsLive, RouteMatchesGateway
<1>3. ASSUME NEW b \in Boards
      PROVE  /\ gateway[b] = None => bad'[b] = 0
             /\ gateway[b] # None /\ peers'[b][gateway[b]] < Stale
                  => bad'[b] <= peers'[b][gateway[b]]
             /\ ~passed'[b] /\ bad'[b] <= Stale
  <2>1. CASE ~Useless(b)
    <3>1. bad'[b] = 0 /\ ~passed'[b]
      BY <2>1 DEF Tick
    <3>2. gateway[b] # None => peers'[b][gateway[b]] \in 0..Stale
      BY TickTypes DEF TypeOK, Tick
    <3> QED
      BY <3>1, <3>2, Numbers
  <2>2. CASE Useless(b)
    <3>1. up[b] /\ gateway[b] \in Boards /\ gateway[b] # None /\ passed[b]
      BY <2>2 DEF Useless, Tick, TypeOK
    <3>2. bad[b] \in Nat /\ bad[b] < Stale /\ peers[b][gateway[b]] \in 0..Stale
      BY <3>1, Numbers DEF TypeOK, UselessIsYoung
    <3>3. bad'[b] = bad[b] + 1
      BY <2>2, <3>2, Numbers DEF Tick, Capped
    <3>4. peers'[b][gateway[b]] = IF peers[b][gateway[b]] < Stale
                                  THEN peers[b][gateway[b]] + 1 ELSE Stale
      BY <3>1 DEF Tick, Older, Capped
    <3>5. ~passed'[b]
      BY DEF Tick
    <3> QED
      BY <3>1, <3>2, <3>3, <3>4, <3>5, Numbers DEF UselessIsYoung
  <2> QED
    BY <2>1, <2>2
<1>4. UselessIsYoung' /\ UselessRelayIsShort'
  BY <1>1, <1>3 DEF UselessIsYoung, UselessRelayIsShort
<1> QED
  BY <1>2, <1>4

LEMMA RelayStep ==
    ASSUME RelayInv, [Next]_vars
    PROVE  RelayInv'
<1>1. TypeOK'
  BY TypeStep DEF RelayInv
<1>2. ASSUME UNCHANGED <<up, passed, endpoint, gateway, peers, route, bad>>
      PROVE  RelayIsLive' /\ UselessIsYoung' /\ RouteMatchesGateway' /\ UselessRelayIsShort'
  BY <1>2
  DEF RelayInv, RelayIsLive, UselessIsYoung, RouteMatchesGateway, UselessRelayIsShort
<1>3. CASE UNCHANGED vars \/ RadioClears
           \/ \E b \in Boards : LinkChanges(b) \/ EndpointChanges(b)
  BY <1>1, <1>2, <1>3 DEF vars, health, RadioClears, LinkChanges, EndpointChanges, RelayInv
<1>4. ASSUME NEW b \in Boards, Stop(b) \/ Kill(b) \/ Start(b)
      PROVE  RelayInv'
  BY <1>1, <1>4, ForgetKeepsRelays DEF Stop, Kill, Start, RelayInv
<1> QED
  BY <1>1, <1>3, <1>4, PassKeepsRelays, BeaconKeepsRelays, TickKeepsRelays
  DEF Next, Board, RelayInv

\* A board that relays does it through the neighbour it thinks, with one route per
\* endpoint; one that does not has no route; and a neighbour that is of no use is left
\* within Stale seconds of its last good beacon, however the beacons of all boards, their
\* ticks, stops, kills and starts interleave.
THEOREM RelaysStayTrue == PartsSpec => []RelaysAreTrue
<1>1. PartsInit => RelayInv
  BY RelayInit DEF PartsInit
<1>2. RelayInv /\ [PartsNext]_<<vars, agent, part>> => RelayInv'
  BY RelayStep, WatchdogOrNot
<1>3. RelayInv => RelaysAreTrue
  BY DEF RelayInv, RelaysAreTrue
<1> QED
  BY <1>1, <1>2, <1>3, PTL DEF PartsSpec
-----------------------------------------------------------------------------
(* The agent.                                                                *)

LEMMA AgentOrNot ==
    ASSUME [PartsNext]_<<vars, agent, part>>
    PROVE  [Agent!Next]_agent
BY DEF PartsNext, agent

LEMMA AgentNumbers ==
    /\ None \notin Nat /\ 1 \in Agent!Nets /\ Agent!Nets \subseteq Nat
    /\ MaxChanges \in Nat /\ MaxFlips \in Nat /\ MaxCrashes \in Nat
BY AgentBounds DEF Agent!AgentAssumption, Agent!Nets

LEMMA AgentFields ==
    ASSUME Agent!TypeOK
    PROVE  /\ config \in Agent!Configs \cup {None} /\ answer \in Agent!Configs \cup {None}
           /\ json \in Agent!Configs \cup {None}
           /\ key \in Agent!Files /\ envFile \in Agent!Files
           /\ adapter \in BOOLEAN /\ restart \in BOOLEAN /\ recent \in BOOLEAN
           /\ idle30 \in BOOLEAN /\ again \in BOOLEAN /\ owed \in BOOLEAN
BY DEF Agent!TypeOK

LEMMA AgentTypeInit ==
    ASSUME Agent!Init
    PROVE  Agent!TypeOK
<1>1. 0 \in 0..MaxChanges /\ 0 \in 0..MaxFlips /\ 0 \in 0..MaxCrashes
  BY AgentNumbers
<1> QED
  BY <1>1, AgentNumbers DEF Agent!Init, Agent!TypeOK, Agent!Files, Agent!Unread

LEMMA NetIsFile ==
    ASSUME NEW c \in Agent!Configs
    PROVE  c.net \in Agent!Nets /\ c.net \in Agent!Files /\ c.net # None
BY AgentNumbers DEF Agent!Configs, Agent!Files

\* While a configuration is being written, there is one.
Writing == pc \in {"save.key", "save.env", "save.json"} => answer # None

LEMMA SurroundingsTypes ==
    ASSUME Agent!TypeOK,
           \/ Agent!AdminChanges \/ Agent!AdapterFlips
           \/ Agent!AdapterForgotten \/ Agent!RetryDue
    PROVE  Agent!TypeOK'
<1>1. CASE Agent!AdminChanges
  <2>1. want' \in Agent!Configs \cup {None} /\ newest' \in Agent!Nets
    BY <1>1 DEF Agent!AdminChanges
  <2>2. changes' \in 0..MaxChanges
    BY <1>1, AgentNumbers DEF Agent!AdminChanges, Agent!TypeOK
  <2> QED
    BY <1>1, <2>1, <2>2, AgentFields
    DEF Agent!AdminChanges, Agent!usb, Agent!files, Agent!agent, Agent!systemd, Agent!TypeOK
<1>2. CASE Agent!AdapterFlips
  <2>1. flips' \in 0..MaxFlips
    BY <1>2, AgentNumbers DEF Agent!AdapterFlips, Agent!TypeOK
  <2>2. adapter' \in BOOLEAN
    BY <1>2 DEF Agent!AdapterFlips
  <2> QED
    BY <1>2, <2>1, <2>2, AgentFields
    DEF Agent!AdapterFlips, Agent!admin, Agent!files, Agent!agent, Agent!systemd, Agent!TypeOK
<1>3. CASE Agent!AdapterForgotten
  <2>1. recent' \in BOOLEAN
    BY <1>3 DEF Agent!AdapterForgotten
  <2>2. UNCHANGED <<want, newest, changes, adapter, flips, key, envFile, json, pc, config, answer,
                    restart, idle30, unit, again, run, owed, crashes>>
    BY <1>3 DEF Agent!AdapterForgotten, Agent!admin, Agent!usb, Agent!files, Agent!systemd
  <2> QED
    BY <2>1, <2>2, AgentFields DEF Agent!TypeOK
<1>4. CASE Agent!RetryDue
  BY <1>4, AgentFields
  DEF Agent!RetryDue, Agent!admin, Agent!usb, Agent!files, Agent!systemd, Agent!TypeOK
<1> QED
  BY <1>1, <1>2, <1>3, <1>4

LEMMA UnitTypes ==
    ASSUME Agent!TypeOK, Agent!Unit
    PROVE  Agent!TypeOK'
<1> USE DEF Agent!admin, Agent!usb, Agent!files, Agent!agent, Agent!TypeOK, Agent!Files
<1>1. CASE Agent!UnitReadEnv
  BY <1>1, AgentFields DEF Agent!UnitReadEnv
<1>2. CASE Agent!UnitReadKey
  BY <1>2, AgentFields DEF Agent!UnitReadKey
<1>3. CASE Agent!UnitUp
  BY <1>3, AgentFields DEF Agent!UnitUp
<1>4. CASE Agent!UnitFail
  <2>1. flips' \in 0..MaxFlips
    BY <1>4, AgentNumbers DEF Agent!UnitFail
  <2>2. run' = [env |-> None, key |-> None]
    BY <1>4 DEF Agent!UnitFail, Agent!Unread
  <2> QED
    BY <1>4, <2>1, <2>2, AgentFields DEF Agent!UnitFail
<1>5. CASE Agent!UnitStopped
  BY <1>5, AgentFields DEF Agent!UnitStopped, Agent!Unread
<1> QED
  BY <1>1, <1>2, <1>3, <1>4, <1>5 DEF Agent!Unit

LEMMA LoopTypes ==
    ASSUME Agent!TypeOK, Writing, Agent!Loop
    PROVE  Agent!TypeOK'
<1> USE DEF Agent!admin, Agent!usb, Agent!files, Agent!systemd, Agent!TypeOK
<1>1. CASE Agent!Detect
  BY <1>1, AgentFields DEF Agent!Detect
<1>2. CASE Agent!SyncFails
  BY <1>2, AgentFields DEF Agent!SyncFails
<1>3. CASE Agent!SyncAnswered
  BY <1>3, AgentFields DEF Agent!SyncAnswered
<1>4. CASE Agent!SaveKey \/ Agent!SaveEnv
  <2>1. answer.net \in Agent!Files
    BY <1>4, AgentFields, NetIsFile DEF Agent!SaveKey, Agent!SaveEnv, Writing
  <2> QED
    BY <1>4, <2>1, AgentFields DEF Agent!SaveKey, Agent!SaveEnv
<1>5. CASE Agent!SaveJson
  <2>1. restart' \in BOOLEAN
    BY <1>5 DEF Agent!SaveJson, Agent!NeedsRestart
  <2> QED
    BY <1>5, <2>1, AgentFields DEF Agent!SaveJson
<1>6. CASE Agent!UnlinkJson
  BY <1>6, AgentFields DEF Agent!UnlinkJson
<1>7. CASE Agent!UnlinkEnv
  BY <1>7, AgentFields DEF Agent!UnlinkEnv, Agent!Files
<1>8. CASE Agent!UnlinkKey
  BY <1>8, AgentFields DEF Agent!UnlinkKey, Agent!Files
<1>9. CASE Agent!Reconcile
  <2>1. /\ unit' \in {"inactive", "activating", "active", "deactivating"}
        /\ again' \in BOOLEAN /\ idle30' \in BOOLEAN /\ owed' \in BOOLEAN
        /\ run' = run \/ run' = Agent!Unread
    BY <1>9, AgentFields DEF Agent!Reconcile, Agent!StartUnit, Agent!StopUnit
  <2>2. run' \in [env : Agent!Files \cup {Agent!Fallback}, key : Agent!Files \cup {Agent!Fallback}]
    BY <2>1 DEF Agent!Unread, Agent!Files
  <2> QED
    BY <1>9, <2>1, <2>2, AgentFields DEF Agent!Reconcile
<1> QED
  BY <1>1, <1>2, <1>3, <1>4, <1>5, <1>6, <1>7, <1>8, <1>9 DEF Agent!Loop

LEMMA CrashTypes ==
    ASSUME Agent!TypeOK, Agent!Crash
    PROVE  Agent!TypeOK'
<1>1. crashes' \in 0..MaxCrashes
  BY AgentNumbers DEF Agent!Crash, Agent!TypeOK
<1>2. owed' \in BOOLEAN
  BY AgentFields DEF Agent!Crash
<1> QED
  BY <1>1, <1>2, AgentFields
  DEF Agent!Crash, Agent!admin, Agent!usb, Agent!files, Agent!systemd, Agent!TypeOK

LEMMA WritingStep ==
    ASSUME Writing, [Agent!Next]_agent
    PROVE  Writing'
BY DEF Writing, Agent!Next, agent, Agent!admin, Agent!usb, Agent!files, Agent!agent, Agent!systemd,
       Agent!AdminChanges, Agent!AdapterFlips, Agent!AdapterForgotten, Agent!RetryDue,
       Agent!Loop, Agent!Detect, Agent!SyncFails, Agent!SyncAnswered, Agent!SaveKey,
       Agent!SaveEnv, Agent!SaveJson, Agent!UnlinkJson, Agent!UnlinkEnv, Agent!UnlinkKey,
       Agent!Reconcile, Agent!Unit, Agent!UnitReadEnv, Agent!UnitReadKey, Agent!UnitUp,
       Agent!UnitFail, Agent!UnitStopped, Agent!Crash

LEMMA AgentTypeStep ==
    ASSUME Agent!TypeOK, Writing, [Agent!Next]_agent
    PROVE  Agent!TypeOK'
<1>1. CASE UNCHANGED agent
  BY <1>1 DEF agent, Agent!TypeOK
<1> QED
  BY <1>1, SurroundingsTypes, UnitTypes, LoopTypes, CrashTypes DEF Agent!Next

\* Type correctness of the agent.
THEOREM AgentTypeCorrect == PartsSpec => [](Agent!TypeOK /\ Writing)
<1>1. PartsInit => Agent!TypeOK /\ Writing
  BY AgentTypeInit DEF PartsInit, Agent!Init, Writing
<1>2. Agent!TypeOK /\ Writing /\ [PartsNext]_<<vars, agent, part>> => (Agent!TypeOK /\ Writing)'
  BY AgentTypeStep, WritingStep, AgentOrNot
<1> QED
  BY <1>1, <1>2, PTL DEF PartsSpec
-----------------------------------------------------------------------------
(* One network.  RunsOneNetwork speaks of the moments in which the agent     *)
(* sleeps; between them the three files change one by one while the script   *)
(* of the unit reads two of them, so the invariant says which files a pass   *)
(* has written so far, and when what the unit has read may differ from them. *)

Old == IF config = None THEN None ELSE config.net

\* The key is written first, the environment second, the configuration last.
FilesMatch ==
    /\ pc \in {"detect", "sync", "reconcile", "save.key", "unlink.json", "unlink.env"} =>
         key = Old /\ envFile = Old
    /\ pc = "save.env" => key = answer.net /\ envFile = Old
    /\ pc = "save.json" => key = answer.net /\ envFile = answer.net
    /\ pc = "unlink.key" => envFile = None /\ key = Old

Loaded(n) == run.env \in {None, n} /\ run.key \in {None, n}
Running == unit \in {"activating", "active"}
KeyAfterEnv ==
    Running => (run.key # None => run.env # None) /\ (unit = "active" => run.key # None)

\* The files are those of config, and no restart is due.
Quiet == \/ pc \in {"detect", "sync", "save.key"}
         \/ pc = "reconcile" /\ ~restart
         \/ pc \in {"save.env", "save.json"} /\ answer.net = config.net
RunMatches == config # None /\ Running /\ Quiet => Loaded(config.net)

\* A board in no network has no unit up, but for the pass that takes it down.
NoMesh ==
    config = None =>
        \/ unit = "inactive" \/ pc = "reconcile"
        \/ pc = "detect" /\ unit = "deactivating" /\ ~again

StopsInPass == pc # "detect" => unit # "deactivating"

UnitInv == Agent!TypeOK /\ Writing /\ StopsInPass /\ KeyAfterEnv
NetInv == FilesMatch /\ RunMatches /\ NoMesh

LEMMA UnitInvStep ==
    ASSUME StopsInOnePass, UnitInv, [Agent!Next]_agent
    PROVE  UnitInv'
<1>1. Agent!TypeOK' /\ Writing'
  BY AgentTypeStep, WritingStep DEF UnitInv
<1> SUFFICES StopsInPass' /\ KeyAfterEnv'
  BY <1>1 DEF UnitInv
<1>2. ASSUME UNCHANGED <<unit, run>>, pc' = "detect" \/ pc' = pc \/ pc # "detect"
      PROVE  StopsInPass' /\ KeyAfterEnv'
  BY <1>2 DEF UnitInv, StopsInPass, KeyAfterEnv, Running
<1>3. CASE UNCHANGED agent \/ Agent!AdminChanges \/ Agent!AdapterFlips
           \/ Agent!AdapterForgotten \/ Agent!RetryDue \/ Agent!Crash
  BY <1>2, <1>3
  DEF agent, Agent!admin, Agent!usb, Agent!agent, Agent!systemd, Agent!AdminChanges,
      Agent!AdapterFlips, Agent!AdapterForgotten, Agent!RetryDue, Agent!Crash
<1>4. CASE Agent!Detect
  BY <1>4 DEF Agent!Detect, Agent!systemd, UnitInv, StopsInPass, KeyAfterEnv, Running
<1>5. CASE Agent!SyncFails \/ Agent!SyncAnswered \/ Agent!SaveKey \/ Agent!SaveEnv
           \/ Agent!SaveJson \/ Agent!UnlinkJson \/ Agent!UnlinkEnv \/ Agent!UnlinkKey
  BY <1>2, <1>5
  DEF Agent!SyncFails, Agent!SyncAnswered, Agent!SaveKey, Agent!SaveEnv, Agent!SaveJson,
      Agent!UnlinkJson, Agent!UnlinkEnv, Agent!UnlinkKey, Agent!systemd
<1>6. CASE Agent!Reconcile
  <2>1. StopsInPass'
    BY <1>6 DEF Agent!Reconcile, StopsInPass
  <2>2. KeyAfterEnv'
    BY <1>6 DEF Agent!Reconcile, Agent!StartUnit, Agent!StopUnit, Agent!systemd, Agent!Unread,
                UnitInv, KeyAfterEnv, Running
  <2> QED
    BY <2>1, <2>2
<1>7. CASE Agent!Unit
  <2>1. pc' = pc /\ (unit' = "deactivating" => unit = "deactivating")
    BY <1>7 DEF Agent!Unit, Agent!agent, Agent!UnitReadEnv, Agent!UnitReadKey, Agent!UnitUp,
                Agent!UnitFail, Agent!UnitStopped
  <2>2. StopsInPass'
    BY <2>1 DEF UnitInv, StopsInPass
  <2>3. run \in [env : Agent!Files \cup {Agent!Fallback}, key : Agent!Files \cup {Agent!Fallback}]
        /\ Agent!Fallback # None
    BY AgentNumbers DEF UnitInv, Agent!TypeOK, Agent!Fallback
  <2>4. KeyAfterEnv'
    <3>1. CASE Agent!UnitReadEnv
      BY <2>3, <3>1 DEF Agent!UnitReadEnv, Agent!Unread, KeyAfterEnv, Running
    <3>2. CASE Agent!UnitReadKey
      BY <2>3, <3>2 DEF Agent!UnitReadKey, KeyAfterEnv, Running
    <3>3. CASE Agent!UnitUp
      BY <3>3 DEF Agent!UnitUp, UnitInv, KeyAfterEnv, Running
    <3>4. CASE Agent!UnitFail \/ Agent!UnitStopped
      BY <3>4 DEF Agent!UnitFail, Agent!UnitStopped, Agent!Unread, KeyAfterEnv, Running
    <3> QED
      BY <1>7, <3>1, <3>2, <3>3, <3>4 DEF Agent!Unit
  <2> QED
    BY <2>2, <2>4
<1> QED
  BY <1>3, <1>4, <1>5, <1>6, <1>7 DEF Agent!Next, Agent!Loop

\* The files, pass by pass.
LEMMA FilesStep ==
    ASSUME UnitInv, FilesMatch, [Agent!Next]_agent, ~Agent!Crash
    PROVE  FilesMatch'
<1> USE DEF FilesMatch, Old
<1>1. ASSUME UNCHANGED <<pc, key, envFile, config, answer>>
      PROVE  FilesMatch'
  BY <1>1
<1>2. CASE UNCHANGED agent \/ Agent!AdminChanges \/ Agent!AdapterFlips
           \/ Agent!AdapterForgotten \/ Agent!RetryDue \/ Agent!Unit
  BY <1>1, <1>2
  DEF agent, Agent!files, Agent!agent, Agent!AdminChanges, Agent!AdapterFlips,
      Agent!AdapterForgotten, Agent!RetryDue, Agent!Unit, Agent!UnitReadEnv,
      Agent!UnitReadKey, Agent!UnitUp, Agent!UnitFail, Agent!UnitStopped
<1>3. CASE Agent!Detect \/ Agent!SyncFails \/ Agent!SyncAnswered \/ Agent!Reconcile
  BY <1>3 DEF Agent!Detect, Agent!SyncFails, Agent!SyncAnswered, Agent!Reconcile, Agent!files
<1>4. CASE Agent!SaveKey \/ Agent!SaveEnv \/ Agent!UnlinkJson \/ Agent!UnlinkEnv
           \/ Agent!UnlinkKey
  BY <1>4 DEF Agent!SaveKey, Agent!SaveEnv, Agent!UnlinkJson, Agent!UnlinkEnv, Agent!UnlinkKey
<1>5. CASE Agent!SaveJson
  BY <1>5 DEF Agent!SaveJson, UnitInv, Writing
<1> QED
  BY <1>2, <1>3, <1>4, <1>5 DEF Agent!Next, Agent!Loop

LEMMA NoMeshStep ==
    ASSUME UnitInv, NoMesh, [Agent!Next]_agent, ~Agent!Crash, StopsInOnePass
    PROVE  NoMesh'
<1>1. CASE UNCHANGED agent \/ Agent!AdminChanges \/ Agent!AdapterFlips
           \/ Agent!AdapterForgotten \/ Agent!RetryDue
  BY <1>1
  DEF agent, Agent!agent, Agent!systemd, Agent!AdminChanges, Agent!AdapterFlips,
      Agent!AdapterForgotten, Agent!RetryDue, NoMesh
<1>2. CASE Agent!Unit
  BY <1>2
  DEF Agent!agent, Agent!Unit, Agent!UnitReadEnv, Agent!UnitReadKey, Agent!UnitUp,
      Agent!UnitFail, Agent!UnitStopped, NoMesh, UnitInv, StopsInPass
<1>3. CASE Agent!Detect \/ Agent!SyncFails \/ Agent!SyncAnswered
  BY <1>3 DEF Agent!Detect, Agent!SyncFails, Agent!SyncAnswered, Agent!systemd, NoMesh
<1>4. CASE Agent!SaveKey \/ Agent!SaveEnv \/ Agent!UnlinkJson \/ Agent!UnlinkEnv
           \/ Agent!UnlinkKey \/ Agent!SaveJson
  BY <1>4 DEF Agent!SaveKey, Agent!SaveEnv, Agent!UnlinkJson, Agent!UnlinkEnv,
              Agent!UnlinkKey, Agent!SaveJson, Agent!systemd, NoMesh
<1>5. CASE Agent!Reconcile
  <2>1. unit \in {"inactive", "activating", "active"}
    BY <1>5 DEF Agent!Reconcile, UnitInv, StopsInPass, Agent!TypeOK
  <2>2. config = None => ~Agent!WantMesh
    BY DEF Agent!WantMesh
  <2> QED
    BY <1>5, <2>1, <2>2 DEF Agent!Reconcile, Agent!StopUnit, Agent!systemd, NoMesh
<1> QED
  BY <1>1, <1>2, <1>3, <1>4, <1>5 DEF Agent!Next, Agent!Loop

\* What the unit has read, step by step.
LEMMA RunStep ==
    ASSUME UnitInv, NetInv, [Agent!Next]_agent, ~Agent!Crash
    PROVE  RunMatches'
<1> USE DEF RunMatches, Running
<1>1. ASSUME UNCHANGED <<unit, run, config>>, Quiet' => Quiet \/ config = None
      PROVE  RunMatches'
  BY <1>1 DEF NetInv, Loaded
<1>2. ASSUME run' = Agent!Unread
      PROVE  RunMatches'
  BY <1>2 DEF Loaded, Agent!Unread
<1>3. CASE UNCHANGED agent \/ Agent!AdminChanges \/ Agent!AdapterFlips
           \/ Agent!AdapterForgotten \/ Agent!RetryDue
  BY <1>1, <1>3
  DEF agent, Agent!agent, Agent!systemd, Agent!AdminChanges, Agent!AdapterFlips,
      Agent!AdapterForgotten, Agent!RetryDue, Quiet
<1>4. CASE Agent!Detect \/ Agent!SyncFails \/ Agent!SyncAnswered \/ Agent!SaveKey
           \/ Agent!SaveEnv \/ Agent!UnlinkJson \/ Agent!UnlinkEnv
  BY <1>1, <1>4
  DEF Agent!Detect, Agent!SyncFails, Agent!SyncAnswered, Agent!SaveKey, Agent!SaveEnv,
      Agent!UnlinkJson, Agent!UnlinkEnv, Agent!systemd, Quiet
<1>5. CASE Agent!UnlinkKey
  BY <1>5 DEF Agent!UnlinkKey
<1>6. CASE Agent!SaveJson
  <2>1. config = None => ~Running
    BY <1>6 DEF Agent!SaveJson, NetInv, NoMesh, UnitInv
  <2>2. CASE config # None /\ answer.net = config.net
    BY <1>6, <2>2 DEF Agent!SaveJson, Agent!systemd, Quiet, NetInv, Loaded
  <2>3. CASE config # None /\ answer.net # config.net
    BY <1>6, <2>3 DEF Agent!SaveJson, Agent!NeedsRestart, Quiet
  <2> QED
    BY <1>6, <2>1, <2>2, <2>3 DEF Agent!SaveJson, Agent!systemd
<1>7. CASE Agent!Reconcile
  <2>1. unit # "deactivating"
    BY <1>7 DEF Agent!Reconcile, UnitInv, StopsInPass
  <2>2. CASE ~(unit' \in {"activating", "active"}) \/ run' = Agent!Unread
    BY <1>2, <2>2
  <2>3. CASE UNCHANGED <<unit, run>> /\ Agent!WantMesh /\ ~restart
    BY <1>1, <1>7, <2>3 DEF Agent!Reconcile, Quiet
  <2> QED
    BY <1>7, <2>1, <2>2, <2>3
    DEF Agent!Reconcile, Agent!StartUnit, Agent!StopUnit, Agent!systemd
<1>8. CASE Agent!Unit
  <2>1. UNCHANGED <<pc, config, answer, restart, key, envFile>> /\ (Quiet' <=> Quiet)
    BY <1>8 DEF Agent!agent, Agent!files, Agent!Unit, Agent!UnitReadEnv, Agent!UnitReadKey,
                Agent!UnitUp, Agent!UnitFail, Agent!UnitStopped, Quiet
  <2>2. CASE Agent!UnitReadEnv \/ Agent!UnitReadKey
    <3>1. SUFFICES ASSUME config # None, Quiet
                   PROVE  Loaded(config.net)'
      BY <2>1
    <3>2. Loaded(config.net)
      BY <2>2, <3>1 DEF Agent!UnitReadEnv, Agent!UnitReadKey, NetInv
    <3>3. config.net # None
      BY <3>1, NetIsFile, AgentFields DEF UnitInv
    <3>4. envFile = config.net /\ key = config.net
      BY <3>1 DEF Quiet, NetInv, FilesMatch, Old
    <3>5. run \in [env : Agent!Files \cup {Agent!Fallback},
                   key : Agent!Files \cup {Agent!Fallback}]
      BY DEF UnitInv, Agent!TypeOK
    <3> QED
      BY <2>1, <2>2, <3>2, <3>3, <3>4, <3>5
      DEF Agent!UnitReadEnv, Agent!UnitReadKey, Loaded
  <2>3. CASE Agent!UnitUp
    BY <2>1, <2>3 DEF Agent!UnitUp, NetInv, Loaded
  <2>4. CASE Agent!UnitFail \/ Agent!UnitStopped
    BY <1>2, <2>4 DEF Agent!UnitFail, Agent!UnitStopped
  <2> QED
    BY <1>8, <2>2, <2>3, <2>4 DEF Agent!Unit
<1> QED
  BY <1>3, <1>4, <1>5, <1>6, <1>7, <1>8 DEF Agent!Next, Agent!Loop

OneNetInv == UnitInv /\ (crashes = 0 => NetInv)

LEMMA NetStep ==
    ASSUME StopsInOnePass, OneNetInv, [Agent!Next]_agent
    PROVE  OneNetInv'
<1>1. UnitInv'
  BY UnitInvStep DEF OneNetInv
<1>2. ASSUME crashes' = 0
      PROVE  crashes = 0 /\ ~Agent!Crash
  <2>1. crashes \in Nat
    BY AgentNumbers DEF OneNetInv, UnitInv, Agent!TypeOK
  <2>2. ~Agent!Crash
    <3>1. Agent!Crash => crashes' = crashes + 1
      BY DEF Agent!Crash
    <3> QED
      BY <1>2, <2>1, <3>1
  <2>3. crashes' = crashes
    BY <2>2
    DEF Agent!Next, agent, Agent!AdminChanges, Agent!AdapterFlips, Agent!AdapterForgotten,
        Agent!RetryDue, Agent!Loop, Agent!Detect, Agent!SyncFails, Agent!SyncAnswered,
        Agent!SaveKey, Agent!SaveEnv, Agent!SaveJson, Agent!UnlinkJson, Agent!UnlinkEnv,
        Agent!UnlinkKey, Agent!Reconcile, Agent!Unit, Agent!UnitReadEnv, Agent!UnitReadKey,
        Agent!UnitUp, Agent!UnitFail, Agent!UnitStopped
  <2> QED
    BY <1>2, <2>2, <2>3
<1>3. ASSUME crashes' = 0
      PROVE  NetInv'
  <2>1. NetInv /\ UnitInv /\ ~Agent!Crash
    BY <1>2, <1>3 DEF OneNetInv
  <2>2. FilesMatch' /\ RunMatches' /\ NoMesh'
    BY <2>1, FilesStep, RunStep, NoMeshStep DEF NetInv
  <2> QED
    BY <2>2 DEF NetInv
<1> QED
  BY <1>1, <1>3 DEF OneNetInv

LEMMA NetInit ==
    ASSUME Agent!Init
    PROVE  OneNetInv
<1>1. UnitInv
  BY AgentTypeInit
  DEF Agent!Init, UnitInv, Writing, StopsInPass, KeyAfterEnv, Running
<1>2. NetInv
  BY DEF Agent!Init, NetInv, FilesMatch, Old, RunMatches, Running, NoMesh
<1> QED
  BY <1>1, <1>2 DEF OneNetInv

LEMMA NetSafe ==
    ASSUME OneNetInv
    PROVE  RunsOneNetwork
<1>1. SUFFICES ASSUME crashes = 0, pc = "detect", unit = "active", Agent!WantMesh
               PROVE  run = [env |-> config.net, key |-> config.net]
  BY DEF RunsOneNetwork, Agent!RunsOneNetwork
<1>2. Loaded(config.net)
  BY <1>1 DEF OneNetInv, NetInv, RunMatches, Running, Quiet, Agent!WantMesh
<1>3. run.key # None /\ run.env # None
  BY <1>1 DEF OneNetInv, UnitInv, KeyAfterEnv, Running
<1>4. run \in [env : Agent!Files \cup {Agent!Fallback}, key : Agent!Files \cup {Agent!Fallback}]
  BY DEF OneNetInv, UnitInv, Agent!TypeOK
<1> QED
  BY <1>2, <1>3, <1>4 DEF Loaded

\* While an agent that was not killed sleeps, a mesh that is up and wanted runs the
\* network of its configuration: however the files it writes one by one, the script that
\* reads two of them, the adapter and the admin's changes interleave.  The hypothesis is
\* about the surroundings: mesh-down.sh ends within a pass of the agent.
THEOREM OneNetwork ==
    ASSUME StopsInOnePass
    PROVE  PartsSpec => []RunsOneNetwork
<1>1. PartsInit => OneNetInv
  BY NetInit DEF PartsInit
<1>2. OneNetInv /\ [PartsNext]_<<vars, agent, part>> => OneNetInv'
  BY NetStep, AgentOrNot
<1>3. OneNetInv => RunsOneNetwork
  BY NetSafe
<1> QED
  BY <1>1, <1>2, <1>3, PTL DEF PartsSpec
=============================================================================
