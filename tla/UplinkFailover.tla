--------------------------- MODULE UplinkFailover ----------------------------
(***************************************************************************)
(* sirena-uplink on the boards of one mesh: each probes its own Starlink,   *)
(* tells the others in beacons, and while its own is dead sends WireGuard   *)
(* through a neighbour that uses its own.                                   *)
(*                                                                          *)
(* Time is counted in ticks of one second.  The main loop runs every 0.1 s  *)
(* and refreshes its links every second, so between two ticks every running *)
(* board completes at least one pass; beacons are sent every 0.25 s, and    *)
(* any of them may be lost while the radio is lossy.                        *)
(***************************************************************************)
EXTENDS Naturals

CONSTANTS
    Boards,
    Endpoints,     \* addresses the WireGuard server may have
    None,
    DeadAfter,     \* DEAD_AFTER_SEC
    RecoverAfter,  \* RECOVER_AFTER_SEC
    PeerStale,     \* PEER_STALE_SEC
    MaxEvents,     \* bound: changes of links and endpoints
    MaxStops       \* bound: watchdogs stopped or killed

ASSUME FailoverAssumption ==
    /\ None \notin Boards \cup Endpoints
    /\ {DeadAfter, RecoverAfter, PeerStale, MaxEvents, MaxStops} \subseteq Nat

VARIABLES
    link,      \* Starlink of a board: "good", "mute" (no answer), "gone" (no default route)
    wg,        \* what `wg show endpoints` says on a board
    lossy,     \* the radio may lose beacons
    up,        \* the watchdog runs
    passed,    \* the main loop has run since the last tick
    endpoint,  \* self.endpoint
    seen,      \* self.uplink_seen
    ok,        \* self.uplink_ok
    silent,    \* ticks since the last answer (or self.started)
    alive,     \* ticks since self.alive_since (it is read only while ~ok)
    gateway,   \* self.gateway
    peers,     \* self.peers: age of the last beacon; Stale if it is too old to count,
               \* or says that the board does not use its own Starlink
    route,     \* kernel routes with proto 99: set of <<endpoint, neighbour it goes via>>
    bad,       \* history: ticks in a row the gateway has been of no use, since it was last
               \* heard to be of some, and since `ip route replace` last failed
    events, stops

env == <<link, wg, lossy, events>>
health == <<endpoint, seen, ok, silent, alive>>
vars == <<env, up, passed, health, gateway, peers, route, bad, stops>>

Capped(n, cap) == IF n < cap THEN n + 1 ELSE cap
Stale == PeerStale + 1

Init ==
    /\ link \in [Boards -> {"good", "mute", "gone"}]
    /\ wg \in [Boards -> Endpoints \cup {None}]
    /\ lossy = TRUE
    /\ up = [b \in Boards |-> TRUE]
    /\ passed = [b \in Boards |-> FALSE]
    /\ endpoint = [b \in Boards |-> None]
    /\ seen = [b \in Boards |-> FALSE]
    /\ ok = [b \in Boards |-> TRUE]
    /\ silent = [b \in Boards |-> 0]
    /\ alive = [b \in Boards |-> 0]
    /\ gateway = [b \in Boards |-> None]
    /\ peers = [b \in Boards |-> [c \in Boards |-> Stale]]
    /\ route = [b \in Boards |-> {}]
    /\ bad = [b \in Boards |-> 0]
    /\ events = 0 /\ stops = 0

-----------------------------------------------------------------------------
(* The surroundings. *)

LinkChanges(b) ==
    /\ events < MaxEvents
    /\ link' \in {[link EXCEPT ![b] = s] : s \in {"good", "mute", "gone"} \ {link[b]}}
    /\ events' = events + 1
    /\ UNCHANGED <<wg, lossy, up, passed, health, gateway, peers, route, bad, stops>>

EndpointChanges(b) ==
    /\ events < MaxEvents
    /\ wg' \in {[wg EXCEPT ![b] = e] : e \in (Endpoints \cup {None}) \ {wg[b]}}
    /\ events' = events + 1
    /\ UNCHANGED <<link, lossy, up, passed, health, gateway, peers, route, bad, stops>>

RadioClears ==
    /\ lossy
    /\ lossy' = FALSE
    /\ UNCHANGED <<link, wg, events, up, passed, health, gateway, peers, route, bad, stops>>

\* What a process that ends or starts is left with.
Forget(b) ==
    /\ passed' = [passed EXCEPT ![b] = FALSE]
    /\ endpoint' = [endpoint EXCEPT ![b] = None]
    /\ seen' = [seen EXCEPT ![b] = FALSE]
    /\ ok' = [ok EXCEPT ![b] = TRUE]
    /\ silent' = [silent EXCEPT ![b] = 0]
    /\ alive' = [alive EXCEPT ![b] = 0]
    /\ gateway' = [gateway EXCEPT ![b] = None]
    /\ peers' = [peers EXCEPT ![b] = [c \in Boards |-> Stale]]
    /\ bad' = [bad EXCEPT ![b] = 0]

\* SIGTERM, an exception, restart_mesh: the finally clause cleans up.
Stop(b) ==
    /\ up[b] /\ stops < MaxStops
    /\ up' = [up EXCEPT ![b] = FALSE]
    /\ Forget(b)
    /\ route' = [route EXCEPT ![b] = {}]
    /\ stops' = stops + 1
    /\ UNCHANGED env

\* SIGKILL: the route stays in the kernel.
Kill(b) ==
    /\ up[b] /\ stops < MaxStops
    /\ up' = [up EXCEPT ![b] = FALSE]
    /\ Forget(b)
    /\ stops' = stops + 1
    /\ UNCHANGED <<env, route>>

\* Slip: the new process leaves what it finds in the kernel alone.
StartDirty(b) ==
    /\ ~up[b]
    /\ up' = [up EXCEPT ![b] = TRUE]
    /\ Forget(b)
    /\ UNCHANGED <<env, route, stops>>

\* systemd starts it again; __init__ cleans up before anything else.
Start(b) ==
    /\ ~up[b]
    /\ up' = [up EXCEPT ![b] = TRUE]
    /\ Forget(b)
    /\ route' = [route EXCEPT ![b] = {}]
    /\ UNCHANGED <<env, stops>>

-----------------------------------------------------------------------------
(* One pass of the main loop: refresh_links, update_health, apply_route.  The *)
(* beacon thread may read in between; what it then sends (an uplink that is   *)
(* back while the route still leads to a neighbour, or one that is lost)      *)
(* makes as little a gateway as a beacon sent before the pass.                *)

\* Slip: an uplink interface counts as new whenever its Starlink is held dead.
FirstSeenAlways(b) == link[b] # "gone" /\ ~ok[b]

\* The uplink interface shows up for the first time: taken for alive.
FirstSeen(b) == link[b] # "gone" /\ ~seen[b]
Silence(b) == IF FirstSeen(b) THEN 0 ELSE silent[b]
Answers(b) == link[b] # "gone" /\ Silence(b) <= DeadAfter
UplinkOk(b) == Answers(b) /\ (ok[b] \/ FirstSeen(b) \/ alive[b] >= RecoverAfter)

KnownEndpoint(b) == IF wg[b] # None THEN wg[b] ELSE endpoint[b]

\* A live neighbour that uses its own Starlink: no chains.
Candidate(b, c) == peers[b][c] # Stale

\* The signals and the neighbours whose unicast works are the radio's choice,
\* so pick_gateway may return any candidate.
Target(b) ==
    IF UplinkOk(b) THEN {None}
    ELSE LET found == {c \in Boards \ {b} : Candidate(b, c)}
         IN IF found = {} THEN {None} ELSE found

\* `ip route replace` for the endpoint of now, or `ip route flush proto 99`.
Switch(b, g) ==
    /\ gateway' = [gateway EXCEPT ![b] = g]
    /\ route' = IF g = gateway[b] THEN route
                ELSE IF g = None THEN [route EXCEPT ![b] = {}]
                ELSE [route EXCEPT ![b] = {r \in @ : r[1] # KnownEndpoint(b)}
                                              \cup {<<KnownEndpoint(b), g>>}]
    /\ bad' = IF g = gateway[b] THEN bad ELSE [bad EXCEPT ![b] = 0]

ApplyRoute(b) ==
    \/ /\ KnownEndpoint(b) = None
       /\ UNCHANGED <<gateway, route, bad>>
    \/ /\ KnownEndpoint(b) # None
       /\ \E g \in Target(b) : Switch(b, g)
    \/ /\ lossy /\ KnownEndpoint(b) # None      \* `ip route replace` fails
       /\ \E g \in Target(b) : g \notin {None, gateway[b]}
       /\ bad' = [bad EXCEPT ![b] = 0]
       /\ UNCHANGED <<gateway, route>>

Pass(b) ==
    /\ up[b]
    /\ passed' = [passed EXCEPT ![b] = TRUE]
    /\ endpoint' = [endpoint EXCEPT ![b] = KnownEndpoint(b)]
    /\ seen' = [seen EXCEPT ![b] = @ \/ link[b] # "gone"]
    /\ silent' = [silent EXCEPT ![b] = Silence(b)]
    /\ alive' = [alive EXCEPT ![b] = IF Answers(b) /\ ~UplinkOk(b) THEN @ ELSE 0]
    /\ ok' = [ok EXCEPT ![b] = UplinkOk(b)]
    /\ ApplyRoute(b)
    /\ UNCHANGED <<env, up, peers, stops>>

\* What a beacon of b makes of it: "uplink" and no "via".
Said(b) == IF ok[b] /\ gateway[b] = None THEN 0 ELSE Stale

\* Board c hears a beacon of b.
Beacon(b, c) ==
    /\ up[b] /\ up[c] /\ b # c
    /\ peers' = [peers EXCEPT ![c][b] = Said(b)]
    /\ bad' = IF gateway[c] = b /\ Said(b) = 0 THEN [bad EXCEPT ![c] = 0] ELSE bad
    /\ UNCHANGED <<env, up, passed, health, gateway, route, stops>>

-----------------------------------------------------------------------------
\* The neighbour b relays through is down, or knows that its Starlink is.
Useless(b) == up[b] /\ gateway[b] # None /\ LET g == gateway[b] IN ~up[g] \/ Said(g) = Stale

\* Slip: beacons do not age.
OlderNever(age) == age

Older(age) == Capped(age, Stale)

\* A second passes once every running board has completed a pass and, on a
\* clear radio, has heard the latest of every other.
Tick ==
    /\ \A b \in Boards : up[b] => passed[b]
    /\ ~lossy => \A b, c \in Boards : up[b] /\ up[c] /\ b # c => peers[c][b] = Said(b)
    /\ passed' = [b \in Boards |-> FALSE]
    /\ silent' = [b \in Boards |->
                    IF ~up[b] \/ link[b] = "good" THEN 0 ELSE Capped(silent[b], DeadAfter + 1)]
    /\ alive' = [b \in Boards |-> IF ok[b] THEN 0 ELSE Capped(alive[b], RecoverAfter)]
    /\ peers' = [b \in Boards |-> [c \in Boards |-> Older(peers[b][c])]]
    /\ bad' = [b \in Boards |-> IF Useless(b) THEN Capped(bad[b], Stale + 1) ELSE 0]
    /\ UNCHANGED <<env, up, endpoint, seen, ok, gateway, route, stops>>

Board(b) ==
    \/ LinkChanges(b) \/ EndpointChanges(b) \/ Stop(b) \/ Kill(b) \/ Start(b)
    \/ Pass(b)

Next == \/ \E b \in Boards : Board(b)
        \/ \E b, c \in Boards : Beacon(b, c)
        \/ RadioClears \/ Tick

\* The loops and the clock run, systemd restarts, the radio clears up for good
\* and then every beacon arrives.
Fairness ==
    /\ WF_vars(Tick) /\ WF_vars(RadioClears)
    /\ \A b \in Boards : WF_vars(Start(b)) /\ WF_vars(Pass(b))
    /\ \A b, c \in Boards : WF_vars(Beacon(b, c))

Spec == Init /\ [][Next]_vars /\ Fairness

-----------------------------------------------------------------------------
(* Properties. *)

TypeOK ==
    /\ link \in [Boards -> {"good", "mute", "gone"}]
    /\ wg \in [Boards -> Endpoints \cup {None}]
    /\ endpoint \in [Boards -> Endpoints \cup {None}]
    /\ {up, passed, seen, ok} \subseteq [Boards -> BOOLEAN]
    /\ silent \in [Boards -> 0..(DeadAfter + 1)]
    /\ alive \in [Boards -> 0..RecoverAfter]
    /\ gateway \in [Boards -> Boards \cup {None}]
    /\ peers \in [Boards -> [Boards -> 0..Stale]]
    /\ route \in [Boards -> SUBSET (Endpoints \X Boards)]
    /\ bad \in [Boards -> 0..(Stale + 1)]
    /\ lossy \in BOOLEAN /\ events \in 0..MaxEvents /\ stops \in 0..MaxStops

\* The kernel relays exactly when the watchdog thinks it does, and through the
\* neighbour it thinks, also after the process was killed and started again.
\* (An endpoint that changed while relaying leaves the route to the old one.)
RouteMatchesGateway ==
    \A b \in Boards :
        /\ up[b] => IF gateway[b] = None THEN route[b] = {}
                    ELSE \E r \in route[b] : r[2] = gateway[b]
        /\ \A r, q \in route[b] : r[1] = q[1] => r = q

\* Two boards may relay through each other, and a board may relay through one
\* that relays itself, has lost its Starlink or is gone, only as long as its
\* last good beacon lasts, or the kernel refuses the route through another.
UselessRelayIsShort == \A b \in Boards : bad[b] <= Stale

\* Where the boards end once links, processes and radio are at rest: a board
\* with a good Starlink uses it, one without uses a neighbour that does, and
\* goes silent only if there is none.
Direct(b) == up[b] /\ link[b] = "good"
Settled ==
    \A b \in Boards :
        /\ up[b]
        /\ Direct(b) => route[b] = {}
        /\ ~Direct(b) /\ endpoint[b] # None =>
             IF \E c \in Boards \ {b} : Direct(c)
             THEN \E r \in route[b] : Direct(r[2])
             ELSE route[b] = {}
Settles == <>[]Settled

\* (Refuted by TLC.) A relaying board's route leads to the WireGuard server.
RelaysToEndpoint ==
    <>[](\A b \in Boards : up[b] /\ gateway[b] # None /\ wg[b] # None =>
            <<wg[b], gateway[b]>> \in route[b])
=============================================================================
