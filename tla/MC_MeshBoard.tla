------------------------------ MODULE MC_MeshBoard -----------------------------
(***************************************************************************)
(* The two daemons that keep a board in the mesh: the agent (MeshAgent), for *)
(* one board that is given two networks, and the uplink watchdog             *)
(* (UplinkFailover), for two boards, either of which may be the only one     *)
(* with a live Starlink.  They share no state (the watchdog reads what the   *)
(* kernel says of the interface), and a behaviour follows one ("part").      *)
(***************************************************************************)
EXTENDS UplinkFailover

CONSTANTS b1, b2, a1, e1, LastNet, Names, StopsInOnePass, MaxChanges, MaxFlips, MaxCrashes

TwoBoards == {b1, b2}
OneEndpoint == {e1}
OneName == {a1}

VARIABLES part,
    want, newest, adapter, pc, config, answer, restart, recent, idle30, key, envFile, json,
    unit, again, run, owed, changes, flips, crashes

Agent == INSTANCE MeshAgent WITH env <- envFile

ASSUME AgentBounds == Agent!AgentAssumption

agent == <<want, newest, adapter, pc, config, answer, restart, recent, idle30, key, envFile,
           json, unit, again, run, owed, changes, flips, crashes>>

PartsInit ==
    /\ Init /\ Agent!Init
    /\ \/ part = "agent" /\ \A b \in Boards : link[b] = "good" /\ wg[b] = None
       \/ part = "uplink" /\ adapter

PartsNext ==
    \/ part = "agent" /\ Agent!Next /\ UNCHANGED <<vars, part>>
    \/ part = "uplink" /\ Next /\ UNCHANGED <<agent, part>>

PartsSpec == PartsInit /\ [][PartsNext]_<<vars, agent, part>>

(* A part that does not run keeps its initial state, where its invariants hold; *)
(* what a part must do in the end, it does when it is scheduled fairly.          *)

\* What the watchdog believes to be its gateway is what the kernel has, and a board relays
\* through a neighbour that has lost its own uplink no longer than its last good beacon lives.
RelaysAreTrue == RouteMatchesGateway /\ UselessRelayIsShort

\* A board never runs the mesh_id of one network with the key of another.
RunsOneNetwork == Agent!RunsOneNetwork

\* In the end the board is where the admin wants it, kills of the agent notwithstanding.
AgentConverges == part = "agent" /\ Agent!Fairness => Agent!Converges

\* In the end each board has the route its own and its neighbours' Starlinks call for.
UplinkSettles == part = "uplink" /\ Fairness => Settles
=============================================================================
