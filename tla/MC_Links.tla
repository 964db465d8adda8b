-------------------------------- MODULE MC_Links -------------------------------
(***************************************************************************)
(* What a board learns from its links: the position from the dish and the    *)
(* other receivers (GpsHub; seconds scaled down, a block outlasts a          *)
(* forecast, a retry outlasts a poll), the state of the line its video takes *)
(* (AdaptiveBitrate; a satellite's and a cable's), and the fire device's     *)
(* status from its serial line (FireDevice).  A behaviour follows one of     *)
(* them ("part").                                                            *)
(***************************************************************************)
EXTENDS GpsHub

CONSTANTS
    Statuses, Bits, None, MaxLine, MaxChanges, MaxLost, MaxDamaged, MaxRestarts,
    Target, Floor, BaseWindow, Capacities, Cycle, GapAt, Step, MaxBursts, Kinds

SomeStatuses == {<<0, 3>>, <<6, 12>>, <<135, 3>>, <<6, 0>>}
TwoLines == {[rtt |-> 40, buffer |-> 300, gaps |-> TRUE],
             [rtt |-> 3, buffer |-> 20, gaps |-> FALSE]}

VARIABLES part,
    full, status, frame, line, payload, shown, been, changes, lost, damaged, restarts,
    kbps, rtts, loss, queue, overuse, lossOnly, high, pause, cut, last, link, backlog,
    capacity, phase, steady, linkChanges, bursts

Fire == INSTANCE FireDevice
Bitrate == INSTANCE AdaptiveBitrate
    WITH Lines <- Kinds, MaxChanges <- 2, line <- link, hold <- pause, calm <- steady,
         changes <- linkChanges

ASSUME GpsBounds == GpsHubAssumption
ASSUME FireBounds == Fire!FireDeviceAssumption
ASSUME BitrateBounds == Bitrate!AdaptiveBitrateAssumption
ASSUME FramesTell == \A s \in Fire!Documented : Fire!Tells(s[1], s[2])

fire == <<full, status, frame, line, payload, shown, been, changes, lost, damaged, restarts>>
bitrate == <<kbps, rtts, loss, queue, overuse, lossOnly, high, pause, cut, last, link,
             backlog, capacity, phase, steady, linkChanges, bursts>>

PartsInit ==
    /\ Init /\ Fire!Init /\ Bitrate!Init
    /\ part \in {"gps", "bitrate", "fire"}
    /\ part # "bitrate" => link.gaps /\ \A c \in Capacities : c <= capacity
    /\ part # "fire" => full /\ status = <<6, 0>>

PartsNext ==
    \/ part = "gps" /\ Next /\ UNCHANGED <<fire, bitrate, part>>
    \/ part = "bitrate" /\ Bitrate!Next /\ UNCHANGED <<vars, fire, part>>
    \/ part = "fire" /\ Fire!Next /\ UNCHANGED <<vars, bitrate, part>>

PartsSpec == PartsInit /\ [][PartsNext]_<<vars, fire, bitrate, part>>

(* A part that does not run keeps its initial state, where its invariants hold; *)
(* what a part must do in the end, it does when it is scheduled fairly.          *)

\* No status is shown that the device never had, for all that one byte is lost.
LossShowsNoFalseState == Fire!LossShowsNoFalseState

\* Once the link rests, the bitrate comes to most of what it carries and stays there, and no
\* more than 200 ms of video wait in its buffer.
BitrateFits == Bitrate!FollowsLink /\ Bitrate!ShortQueue

\* A dish that answers with steady positions is the source again.
GpsReturnsToStarlink == part = "gps" /\ Fairness => ReturnsToStarlink

\* The daemon ends showing the device's status, wherever in a frame it was left.
FireResyncs == part = "fire" /\ Fire!Fairness => Fire!Resyncs
=============================================================================
