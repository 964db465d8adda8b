------------------------------- MODULE MC_Cameras ------------------------------
(***************************************************************************)
(* The cameras of a board: its video's settings and processes (VideoBoard)   *)
(* for a thermal camera with one mode and a grabber with two others, clicks  *)
(* on a target (TrackTap), and the lower camera (LowerCam) under two tabs,   *)
(* with a ceiling of two ticks, so that a crash may fall before, at and      *)
(* after the half of a session.  A behaviour follows one of them ("part").   *)
(***************************************************************************)
EXTENDS VideoBoard, TLC

CONSTANTS thermal, grabber, yuyv, mjpg, small, large,
    p1, p2, MaxSearching, MaxOnTheWay, MaxClicks, MaxChanges,
    t1, t2, Tabs, Ceiling, Idle, LowerRequests

TwoCameras == {thermal, grabber}
TheirModes == (thermal :> {<<yuyv, small>>}) @@ (grabber :> {<<mjpg, large>>, <<yuyv, large>>})
TheirBest == (thermal :> <<yuyv, small>>) @@ (grabber :> <<mjpg, large>>)
TwoTabs == {t1, t2}

VARIABLES part,
    tapActive, enabled, control, file, click, tap, object, onTheWay, shown, answered,
    overlap, clicks, changes,
    st, again, marker, missing, left, watched, dog, copied, viewers, tab, span, leaked,
    lowerRequests, lowerFaults

Tap == INSTANCE TrackTap WITH Pages <- {p1, p2}, active <- tapActive
Lower == INSTANCE LowerCam
    WITH MaxRequests <- LowerRequests, requests <- lowerRequests, faults <- lowerFaults

ASSUME LowerBounds == Lower!LowerCamAssumption
ASSUME TapBounds == Tap!TrackTapAssumption

track == <<tapActive, enabled, control, file, click, tap, object, onTheWay, shown,
           answered, overlap, clicks, changes>>
lower == <<st, again, marker, missing, left, watched, dog, copied, viewers, tab, span,
           leaked, lowerRequests, lowerFaults>>

PartsInit ==
    /\ Init /\ Tap!Init /\ Lower!Init
    /\ part \in {"settings", "track", "lower"}
    /\ part # "settings" => env.dev = thermal

PartsNext ==
    \/ part = "settings" /\ Next /\ UNCHANGED <<track, lower, part>>
    \/ part = "track" /\ Tap!Next /\ UNCHANGED <<vars, lower, part>>
    \/ part = "lower" /\ Lower!Next /\ UNCHANGED <<vars, track, part>>

PartsSpec == PartsInit /\ [][PartsNext]_<<vars, track, lower, part>>

(* A part that does not run keeps its initial state, where its invariants hold; *)
(* what a part must do in the end, it does when it is scheduled fairly.          *)

\* A press of REC never records beyond the ceiling.
CeilingHolds == Lower!CeilingHolds

\* The units, the marker and the handlers implement the camera of OneCamera.
ImplementsCamera == Lower!ImplementsCamera

\* A preview nobody looks at is stopped in the end.
UnseenPreviewStops == part = "lower" /\ Lower!Fairness => Lower!UnseenPreviewStops

\* A board with a camera and an approval streams in the end.
SettingsStream == part = "settings" /\ Fairness => Streams

\* The page ends showing the tracker upon the click answered last.
TapFollowsLastClick == part = "track" /\ Tap!Fairness => Tap!FollowsLastClick
=============================================================================
