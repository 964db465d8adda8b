------------------------------ MODULE VideoPlayer ------------------------------
(***************************************************************************)
(* The video player of the pilot's pages (_video_player.html): the WebRTC    *)
(* connection with its reconnections, the change between the main cameras    *)
(* and the lower one, and the state of the lower camera's recording.         *)
(*                                                                          *)
(* JavaScript runs one piece at a time, so an action is what runs up to the  *)
(* next await; connectStream may be under way more than once, and each call  *)
(* works on the global pc. A request is served in the step of its answer.    *)
(***************************************************************************)
EXTENDS Naturals, FiniteSets

CONSTANTS
    Calls,      \* bound: calls of connectStream under way at once, each with its connection
    None,
    StaleTicks, \* looks without a new frame before the player reconnects
    MaxClicks,  \* bound: clicks of the user
    MaxFaults   \* bound: sources that stop, connections lost, failed requests, other users

VARIABLES
    viewing,    \* viewingLowercam
    known,      \* lowercamRecordActive
    busy,       \* lowercamBusy
    pc, at, cam, \* the global connection; where each call is, and the camera it asked for
    peer,       \* the connection each call has made
    shown,      \* the call whose stream is the video's srcObject
    failed,     \* history: the player has told that a switch or a preview failed
    reconnect, grace, stats, \* the timers of those names are set
    stale,      \* staleFrameTicks
    later,      \* setTimeout(connectStream) not yet due
    enter,      \* calls of enterLowercam in their two awaits
    leaving,    \* calls of leaveLowercam that wait for the list of cameras
    switch,     \* switchCamera: its await
    toggle,     \* toggleLowercamRecord: its request
    status,     \* the answer to a status request on its way
    recording, preview, main, \* of the board: the lower camera's units, the main stream
    stops,      \* preview/stop requests nobody waits for
    clicks, faults

call == <<pc, at, cam, peer, shown, failed, reconnect, grace, stats, stale>>
page == <<viewing, known, busy, later, enter, leaving, switch, toggle, status>>
board == <<recording, preview, main, stops>>
vars == <<call, page, board, clicks, faults>>

Cameras == {"main", "lower"}

TypeOK ==
    /\ viewing \in Cameras /\ known \in BOOLEAN /\ busy \in BOOLEAN
    /\ pc \in Calls \cup {None} /\ shown \in Calls \cup {None}
    /\ at \in [Calls -> {"idle", "info", "offer", "ice", "whep"}] /\ cam \in [Calls -> Cameras]
    /\ peer \in [Calls -> {"closed", "new", "offered", "live", "frozen", "lost"}]
    /\ {failed, reconnect, grace, stats} \subseteq BOOLEAN /\ stale \in 0..StaleTicks
    /\ {later, leaving, stops} \subseteq Nat
    /\ enter \in [{"cameras", "start"} -> Nat]
    /\ switch \in {"no", "cameras", "switch", "again"} /\ toggle \in {"no", "start", "stop"}
    /\ status \in BOOLEAN \cup {None}
    /\ {recording, preview, main} \subseteq BOOLEAN
    /\ clicks \in 0..MaxClicks /\ faults \in 0..MaxFaults

\* Calls are interchangeable: a new one takes the same free place always.
Any(calls) == CHOOSE c \in calls : TRUE

\* The page has loaded and calls connectStream.
Init ==
    /\ viewing = "main" /\ known = FALSE /\ busy = FALSE
    /\ pc = None /\ shown = None /\ failed = FALSE
    /\ at = [c \in Calls |-> IF c = Any(Calls) THEN "info" ELSE "idle"]
    /\ cam = [c \in Calls |-> "main"] /\ peer = [c \in Calls |-> "closed"]
    /\ reconnect = FALSE /\ grace = FALSE /\ stats = FALSE /\ stale = 0
    /\ later = 0 /\ enter = [s \in {"cameras", "start"} |-> 0] /\ leaving = 0
    /\ switch = "no" /\ toggle = "no" /\ status = None
    /\ recording = FALSE /\ preview = FALSE /\ main = TRUE /\ stops = 0
    /\ clicks = 0 /\ faults = 0

Click == clicks < MaxClicks /\ clicks' = clicks + 1
Fault == faults < MaxFaults /\ faults' = faults + 1

\* A camera is published: the main one by the relay, the lower one by its preview.
Up(c) == IF c = "main" THEN main ELSE preview /\ ~recording

-----------------------------------------------------------------------------
(* The connection. *)

\* An await on a connection that is closed meanwhile never ends.
Rest == [c \in Calls |-> IF c = pc /\ at[c] \in {"offer", "ice"} THEN "idle" ELSE at[c]]

\* stopPeer, but for its effect on the calls and on the reconnect timer.
Close ==
    /\ pc' = None /\ shown' = None
    /\ peer' = [c \in Calls |-> IF c = pc THEN "closed" ELSE peer[c]]
    /\ grace' = FALSE /\ stats' = FALSE /\ stale' = 0

StopPeer == Close /\ at' = Rest /\ reconnect' = FALSE /\ UNCHANGED cam

\* loadStreamInfo asks for the stream of the camera that is chosen when it is called.
Asks(c) == cam' = [cam EXCEPT ![c] = viewing]

\* connectStream up to its first await; while the lower camera records it shows why not.
ConnectStream ==
    /\ Close /\ reconnect' = FALSE /\ failed' = FALSE
    /\ IF viewing = "lower" /\ known
         THEN at' = Rest /\ UNCHANGED cam
         ELSE LET free == {c \in Calls : Rest[c] = "idle"} IN
                /\ free # {}
                /\ at' = [Rest EXCEPT ![Any(free)] = "info"]
                /\ Asks(Any(free))

\* Its catch: stopPeer closes the global connection, whoever made it.
Catch(c) ==
    /\ Close /\ at' = [Rest EXCEPT ![c] = "idle"]
    /\ reconnect' = TRUE /\ UNCHANGED <<cam, failed>>

Goes(c, step) == at' = [at EXCEPT ![c] = step]
Peer(c, state) == peer' = [peer EXCEPT ![c] = state]

\* loadStreamInfo has answered: the new connection takes the place of another's unclosed.
GotInfo(c) ==
    /\ at[c] = "info"
    /\ \/ /\ pc' = c /\ Peer(c, "new") /\ Goes(c, "offer")
          /\ UNCHANGED <<cam, shown, failed, reconnect, grace, stats, stale, faults>>
       \/ Catch(c) /\ Fault
    /\ UNCHANGED <<page, board, clicks>>

\* The offer of one connection cannot be set on another.
GotOffer(c) ==
    /\ at[c] = "offer"
    /\ IF pc = c
         THEN /\ Peer(c, "offered") /\ Goes(c, "ice")
              /\ UNCHANGED <<pc, cam, shown, failed, reconnect, grace, stats, stale>>
         ELSE Catch(c)
    /\ UNCHANGED <<page, board, clicks, faults>>

\* waitIceGatheringComplete, then the description of whatever pc is now.
Gathered(c) ==
    /\ at[c] = "ice"
    /\ IF pc # None /\ peer[pc] # "new"
         THEN Goes(c, "whep")
              /\ UNCHANGED <<pc, cam, peer, shown, failed, reconnect, grace, stats, stale>>
         ELSE Catch(c)
    /\ UNCHANGED <<page, board, clicks, faults>>

\* ontrack, of whichever connection.
Show(c) == shown' = c

\* MediaMTX answers; ontrack shows the stream, and the statistics start.
GotAnswer(c) ==
    /\ at[c] = "whep"
    /\ IF Up(cam[c]) /\ pc # None /\ peer[pc] = "offered"
         THEN /\ Peer(pc, "live") /\ Goes(c, "idle")
              /\ Show(pc) /\ stats' = TRUE
              /\ UNCHANGED <<pc, cam, failed, reconnect, grace, stale>>
         ELSE Catch(c)
    /\ UNCHANGED <<page, board, clicks, faults>>

\* A second after it was set, whatever calls are under way: the catch of a call in the middle
\* of which it is due will close the new call's connection.
ReconnectDue ==
    /\ reconnect /\ ConnectStream
    /\ UNCHANGED <<page, board, clicks, faults>>

LaterDue ==
    /\ later > 0 /\ later' = later - 1 /\ ConnectStream
    /\ UNCHANGED <<viewing, known, busy, enter, leaving, switch, toggle, status,
                   board, clicks, faults>>

\* The transport is gone; only the present connection's events count, after 4 s of grace.
Lose(c) ==
    /\ peer[c] \in {"live", "frozen"} /\ Fault
    /\ Peer(c, "lost") /\ grace' = (grace \/ pc = c)
    /\ UNCHANGED <<pc, at, cam, shown, failed, reconnect, stats, stale, page, board, clicks>>

\* It comes back by itself, or it fails.
Back(c) ==
    /\ peer[c] = "lost" /\ Peer(c, IF Up(cam[c]) THEN "live" ELSE "frozen")
    /\ grace' = (grace /\ pc # c)
    /\ UNCHANGED <<pc, at, cam, shown, failed, reconnect, stats, stale,
                   page, board, clicks, faults>>

GraceEnds ==
    /\ grace /\ grace' = FALSE
    /\ IF pc # None /\ peer[pc] = "lost" THEN reconnect' = TRUE
                                         ELSE UNCHANGED reconnect
    /\ UNCHANGED <<pc, at, cam, peer, shown, failed, stats, stale, page, board, clicks, faults>>

\* Slip: a connection that is still connected needs no look at its frames.
SlipUpdateStats ==
    /\ stats /\ pc # None /\ stale' = 0
    /\ UNCHANGED <<pc, at, cam, peer, shown, failed, reconnect, grace, stats,
                   page, board, clicks, faults>>

\* A connection may stay connected and bring no frames, when its source was restarted.
UpdateStats ==
    /\ stats /\ pc # None
    /\ IF peer[pc] # "frozen"
         THEN stale' = 0 /\ UNCHANGED reconnect
         ELSE IF stale + 1 < StaleTicks
         THEN stale' = stale + 1 /\ UNCHANGED reconnect
         ELSE stale' = 0 /\ reconnect' = TRUE
    /\ UNCHANGED <<pc, at, cam, peer, shown, failed, grace, stats, page, board, clicks, faults>>

-----------------------------------------------------------------------------
(* The lower camera. *)

Entering(s, n) == enter' = [enter EXCEPT ![s] = @ + n]

\* enterLowercam up to the list of cameras.
EnterLowercam ==
    /\ viewing' = "lower" /\ StopPeer /\ Entering("cameras", 1)
    /\ UNCHANGED failed

Enter == IF busy THEN UNCHANGED <<call, viewing, enter>> ELSE EnterLowercam

EnterCameras ==
    /\ enter["cameras"] > 0
    /\ IF known
         THEN Entering("cameras", 0 - 1) /\ UNCHANGED busy
         ELSE /\ busy' = TRUE
              /\ enter' = [enter EXCEPT !["cameras"] = @ - 1, !["start"] = @ + 1]
    /\ UNCHANGED <<call, viewing, known, later, leaving, switch, toggle, status, board,
                   clicks, faults>>

\* preview/start is answered: the preview runs, or the camera records, or it failed.
EnterStarted ==
    /\ enter["start"] > 0 /\ Entering("start", 0 - 1) /\ busy' = FALSE
    /\ \/ recording /\ known' = TRUE /\ UNCHANGED <<call, preview, faults>>
       \/ ~recording /\ preview' = TRUE /\ ConnectStream /\ UNCHANGED <<known, faults>>
       \/ Fault /\ failed' = TRUE
          /\ UNCHANGED <<pc, at, cam, peer, shown, reconnect, grace, stats, stale,
                         known, preview>>
    /\ UNCHANGED <<viewing, later, leaving, switch, toggle, status, recording, main,
                   stops, clicks>>

\* What applyLowercamRecordState does with the state it is given.
Apply(active) ==
    /\ known' = active
    /\ IF active = known \/ viewing # "lower"
         THEN UNCHANGED <<call, viewing, enter>>
         ELSE IF active
         THEN StopPeer /\ UNCHANGED <<failed, viewing, enter>>
         ELSE EnterLowercam

Freeze(c) == peer' = [d \in Calls |-> IF peer[d] = "live" /\ cam[d] = c THEN "frozen" ELSE peer[d]]

\* toggleLowercamRecord up to its request, and the answer.
ToggleRecord ==
    /\ ~busy /\ Click
    /\ busy' = TRUE /\ toggle' = (IF known THEN "stop" ELSE "start")
    /\ UNCHANGED <<call, viewing, known, later, enter, leaving, switch, status, board, faults>>

\* record/start stops the preview, whose viewers keep a connection without frames: the
\* recorder serves in the step before, so that the page may hear of it late.
ServeToggle ==
    /\ toggle # "no" /\ recording # (toggle = "start")
    /\ recording' = (toggle = "start")
    /\ preview' = (preview /\ toggle = "stop")
    /\ IF toggle = "start" THEN Freeze("lower") ELSE UNCHANGED peer
    /\ UNCHANGED <<pc, at, cam, shown, failed, reconnect, grace, stats, stale, page, main,
                   stops, clicks, faults>>

Toggled ==
    /\ toggle # "no" /\ toggle' = "no"
    /\ \/ /\ recording = (toggle = "start") /\ busy' = FALSE
          /\ Apply(toggle = "start") /\ UNCHANGED faults
       \/ Fault /\ busy' = FALSE /\ UNCHANGED <<call, viewing, known, enter>>
    /\ UNCHANGED <<later, leaving, switch, status, board, clicks>>

\* syncLowercamState: its answer may be older than what the page knows by now.  It is
\* asked for when it would tell something new, or while the page changes what it knows.
AskStatus ==
    /\ status = None /\ (recording # known \/ toggle # "no" \/ enter["start"] > 0)
    /\ status' = recording
    /\ UNCHANGED <<call, viewing, known, busy, later, enter, leaving, switch, toggle,
                   board, clicks, faults>>

GotStatus ==
    /\ status # None /\ status' = None
    /\ IF busy THEN UNCHANGED <<call, viewing, known, enter>> ELSE Apply(status)
    /\ UNCHANGED <<busy, later, leaving, switch, toggle, board, clicks, faults>>

-----------------------------------------------------------------------------
(* Clicks: the reconnect button, the cameras, the settings, the tracker. *)

ClickReconnect ==
    /\ Click
    /\ IF viewing = "lower" THEN Enter ELSE ConnectStream /\ UNCHANGED <<viewing, enter>>
    /\ UNCHANGED <<known, busy, later, leaving, switch, toggle, status, board, faults>>

ClickLower ==
    /\ viewing = "main" /\ Click /\ Enter
    /\ UNCHANGED <<known, busy, later, leaving, switch, toggle, status, board, faults>>

\* leaveLowercam to the camera that streams already; preview/stop is not waited for.
ClickActiveMain ==
    /\ viewing = "lower" /\ Click
    /\ viewing' = "main" /\ StopPeer /\ leaving' = leaving + 1 /\ stops' = stops + 1
    /\ UNCHANGED <<failed, known, busy, later, enter, switch, toggle, status,
                   recording, preview, main, faults>>

LeftToMain ==
    /\ leaving > 0 /\ leaving' = leaving - 1 /\ ConnectStream
    /\ UNCHANGED <<viewing, known, busy, later, enter, switch, toggle, status,
                   board, clicks, faults>>

\* switchCamera, from a main camera or from the lower one: refused while one is under way.
ClickCamera ==
    /\ Click /\ viewing' = "main" /\ StopPeer
    /\ stops' = (IF viewing = "lower" THEN stops + 1 ELSE stops)
    /\ IF switch = "no" THEN switch' = "cameras" ELSE viewing = "lower" /\ UNCHANGED switch
    /\ UNCHANGED <<failed, known, busy, later, enter, leaving, toggle, status, recording, preview,
                   main, faults>>

\* Both the realtime command and the call over HTTP have failed.
SwitchFails == failed' = TRUE /\ Fault

\* The board restarts its capture for the other camera; without it nothing reconnects.
SwitchStep ==
    /\ \/ switch = "cameras" /\ switch' = "switch" /\ UNCHANGED <<failed, peer, main, faults>>
       \/ switch = "switch" /\ switch' = "again"
          /\ main' = FALSE /\ Freeze("main") /\ UNCHANGED <<failed, faults>>
       \/ switch = "switch" /\ switch' = "no" /\ SwitchFails
          /\ UNCHANGED <<peer, main>>
    /\ UNCHANGED <<pc, at, cam, shown, reconnect, grace, stats, stale, viewing, known, busy,
                   later, enter, leaving, toggle, status, recording, preview, stops, clicks>>

Switched ==
    /\ switch = "again" /\ switch' = "no" /\ later' = later + 1
    /\ UNCHANGED <<call, viewing, known, busy, enter, leaving, toggle, status, board,
                   clicks, faults>>

\* The player reconnects a moment after the board has restarted its capture.
ReconnectsLater(restarted) ==
    /\ IF restarted THEN main' = FALSE ELSE UNCHANGED main
    /\ pc' = None /\ shown' = None /\ at' = Rest
    /\ peer' = [c \in Calls |-> IF c = pc THEN "closed"
                                ELSE IF restarted /\ peer[c] = "live" /\ cam[c] = "main"
                                THEN "frozen" ELSE peer[c]]
    /\ reconnect' = FALSE /\ grace' = FALSE /\ stats' = FALSE /\ stale' = 0
    /\ later' = later + 1
    /\ UNCHANGED <<cam, failed, viewing, known, busy, enter, leaving, switch, toggle, status,
                   recording, preview, stops>>

ApplySettings == Click /\ ReconnectsLater(TRUE) /\ UNCHANGED faults

\* startTrack, and stopTrack, which reconnects even if its request failed.
ToggleTrack ==
    /\ Click
    /\ \/ ReconnectsLater(TRUE) /\ UNCHANGED faults
       \/ ReconnectsLater(FALSE) /\ Fault

-----------------------------------------------------------------------------
(* The board and the other users. *)

MainStops ==
    /\ main /\ Fault /\ main' = FALSE /\ Freeze("main")
    /\ UNCHANGED <<pc, at, cam, shown, failed, reconnect, grace, stats, stale, page,
                   recording, preview, stops, clicks>>

MainReturns ==
    /\ ~main /\ main' = TRUE
    /\ UNCHANGED <<call, page, recording, preview, stops, clicks, faults>>

\* Another user starts or ends a recording, or it reaches its ceiling.
OthersRecord ==
    /\ Fault /\ recording' = ~recording /\ preview' = (preview /\ recording)
    /\ IF recording THEN UNCHANGED peer ELSE Freeze("lower")
    /\ UNCHANGED <<pc, at, cam, shown, failed, reconnect, grace, stats, stale, page,
                   main, stops, clicks>>

\* A late preview/stop, and the server's watchdog of previews.
PreviewStops ==
    /\ preview /\ preview' = FALSE /\ Freeze("lower")
    /\ \/ stops > 0 /\ stops' = stops - 1 /\ UNCHANGED faults
       \/ Fault /\ UNCHANGED stops
    /\ UNCHANGED <<pc, at, cam, shown, failed, reconnect, grace, stats, stale, page,
                   recording, main, clicks>>

-----------------------------------------------------------------------------
CallStep(c) == GotInfo(c) \/ GotOffer(c) \/ Gathered(c) \/ GotAnswer(c)
Timer == ReconnectDue \/ LaterDue \/ GraceEnds \/ UpdateStats
Answer == EnterCameras \/ EnterStarted \/ Toggled \/ LeftToMain \/ SwitchStep \/ Switched

Next ==
    \/ \E c \in Calls : CallStep(c) \/ Lose(c) \/ Back(c)
    \/ Timer \/ Answer \/ ServeToggle \/ AskStatus \/ GotStatus
    \/ ToggleRecord \/ ClickReconnect \/ ClickLower \/ ClickActiveMain \/ ClickCamera
    \/ ApplySettings \/ ToggleTrack
    \/ MainStops \/ MainReturns \/ OthersRecord \/ PreviewStops

\* Requests are answered, timers fall due, the status is asked for every 5 s.
Fairness ==
    /\ \A c \in Calls : WF_vars(CallStep(c))
    /\ WF_vars(ReconnectDue) /\ WF_vars(LaterDue) /\ WF_vars(GraceEnds) /\ WF_vars(UpdateStats)
    /\ WF_vars(EnterCameras) /\ WF_vars(EnterStarted) /\ WF_vars(Toggled) /\ WF_vars(LeftToMain)
    /\ WF_vars(SwitchStep) /\ WF_vars(Switched)
    /\ WF_vars(ServeToggle) /\ WF_vars(AskStatus) /\ WF_vars(GotStatus)

Spec == Init /\ [][Next]_vars /\ Fairness

-----------------------------------------------------------------------------
Playing == shown # None /\ peer[shown] = "live"

\* The timer is due in the middle of a call that takes longer than its second.
Crosses == ReconnectDue /\ \E c \in Calls : at[c] # "idle"

\* A camera that stays published is seen in the end, through restarts of its source that no
\* event reports, lost connections and calls of connectStream that cross, by clicks or by the
\* timer, as often as they do: once calls are faster than the timer the player finds its way
\* out of the crossing, unless it has told the user that a switch or a preview failed.
\* (Without the second premise TLC refutes it: calls that all take longer than a second end
\* each other's connections for ever, until the user reloads the page.)
PictureReturns ==
    <>[](Up(viewing) /\ ~failed) /\ <>[][~Crosses]_vars => <>[]Playing

\* While the lower camera records, the player that has it chosen ends holding no dead picture
\* of it (a call that was on its way may have brought back the main camera's).
RecordingIsBlocked ==
    <>[](viewing = "lower" /\ recording) => <>[](shown = None \/ cam[shown] = "main")
=============================================================================
