------------------------------ MODULE VideoBoard -----------------------------
(***************************************************************************)
(* The video of a board: one capture process (srt-relay-capture) that reads *)
(* three files when it starts, and the four programs that write the files   *)
(* and restart it: sirena_manager (set_camera), the video service manager   *)
(* (set_config), the pixel-tracking control and the relay daemon.  They     *)
(* share no lock.                                                           *)
(*                                                                          *)
(* A mode is a pixel format and a size (width, height and fps together).    *)
(***************************************************************************)
EXTENDS Naturals

CONSTANTS
    Cameras,
    Supports,     \* the modes a camera has, as pairs <<format, size>>
    Best,         \* camera.modes[0]
    None,
    MaxRequests,  \* bound: requests to change a setting
    MaxFaults     \* bound: cameras plugged or unplugged, revocations, kills, failures

ASSUME VideoBoardAssumption ==
    /\ \A c \in Cameras : Best[c] \in Supports[c]
    /\ \A c \in Cameras : \A m \in Supports[c] : m = <<m[1], m[2]>> /\ m[1] # None
    /\ MaxRequests \in Nat /\ MaxFaults \in Nat

VARIABLES
    env,       \* /opt/sirena/.env: VIDEO_DEVICE, INPUT_FORMAT, SIRENA_TRACK_TAP
    json,      \* sirena_video_config.json: input_format (or None) and the size
    target,    \* SIRENA_RELAY_TARGET is set in /etc/default/sirena-relay
    plugged,   \* cameras that are there
    approved,  \* the server approves the board
    cap,       \* the capture: its unit and process, and what it has read
    unmet,     \* history: a restart failed, or a start was taken back, and no process of the
               \* capture has started since
    camera,    \* a set_camera in progress: the next step, the camera, the .env it read
    manager,   \* a set_config in progress, and MANAGER.config
    active,    \* TrackSupervisor._active
    starting,  \* TrackSupervisor.start in progress (it holds _lock): step, .env it read
    stopping,  \* TrackSupervisor.stop in progress, past its lock
    relay,     \* relay daemon: "off", "poll", "written", "gone", "restarted"
    relaying,  \* its variable active
    spoiled,   \* history: a write undid another writer's, or a tracking request was cut off
    requests, faults

capture == <<cap, unmet>>
tracking == <<active, starting, stopping>>
vars == <<env, json, target, plugged, approved, capture, camera, manager, tracking,
          relay, relaying, spoiled, requests, faults>>

Modes == UNION {Supports[c] : c \in Cameras}
Formats == {m[1] : m \in Modes}
Sizes == {m[2] : m \in Modes}
Env == [dev : Cameras, fmt : Formats, tap : BOOLEAN]
Json == [fmt : Formats \cup {None}, size : Sizes]
Mode(e, j) == <<IF j.fmt = None THEN e.fmt ELSE j.fmt, j.size>>

TypeOK ==
    /\ env \in Env /\ json \in Json
    /\ {target, approved, active, relaying, unmet, spoiled} \subseteq BOOLEAN
    /\ plugged \subseteq Cameras
    /\ cap \in [pc : {"down", "wait", "exec", "shake", "play"}, env : Env, target : BOOLEAN,
                dev : Cameras, mode : Formats \X Sizes]
    /\ camera \in [pc : {"idle", "json", "env", "restart"}, to : Cameras, read : Env]
    /\ manager \in [pc : {"idle", "restart"}, config : Json]
    /\ starting \in [pc : {"idle", "write", "restart", "check", "undo"}, read : Env]
    /\ stopping \in [pc : {"idle", "read", "write", "restart"}, read : Env]
    /\ relay \in {"off", "poll", "written", "gone", "restarted"}
    /\ requests \in 0..MaxRequests /\ faults \in 0..MaxFaults

\* The state after an installation with the first camera chosen, the relay about to poll.
Init ==
    /\ \E c \in Cameras :
        /\ env = [dev |-> c, fmt |-> Best[c][1], tap |-> FALSE]
        /\ json = [fmt |-> None, size |-> Best[c][2]]
        /\ cap = [pc |-> "down", env |-> env, target |-> FALSE, dev |-> c, mode |-> Best[c]]
        /\ camera = [pc |-> "idle", to |-> c, read |-> env]
    /\ target = FALSE /\ approved = TRUE /\ plugged = Cameras
    /\ manager = [pc |-> "idle", config |-> json]
    /\ active = FALSE
    /\ starting = [pc |-> "idle", read |-> env] /\ stopping = [pc |-> "idle", read |-> env]
    /\ relay = "poll" /\ relaying = FALSE
    /\ unmet = FALSE /\ spoiled = FALSE /\ requests = 0 /\ faults = 0

Fault == faults < MaxFaults /\ faults' = faults + 1
Request == requests < MaxRequests /\ requests' = requests + 1

-----------------------------------------------------------------------------
(* srt_relay_capture.py under systemd. *)

\* resolve_video_device: another camera for one that is not there, if there is any.
Resolve(dev) == IF dev \in plugged \/ plugged = {} THEN {dev} ELSE plugged

SupportsMode(c, m) == m \in Supports[c]

\* A new process gets .env and the relay's file as they are now.
Exec == cap' = [cap EXCEPT !.pc = "exec", !.env = env, !.target = target] /\ unmet' = FALSE

\* systemctl restart: it may fail, or time out with nothing done. (One that times out and is
\* carried out all the same answers an error, but leaves what a success leaves.)
Restart ==
    \/ Exec /\ UNCHANGED faults
    \/ Fault /\ UNCHANGED cap /\ unmet' = TRUE

\* It reads the JSON file, takes another camera if its own is missing, and leaves with
\* code 0, which systemd does not restart, when there is no target.
CapLoad ==
    /\ cap.pc = "exec"
    /\ \/ ~cap.target /\ cap' = [cap EXCEPT !.pc = "down"]
       \/ /\ cap.target
          /\ \E c \in Resolve(cap.env.dev) :
                cap' = [cap EXCEPT !.pc = "shake", !.dev = c, !.mode = Mode(cap.env, json)]
    /\ UNCHANGED <<env, json, target, plugged, approved, unmet, camera, manager, tracking,
                   relay, relaying, spoiled, requests, faults>>

\* The handshake succeeds; a mode the camera does not have is replaced by its best one,
\* which is merged into the JSON file (persist_auto_mode).
CapOpen ==
    /\ cap.pc = "shake" /\ approved
    /\ IF cap.dev \notin plugged
         THEN cap' = [cap EXCEPT !.pc = "wait"] /\ UNCHANGED json
         ELSE IF SupportsMode(cap.dev, cap.mode)
           THEN cap' = [cap EXCEPT !.pc = "play"] /\ UNCHANGED json
           ELSE /\ cap' = [cap EXCEPT !.pc = "play", !.mode = Best[cap.dev]]
                /\ json' = [fmt |-> Best[cap.dev][1], size |-> Best[cap.dev][2]]
    /\ UNCHANGED <<env, target, plugged, approved, unmet, camera, manager, tracking,
                   relay, relaying, spoiled, requests, faults>>

\* HANDSHAKE_TIMEOUT, access revoked, or the camera gone from under the pipeline.
CapEnds ==
    /\ \/ cap.pc \in {"shake", "play"} /\ ~approved
       \/ cap.pc = "play" /\ cap.dev \notin plugged
    /\ cap' = [cap EXCEPT !.pc = "wait"]
    /\ UNCHANGED <<env, json, target, plugged, approved, unmet, camera, manager, tracking,
                   relay, relaying, spoiled, requests, faults>>

\* An error or the end of the stream on the bus, or a kill.
CapFails ==
    /\ Fault /\ cap.pc \in {"exec", "shake", "play"}
    /\ cap' = [cap EXCEPT !.pc = "wait"]
    /\ UNCHANGED <<env, json, target, plugged, approved, unmet, camera, manager, tracking,
                   relay, relaying, spoiled, requests>>

\* Restart=on-failure after RestartSec; the start limit is never reached.
CapRetry ==
    /\ cap.pc = "wait" /\ Exec
    /\ UNCHANGED <<env, json, target, plugged, approved, camera, manager, tracking,
                   relay, relaying, spoiled, requests, faults>>

-----------------------------------------------------------------------------
(* SirenaSupervisor.set_camera. *)

\* write_env writes every key it was given, changed or not: `read` is what the caller
\* read before, and whatever another writer changed since is gone.
WriteEnv(read, new) ==
    /\ env' = new
    /\ spoiled' = (spoiled \/ env # read)

SetCamera(c) ==
    /\ Request /\ camera.pc = "idle" /\ c \in plugged
    /\ camera' = [pc |-> "json", to |-> c, read |-> env]
    /\ UNCHANGED <<env, json, target, plugged, approved, capture, manager, tracking,
                   relay, relaying, spoiled, faults>>

\* The configured size is kept if the camera has it in its best format.
SetCameraMode ==
    /\ camera.pc = "json"
    /\ LET best == Best[camera.to] IN
        json' = IF SupportsMode(camera.to, <<best[1], json.size>>) THEN json
                ELSE [json EXCEPT !.size = best[2]]
    /\ camera' = [camera EXCEPT !.pc = "env"]
    /\ UNCHANGED <<env, target, plugged, approved, capture, manager, tracking,
                   relay, relaying, spoiled, requests, faults>>

SetCameraEnv ==
    /\ camera.pc = "env"
    /\ WriteEnv(camera.read,
                [camera.read EXCEPT !.dev = camera.to, !.fmt = Best[camera.to][1]])
    /\ camera' = [camera EXCEPT !.pc = "restart"]
    /\ UNCHANGED <<json, target, plugged, approved, capture, manager, tracking,
                   relay, relaying, requests, faults>>

SetCameraRestart ==
    /\ camera.pc = "restart" /\ Restart
    /\ camera' = [camera EXCEPT !.pc = "idle"]
    /\ UNCHANGED <<env, json, target, plugged, approved, manager, tracking,
                   relay, relaying, spoiled, requests>>

-----------------------------------------------------------------------------
(* ServiceManager: it loads the JSON file once, and writes its own copy over it. *)

SetConfig(size) ==
    /\ Request /\ manager.pc = "idle"
    /\ manager' = [pc |-> "restart", config |-> [manager.config EXCEPT !.size = size]]
    /\ json' = manager'.config
    /\ UNCHANGED <<env, target, plugged, approved, capture, camera, tracking,
                   relay, relaying, spoiled, faults>>

\* Slip: `start` instead of `restart` leaves a running capture as it is.
SlipApplyConfig ==
    /\ manager.pc = "restart"
    /\ IF cap.pc = "down" THEN Exec ELSE UNCHANGED capture
    /\ manager' = [manager EXCEPT !.pc = "idle"]
    /\ UNCHANGED <<env, json, target, plugged, approved, camera, tracking,
                   relay, relaying, spoiled, requests, faults>>

ApplyConfig ==
    /\ manager.pc = "restart" /\ Restart
    /\ manager' = [manager EXCEPT !.pc = "idle"]
    /\ UNCHANGED <<env, json, target, plugged, approved, camera, tracking,
                   relay, relaying, spoiled, requests>>

-----------------------------------------------------------------------------
(* pixel_tracking/control.py. *)

TrackStart ==
    /\ Request /\ starting.pc = "idle" /\ ~active
    /\ starting' = [pc |-> "write", read |-> env]
    \* a stop past its lock will undo this start
    /\ spoiled' = (spoiled \/ stopping.pc # "idle")
    /\ UNCHANGED <<env, json, target, plugged, approved, capture, camera, manager, active, stopping,
                   relay, relaying, faults>>

Tapped(e, on) == [e EXCEPT !.tap = on]

TrackStartWrite ==
    /\ starting.pc = "write"
    /\ WriteEnv(starting.read, Tapped(starting.read, TRUE))
    /\ starting' = [starting EXCEPT !.pc = "restart"]
    /\ UNCHANGED <<json, target, plugged, approved, capture, camera, manager, active, stopping,
                   relay, relaying, requests, faults>>

\* _restart_srt_relay: a restart that fails or times out, which systemd may carry out or not,
\* takes the start back.
TrackStartRestart ==
    /\ starting.pc = "restart"
    /\ \/ Exec /\ starting' = [starting EXCEPT !.pc = "check"] /\ UNCHANGED faults
       \/ /\ Fault /\ starting' = [starting EXCEPT !.pc = "undo"]
          /\ (Exec \/ UNCHANGED capture)
    /\ UNCHANGED <<env, json, target, plugged, approved, camera, manager, active, stopping,
                   relay, relaying, spoiled, requests>>

\* is-active, twice: so does a capture that did not come up, or a check that raises.
TrackStartCheck ==
    /\ starting.pc = "check"
    /\ \/ /\ cap.pc \notin {"down", "wait"}
          /\ active' = TRUE /\ starting' = [starting EXCEPT !.pc = "idle"] /\ UNCHANGED faults
       \/ /\ (cap.pc \in {"down", "wait"} /\ UNCHANGED faults) \/ Fault
          /\ starting' = [starting EXCEPT !.pc = "undo"] /\ UNCHANGED active
    /\ UNCHANGED <<env, json, target, plugged, approved, capture, camera, manager, stopping,
                   relay, relaying, spoiled, requests>>

\* The start is taken back in the file, and nothing restarts the capture: one that systemd
\* has brought up since the restart still reads its own frames for the tap.
TrackStartUndo ==
    /\ starting.pc = "undo" /\ starting' = [starting EXCEPT !.pc = "idle"]
    /\ WriteEnv(Tapped(starting.read, TRUE), Tapped(starting.read, FALSE))
    /\ unmet' = TRUE
    /\ UNCHANGED <<json, target, plugged, approved, cap, camera, manager, active, stopping,
                   relay, relaying, requests, faults>>

\* The lock covers the flag only.
TrackStop ==
    /\ Request /\ starting.pc = "idle" /\ active /\ stopping.pc = "idle"
    /\ active' = FALSE
    /\ stopping' = [stopping EXCEPT !.pc = "read"]
    /\ UNCHANGED <<env, json, target, plugged, approved, capture, camera, manager, starting,
                   relay, relaying, spoiled, faults>>

TrackStopRead ==
    /\ stopping.pc = "read"
    /\ stopping' = [pc |-> "write", read |-> env]
    /\ UNCHANGED <<env, json, target, plugged, approved, capture, camera, manager, active, starting,
                   relay, relaying, spoiled, requests, faults>>

TrackStopWrite ==
    /\ stopping.pc = "write"
    /\ WriteEnv(stopping.read, Tapped(stopping.read, FALSE))
    /\ stopping' = [stopping EXCEPT !.pc = "restart"]
    /\ UNCHANGED <<json, target, plugged, approved, capture, camera, manager, active, starting,
                   relay, relaying, requests, faults>>

TrackStopRestart ==
    /\ stopping.pc = "restart" /\ Restart
    /\ stopping' = [stopping EXCEPT !.pc = "idle"]
    /\ UNCHANGED <<env, json, target, plugged, approved, camera, manager, active, starting,
                   relay, relaying, spoiled, requests>>

\* The control process starts again and takes its flag from the file.
TrackControlRestarts ==
    /\ Fault
    /\ active' = env.tap
    /\ starting' = [starting EXCEPT !.pc = "idle"] /\ stopping' = [stopping EXCEPT !.pc = "idle"]
    /\ spoiled' = (spoiled \/ starting.pc # "idle" \/ stopping.pc # "idle")
    /\ UNCHANGED <<env, json, target, plugged, approved, capture, camera, manager,
                   relay, relaying, requests>>

-----------------------------------------------------------------------------
(* video_relay.py. *)

\* A camera has come, or the last one has gone: the target is written or removed first.
RelayPoll ==
    /\ relay = "poll" /\ relaying # (plugged # {})
    /\ target' = ~relaying
    /\ relay' = IF relaying THEN "gone" ELSE "written"
    /\ UNCHANGED <<env, json, plugged, approved, capture, camera, manager, tracking,
                   relaying, spoiled, requests, faults>>

\* Slip: a capture that left with code 0 is expected to be brought back by systemd.
SlipRelayRestart ==
    /\ relay \in {"written", "gone"} /\ relay' = "restarted"
    /\ IF cap.pc = "down" THEN UNCHANGED capture ELSE Exec
    /\ UNCHANGED <<env, json, target, plugged, approved, camera, manager, tracking,
                   relaying, spoiled, requests, faults>>

\* check=False, and a timeout is only logged: the relay goes on whatever becomes of it.
RelayRestart ==
    /\ relay \in {"written", "gone"} /\ relay' = "restarted" /\ Restart
    /\ UNCHANGED <<env, json, target, plugged, approved, camera, manager, tracking,
                   relaying, spoiled, requests>>

RelayMark ==
    /\ relay = "restarted" /\ relay' = "poll"
    /\ relaying' = target
    /\ UNCHANGED <<env, json, target, plugged, approved, capture, camera, manager, tracking,
                   spoiled, requests, faults>>

\* SIGTERM: the handler, which may run inside a restart, goes by the variable; then the
\* unit is started again by whoever stopped it.
RelayStop ==
    /\ Fault /\ relay # "off" /\ relay' = "off"
    /\ relaying' = FALSE
    /\ target' = (target /\ ~relaying)
    /\ IF relaying
         THEN \/ cap' = [cap EXCEPT !.pc = "exec", !.env = env, !.target = FALSE] /\ unmet' = FALSE
              \/ UNCHANGED cap /\ unmet' = TRUE
         ELSE UNCHANGED capture
    /\ UNCHANGED <<env, json, plugged, approved, camera, manager, tracking, spoiled, requests>>

\* A kill leaves the target where it is.
RelayDies ==
    /\ Fault /\ relay # "off" /\ relay' = "off" /\ relaying' = FALSE
    /\ UNCHANGED <<env, json, target, plugged, approved, capture, camera, manager, tracking,
                   spoiled, requests>>

RelayStarts ==
    /\ relay = "off" /\ relay' = "poll"
    /\ UNCHANGED <<env, json, target, plugged, approved, capture, camera, manager, tracking,
                   relaying, spoiled, requests, faults>>

-----------------------------------------------------------------------------
(* The surroundings, and the whole. *)

PlugChanges(c) ==
    /\ Fault
    /\ plugged' = IF c \in plugged THEN plugged \ {c} ELSE plugged \cup {c}
    /\ UNCHANGED <<env, json, target, approved, capture, camera, manager, tracking,
                   relay, relaying, spoiled, requests>>

ApprovalChanges ==
    /\ Fault /\ approved' = ~approved
    /\ UNCHANGED <<env, json, target, plugged, capture, camera, manager, tracking,
                   relay, relaying, spoiled, requests>>

Capture == CapLoad \/ CapOpen \/ CapEnds \/ CapRetry
CameraStep == SetCameraMode \/ SetCameraEnv \/ SetCameraRestart
StartStep == TrackStartWrite \/ TrackStartRestart \/ TrackStartCheck \/ TrackStartUndo
StopStep == TrackStopRead \/ TrackStopWrite \/ TrackStopRestart
RelayStep == RelayPoll \/ RelayRestart \/ RelayMark \/ RelayStarts

Next ==
    \/ Capture \/ CapFails
    \/ \E c \in Cameras : SetCamera(c) \/ PlugChanges(c)
    \/ CameraStep
    \/ \E s \in Sizes : SetConfig(s)
    \/ ApplyConfig
    \/ TrackStart \/ TrackStop \/ StartStep \/ StopStep \/ TrackControlRestarts
    \/ RelayStep \/ RelayStop \/ RelayDies
    \/ ApprovalChanges

\* Handlers finish, daemons poll, systemd restarts the capture and the relay.
Fairness ==
    /\ WF_vars(Capture) /\ WF_vars(CameraStep) /\ WF_vars(ApplyConfig)
    /\ WF_vars(StartStep) /\ WF_vars(StopStep) /\ WF_vars(RelayStep)

Spec == Init /\ [][Next]_vars /\ Fairness

-----------------------------------------------------------------------------
(* Properties. *)

Quiet ==
    /\ camera.pc = "idle" /\ manager.pc = "idle"
    /\ starting.pc = "idle" /\ stopping.pc = "idle"

\* When no request is in progress, a capture that streams runs the camera setting, the
\* tracking tap and the mode the files state: whoever writes a file restarts the capture
\* after it, and no restart of systemd's in between can leave it with the former settings.
\* It may run others only after a restart that failed or a start of tracking that was taken
\* back, and until its next process. The control's flag is the file's too, also after failed
\* starts and restarts of the control. Only overlapping writers can part them.
RunsWhatFilesSay ==
    Quiet /\ ~spoiled =>
        /\ active = env.tap
        /\ cap.pc = "play" /\ ~unmet => cap.env = env /\ cap.mode = Mode(env, json)

\* Once changes cease, a board with a camera and an approval streams: through captures that
\* left with code 0, failed or were revoked, cameras that came back, and a relay that was
\* stopped or killed at any of its steps; unless the last restart anyone asked for failed,
\* which the relay does not notice.
Streams == <>[](plugged # {} /\ approved /\ ~unmet => cap.pc = "play")

\* (Refuted by TLC.) control.py's docstring: tracking never changes VIDEO_DEVICE.
CameraKept == [][StartStep \/ StopStep => env'.dev = env.dev]_vars
=============================================================================
