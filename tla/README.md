# Formal models of the Sirena board software and its admin server

This directory holds TLA+ models of the repository's own core logic, the TLC
configurations that check them on small instances, and TLAPS proofs for the
parts where a small instance is not enough. `PROJECT.json` is the index: which
definition stands for which lines, which run checks which property, which
mutation of the model each property detects, the hazards of the code and the
disagreements found between the code and its documentation.

    cd tla
    tlc -config MeshGroups.cfg MC_MeshGroups      # likewise the other cfg files
    tlapm MeshGroupsProofs.tla

## 1. The system

A fleet of vehicles ("boards", Raspberry Pi with systemd units) talks over
WireGuard with one admin server (Flask in one gunicorn process with many
threads, SQLite in WAL mode). People drive the boards from the admin's pages.

| Part | Code | State | Operations | Interacts through |
|---|---|---|---|---|
| Mesh groups and ownership | `admin_module/services/{mesh_group,claim,device}_service.py`, `repository.py` | tables `devices`, `mesh_groups`, `device_claims` | create/delete group, add/remove board, rotate key, claim, approve, reject, reassign, register, validity, delete, sync | HTTP from pages and boards; SQLite transactions of other threads |
| Mesh agent | `mesh_module/mesh_agent.py`, `mesh-up.sh`, `mesh-down.sh` | `config.json`, `mesh.env`, `mesh.key`; cached config, timers | sync, save, remove, reconcile | polls the admin; starts and stops the unit `sirena-mesh` |
| Uplink watchdog | `mesh_module/uplink_watchdog.py` | endpoint, health and its timers, peers, gateway; kernel route | refresh links, health, choose gateway, apply route, beacons | UDP beacons between boards; kernel routes |
| Board manager | `sirena_manager/` | unit table, registration, camera choice | boot, start/stop with dependencies, register, heartbeat, set camera | systemd, admin, `/opt/sirena/.env` |
| Board update | `sirena_manager/deploy/`, `admin_module/services/update_service.py` | package cache; status file | build, download, apply, roll back | HTTP, transient unit |
| Telemetry uplink | `mavlink_module/telemetry_sender.py`, `telemetry_daemon.py`, `mavlink_client.py`, `admin_module` ingestion | bounded deque, stream on or off, batch | enqueue, poll, batch, post, put back, clear | three threads on one deque; HTTP |
| MAVLink router, fire device | `mavlink_module/`, `firedevice_module/` | learned clients; serial framing | route, expire, frame, resynchronise | UDP, serial |
| CRSF bridge | `crsf_module/crsf_bridge.py` | channels, mode, time of last packet, serial port | receive, change mode, send, failsafe, reopen | UDP in, UART out |
| RC sessions | `admin_module/services/control_service.py` | session per board, cached connections | enable, stick, disable | CRSF bridge or MAVLink |
| Lower camera | `additional_modules/lowercam/`, `lowercam_control_service.py` | preview and record units, session marker | start/stop preview and recording, watchdog | systemd `Conflicts=`, HTTP |
| Pixel tracking | `additional_modules/pixel_tracking/` | a flag, its copy in the env file | start, stop | env file, systemd |
| GPS sources | `navigation_module/` | one slot per source, active source | read, choose, block, forecast | threads, UDP, MAVLink |
| Video | `video_module/` | pipeline, configuration, relay flag, bitrate | start, restart, relay, adapt | systemd, HTTP |
| Vision | `vision_module/` | worker per board and capability | start, stop, post | threads, HTTP |
| Recordings and proxying | `admin_module/services/` | one ffmpeg per board | start, stop, list, delete | processes, files |
| Control panel | `admin_module/templates/_control_panel.html` | panel state, gamepad, stick loop | confirm, stop, hide, send | HTTP to RC sessions |
| Users, logs, system tests, pages | `admin_module/` | single rows | read, write | SQLite |
| Inertial analysis; installation and CI | scripts | none over time | run once | files |

**What is hard here.** Between two `with get_db()` blocks any other request may
run, so every check made in Python may be stale by the UPDATE. Boards and server
agree only by polling. Every process on a board may be killed between two file
writes and is restarted by systemd with whatever is on the disk. Beacons are
lost. Units are started, stopped and restarted by several actors through
systemd's job queue. Bounded queues are shared by threads without a common lock.

**What makes each part correct.**

- Groups: boards of a group have its owner; a group is never larger than its
  limit; no membership in a group that is gone; whoever left a group does not
  hold its key; a claim is decided once.
- Agent: a running mesh uses one network, the wanted one; a board that left a
  group loses the key; after faults the board still converges.
- Watchdog: the kernel's route is the one the process believes in; no board keeps
  relaying through a neighbour that cannot help; boards with a live Starlink use it.
- CRSF and RC: no stick from before a failsafe or mode change is ever
  transmitted; a released session leaves released sticks; the link recovers.
- Telemetry: order is kept through retries, nothing is lost while there is room,
  nothing answered is sent again, sending never stops.
- Lower camera: preview and recording exclude each other; recordings end in time;
  a preview nobody sees ends.
- Video: what streams is what the files say; after faults the board streams; the
  bitrate comes to what the link carries; the tracker follows the last click.
- Update: cached packages are whole, the status is true, the version is reported.
- GPS: no old and no jumping position is sent, and a good dish is used again.
- Fire device: no state is shown that never was, and lost bytes are survived.
- Vision, recordings: nothing runs out of reach of its stop; what runs is what is
  shown; what was recorded is kept.
- Control panel: page and server agree in the end on who is in control.

## 2. Modules

| Module | Models | Used by |
|---|---|---|
| `MeshGroups` | the server's transactions | `MC_MeshGroups`, `MeshGroupsProofs` |
| `Membership` | the abstract specification `MeshGroups` implements, one request at a time | `MC_MeshGroups` |
| `MeshGroupsProofs` | theorems about `MeshGroups` and `Membership` | |
| `MeshAgent` | agent, unit and scripts on one board | `MC_MeshBoard` |
| `UplinkFailover` | watchdogs of the boards of one mesh | `MC_MeshBoard` |
| `MeshBoardProofs` | theorems about both, as composed in `MC_MeshBoard` | |
| `CrsfBridge` | CRSF daemon and bridge on one board | `MC_Sticks`, `MC_CrsfBridge`, `CrsfBridgeProofs` |
| `CrsfBridgeProofs` | theorems about `CrsfBridge` | |
| `RcSession` | RC sessions of the server for one board | `MC_Sticks` |
| `RcSessionProofs` | theorems about `RcSession` and `ControlPanel`, as instantiated in `MC_Sticks` | |
| `ControlPanel` | the pilot's page | `MC_Sticks` |
| `TelemetrySender` | the telemetry service of a board and the server's ingest | `MC_TelemetrySender`, `TelemetrySenderProofs` |
| `TelemetrySenderProofs` | theorems about `TelemetrySender` | |
| `VideoBoard` | the board's video settings, capture, relay, manager and tracking control | `MC_Cameras` |
| `TrackTap` | a click on the video and the tracker | `MC_Cameras` |
| `LowerCam` | the lower camera's units and the server's handlers | `MC_Cameras` |
| `OneCamera` | the abstract specification `LowerCam` implements | `LowerCam` |
| `CamerasProofs` | theorems about `LowerCam`, `OneCamera`, `VideoBoard` and `TrackTap`, as composed in `MC_Cameras` | |
| `GpsHub` | the choice of a position | `MC_Links` |
| `AdaptiveBitrate` | the bitrate's controller, closed over a link | `MC_Links` |
| `FireDevice`, `Crc` | the fire device's frames on a serial line | `MC_Links` |
| `LinksProofs` | theorems about `GpsHub` and `FireDevice`, as composed in `MC_Links` | |
| `BoardManager` | the boot sequence and the commands of the board's manager | `MC_Services` |
| `BoardUpdate` | the update of a board, its manager's registration | `MC_BoardUpdate`, `MC_Services` |
| `Vision` | the vision workers of one board | `MC_Services` |
| `Recorder` | the server's recordings | `MC_Services` |
| `ServicesProofs` | theorems about `BoardUpdate`, `Vision` and `Recorder`, as composed in `MC_Services` | |
| `VideoPlayer` | the video player of the pilot's pages | `MC_Pages` |
| `LiveTelemetry` | telemetry from the server's ingest to a page | `MC_Pages` |

Several components share no state with each other. Their instances are put side by
side in one MC module with a variable `part`, chosen in the initial state: a
behaviour follows one part, and the others keep their initial state (in which their
invariants hold, so an invariant of one part says nothing less for that). A
temporal property of part *x* is stated `part = "x" /\ X!Fairness => X!Property`:
the fairness is that part's own, and the others are not promised any.

Operators whose comment begins with *Slip:* are deliberately wrong variants of
the definition that follows them. No specification uses them; they are the
mutants listed in `PROJECT.json`, and each shows that one property can fail.

### 2.1 MeshGroups

*State.* `device`, `group` and `claim` are the three tables, reduced to the
columns that decide something: owner, group, validity, disabled, claim code;
owner, existence and `config_version`; device, user and status. `known` is a
history variable: every group key a sync has sent to a board. A key is drawn
whenever `config_version` grows, in the same UPDATE, so a pair
`<<group, version>>` *is* the key.

*Requests.* `req[t]` is what thread `t` is serving: a `pc` naming its next
transaction and the handler's local variables (board, group, user, claim). An
action is one transaction with the Python that follows it up to the next one.
`AddDevice` / `AddCheckDevice` / `AddUpdate` are thus the three transactions of
`mesh_group_service.add_device`: read the group, read the board, the guarded
UPDATE. The helper `_detach` is `DetachClear` and `DetachRotate`; its caller is
remembered in `req[t].next`, because removal, change of owner and deletion of a
board all go through it. SQLite's foreign keys are on, so they are part of the
actions: an INSERT or UPDATE naming a row that is gone fails, and a board that
was ever claimed cannot be deleted (`DeleteRow`).

*Runs.*

- `mesh_groups`: a behaviour follows one of two parts. "serial": one thread and all
  requests; boards of a group have its owner (`OwnersMatch`) and no leaver holds a
  live key (`KeyCustody`), together `SerialMembership`. Both hold: every path by which a
  board leaves replaces the key, also for a group left empty. `ImplementsMembership`: the
  transactions of a request do, together, one step of `Membership`, where boards enter
  and leave groups at once. Its mapping shows a board that is leaving in its group, and
  in the hands of the group's owner, until the key is replaced; a live group by its
  owner; and as the keys a board holds, those versions it knows that are the groups'
  present ones. The mutant is a change of owner without its hook. "concurrent": two threads interleaving the
  membership requests. `GroupWithinLimit` holds since the COUNT is inside the UPDATE;
  `MembersOfLiveGroups` holds thanks to the foreign key and to the deletion of
  members and group being one transaction.
- `mesh_groups_owner_race`: two threads and the requests that change owner or
  membership. `OwnersMatch` **fails**: `add_device` reads the board (owner equal
  to the group's), the other thread hands the board to another user, whose hook
  finds it in no group and does nothing, and the UPDATE then puts it into the
  former owner's group.

*Bounds.* Two groups, since a key of one must not be taken for another's; one
board and one claim serially (properties speak of one board and one claim at a
time; two users are needed for a change of owner); two boards and a limit of one
concurrently, so that the limit is met and exceeded by the mutant.
Two versions of a key: the one that was known and the one that replaced it.
`MaxVersion` stops an exploration, not a program. These runs do not check
deadlock: ids and versions are finite, so an explored history ends. Boards,
threads, groups and claims are interchangeable and used as symmetry sets; users
are not (one of them is an admin).

### 2.2 MeshAgent

*State.* The three files, the agent's fields, where the pass of its loop is
(`pc`), systemd's view of `sirena-mesh` (`unit`, `again`: a start queued behind a
stop), what the running script has read (`run`), and the admin's wish (`want`). A
*network* is a group at one `config_version`. The script reads the environment
file at ExecStart and the key when the adapter appears, which may be later: two
reads, two actions. Every file written is an action, and `Crash` may fall
between any two.

*Run.* `mesh_board`, part "agent": a mesh which is up and wanted runs one network
(`RunsOneNetwork`), and the board converges to what the admin wants
(`AgentConverges`), also when a start of the mesh fails with the adapter there (a frequency
that is not allowed, no SAE in time: `UnitFail`), which a flip of the bound stands for; a board
where every start fails has no mesh to converge to. The promise that a rename is invisible to boards
(`RenameIsQuiet`) is refuted: `reconcile` compares the whole configuration except
`enabled`, including the name.

*Limits stated in the properties.* `RunsOneNetwork` speaks of an agent that was
not killed. `AgentConverges` excepts `owed`: killed after `config.json` was
replaced or removed and before the unit was told, the restarted agent finds the new
configuration in its cache and sees no change, so nothing restarts the unit until
the next change. `PROJECT.json` lists this as a hazard. The exception is wider than that
case: any kill between the change of `config.json` and the end of the next `reconcile`
sets `owed`, whether or not the unit ran another network, and it is lifted only when the agent
starts or restarts the unit.

*Constants.* `StopsInOnePass = TRUE` says `mesh-down.sh` ends within one pass of the
agent (it waits at most 2 s for wpa_supplicant, the loop sleeps 5 s). With `FALSE`,
TLC finds a start queued behind a slow stop running after the files were removed,
with the fallback environment of `mesh-up.sh`. Two networks and three changes
give: join, change, leave or return. Two flips of the adapter unplug and replug it.
`Names` are the names the admin may give; the run has one, since a rename only starts
the mesh once more, and the proof has any number.

*Fairness.* Weak fairness of the loop (it never returns), of systemd's jobs and of
the two timers. Strong fairness of a sync being tried and answered: the admin may
be unreachable arbitrarily often, not for ever. `AdminChanges`, `AdapterFlips`,
`Crash` and `SyncFails` are not fair; nothing forces them to happen or to stop other than
their bounds.

### 2.3 UplinkFailover

*State.* Per board: the Starlink (`link`: answering, mute, or no default route),
what `wg show` says, the process (`up`), its fields (`endpoint`, `seen`, `ok`,
`silent`, `alive`, `gateway`, `peers`) and the kernel's protocol-99 routes
(`route`), which outlive the process. `Pass` is one turn of the main loop:
refresh the links, update the health, apply the route. `Beacon(b, c)` is one
beacon that arrived; a lost one is a step not taken. `Stop` cleans up,
`Kill` does not, `Start` cleans up what a killed process left.

*Time.* A tick is one second. The loop sleeps 0.1 s and beacons go out every
0.25 s, so a second does not pass before every running watchdog has completed a
pass and, on a clear radio, has heard the latest of every other. The defaults are
one second until a silent Starlink is dead, one second until a beacon is stale and
three seconds until a returned Starlink counts; the runs use the values in the
cfg, with the recovery longer than the detection as in the code. Within a tick
passes, beacons and failures interleave freely.

*Run.* `mesh_board`, part "uplink": two boards with failing links, a radio that
loses beacons, a stopped or killed watchdog. The kernel agrees with the process
(`RouteMatchesGateway` of `RelaysAreTrue`), a board does not relay through a useless neighbour for longer
than a beacon lives, counted afresh for each restart or link change
(`UselessRelayIsShort`: two boards *may* briefly relay through each other), and
after everything comes to rest the boards use the routes their Starlinks call for
(`UplinkSettles`). With two endpoints, `RelaysToEndpoint` is refuted: a relaying
board's route does not follow the WireGuard endpoint, as `apply_route` returns early
while the neighbour is unchanged.

`RelaysAreTrue` in detail. A running watchdog with a gateway has a route through that
gateway, to one of the endpoints it has had, and one without a gateway has no route; no
endpoint has two routes. `bad` counts the seconds a gateway has been of no use (its own
Starlink down or relaying itself) since the board last heard it was, and also since
`ip route replace` last failed: `apply_route` keeps a gateway whose replacement the
kernel refuses, so a kernel that goes on refusing keeps a useless relay alive. TLC
found this with three boards, where a better neighbour exists to fail with. Two boards suffice for a relay, a mutual relay and
its dissolution; choosing among several neighbours is left open by `Target`, which
may pick any candidate.

*Fairness.* The clock runs, the loops run, systemd restarts the unit
(`Restart=on-failure`, and it is wanted by `sirena-mesh`), and the radio clears up
in the end. Links and endpoints change only as often as `MaxEvents` allows.

### 2.4 CrsfBridge

*State.* The fields of `CRSFBridge` that decide something (`mode`, `ser`,
`failsafe`, the age of the sticks in `channels`, the time since the last packet
`fresh`), where the daemon's process is (`proc`), the datagrams waiting in the
socket with their ages (`queue`), and the port. A handle is *broken* once the
device behind it went away: only closing and opening again helps. `frame` is the
last frame written. Draining is an action per datagram, since a mode command in
the middle may raise and lose those behind it; `Pass` is the rest of the loop's
turn. The sleeping bridge keeps its socket, the retrying daemon has closed it.

*Runs.* `sticks`, part "bridge": the handle exists only in CRSF mode
(`PortOnlyInCrsf`), also after an opening failed with the mode already changed; no
frame carries sticks older than the failsafe timeout plus the one-second sleep
(`SticksAreRecent`), the sleep because what waited in the socket is stamped when
read, and the bound is reached; frames keep coming (`BridgeKeepsSending`) unless a
reopening has failed. `crsf_reconnect` checks that without the exception. It
**fails**: `_reconnect_uart` leaves `ser` None, and with `ser` None the loop neither
sends nor reconnects.

*Bounds.* A tick is a quarter of a second: failsafe after two, sleep of four. The
daemon's ten seconds are five ticks: its socket is closed meanwhile, so only that
they outlast the failsafe timeout matters. One datagram a tick and three in the
socket are enough for sticks, a switch away and a switch back to wait out one
sleep. Two faults: the port goes and returns, or a restart falls into an outage.

*Fairness.* The thread and the clock run, and the manager starts the unit again.

### 2.5 RcSession

*State.* The entry of the board in `_control_sessions` (`table`), each session's
`running`, the age of its sticks and the place of its thread (`loop`), with the
age the thread has read under the lock (`copy`); a record per HTTP thread as in
`MeshGroups`, an action being what happens between two releases of a lock; and
what the flight controller follows (`held`, `stick`, `silent`). A tick is the
loop's period of 0.1 s. Every loop ends its iteration within a tick; HTTP threads
may take any time, so a stop may come long after the session left the table.

*Run.* `sticks`, part "session", with two HTTP threads, two sessions, a lost frame
and a restart. `RcSticksAreRecent` bounds the age of what the flight controller
follows: by the server's timeout as long as a loop has just sent its frame, by that and
the flight controller's own timeout through stalls, losses and stops; `RcEndsClean`: after the last answer, with no session in the table,
nothing is overridden, so no thread's last frame follows the release;
and no thread repeats sticks for a session nobody can stop any more,
however enabling and disabling interleave; `RcFollowsPilot` has the two halves of the
promise in the code's comments: a session nobody feeds ends, and a stall never
ends a session that is fed again. Two sessions suffice, the second being enabled while
the first is still being stopped. The timeouts keep their order (sticks, then the
flight controller's own, then abandonment), not their values.

*Fairness.* Threads run, started requests are served, the clock runs. Nobody is obliged to
send a request.

*Assumed.* `join(timeout=2.0)` succeeds: a loop that was told to stop needs at most
one period. The board keeps its address (a cached connection is never renewed).
The flight controller's dropping of an override not repeated is external.

### 2.6 TelemetrySender

*State.* The deque (`queue`), the flag `_active`, the place of the polling thread
(`poll`) and of the sending thread (`send`) with its `batch`; what the reading
thread is doing: `reader` for the loop of `MavlinkClient`, `fresh` for the test of
`_last_enqueue_ts`, `late` for a message whose `enqueue()` has passed the test of
`_active` and not yet appended. `lossy`, `registered` and `stray` are the server and
the way to it; `stray` is a batch whose request the board gave up after its eight
seconds while the server may yet serve it. `logged` and `sent` are history: the rows
inserted, the messages `_sent_total` counts.

*Actions.* One per step between which another thread may run: no lock protects the
deque, each of its methods is atomic. So the emptiness test and `popleft` are two
actions (`Fill`, `Pop`), the poll's look, its change of `_active` and its `clear`
are three, and putting a batch back is one `appendleft` at a time. `Push` and
`PushFront` are the two ends of a deque with `maxlen`: append drops the first
element of a full one, appendleft the last. `PostFails` covers every way `urlopen`
raises: nothing inserted, inserted and the answer lost, or a stray request; a
refusal (403 until the board is registered) is `Refused`. The handler around
`_send_batch` in `_send_worker` is unreachable, as `_send_batch` raises nothing.
Messages dropped by the rate limits never reach `enqueue()` and are not numbered.

*Runs.* `telemetry_sender`: `InOrder` (retries neither reorder nor double what is
still to be sent), `SentOnce`,
`LossExplained` (the four ways a message may be lost) and `Drains`. The deque holds
two, a batch two, and four messages come: a batch can be out while the deque fills,
and be put back while it overflows. `MaxMsgs` makes the flow finite, which `Drains`
needs: an endless flow need never leave the deque empty. `telemetry_flush` removes
from `Drains` the case that the sending thread is dead: `clear()` between test and
`popleft` kills it, and the next flow stays in the deque.

*Fairness.* The threads run (`Enqueue`, `Polling`, `Sending`), the manager's loop
registers the board some day, and the way to the server clears some day: without
that nothing could be promised. Messages, restarts and stray requests are not owed.
A deadlock is not one: with no message left every thread sleeps.

### 2.7 ControlPanel

*State.* The page's variables (`controlState`, `stickLoopActive`, whether a gamepad has
an index, its grace timer, `document.hidden`), the request of `confirmControl`, each
stick loop with its request or answer on the way, disables on the way, and whether
the server has a session. JavaScript runs to the next `await`, so that is an action.
`StopControl` is what `stopControl` does before its request; after a refusal (409)
the loop also waits for that request before it shows the end.

*Run.* `sticks`, part "page". `PanelAgrees`: a panel that shows control as running
while the server has no session comes to show it, and a panel that does not drive
leaves no session behind. This is not obvious: stopping only clears a flag, so a loop
whose request is out finds the flag set again when the pilot confirms at once, goes
on beside the new loop, and the late refusal of a former stick ends the new session.
`OneStickInFlight` (the page's comment promises one request at a time) and
`HiddenDoesNotDrive` (a confirmation answered after the page was hidden arms it) are
refuted by exactly these steps. Two loops and two faults suffice for both.
`ArmedHasLoop` (an armed panel has a loop that feeds the session, or one that was
refused and is about to disarm it) is proved (section 3), not run.

*Fairness.* Timers end, loops turn, requests are served or (boundedly often) lost, and
a session without sticks is abandoned. The pilot owes nothing.

### 2.8 VideoBoard

*State.* The three files that decide what streams (`/opt/sirena/.env`, the video
configuration, the relay's target), the capture process with what it has read of
them, and the step and local copies of each writer: `set_camera`, `set_config`, start
and stop of tracking. Each read and write of a file is a step; there is no lock. A restart
asked of systemd may fail or time out: `set_camera`, `set_config` and a stop of tracking
report it and leave the capture as it is, the relay does not look, and a start of tracking
takes itself back. So does one whose `is-active` finds the capture down, or raises: the
decision and the write of the flag are two steps (`TrackStartCheck`, `TrackStartUndo`), and
systemd may bring the capture up with the flag between them.

*Run.* `cameras`, part "settings". `RunsWhatFilesSay`: with no request in progress, what
streams is what the files state and the control's flag is the file's. Two exceptions are the
code's own failures. `spoiled`: overlapping writers lose a change, or a tracking request was
cut off by a restart of its process. `unmet`: a restart failed, or a start of
tracking was taken back, and the capture's process has not been replaced since; the code
leaves such a process with the former settings, and only its settings are excepted, not the
control's flag. Both are wider than need be: what was lost or left may have changed nothing.
Without either, TLC refutes the property, and `PROJECT.json` lists the places.
`SettingsStream`: after cameras come and go, approvals change and processes are killed, the
board streams, unless the last restart asked for failed. `CameraKept` (tracking
never changes the camera) is refuted: a `set_camera` that falls between tracking's read
and its write of the environment file is undone.

### 2.9 TrackTap

*State.* The control's flag and `seq`, the target file, each page's click in progress, the
tap's last `seq` and tracker, the object, posts on the way, what the page shows.

*Run.* `cameras`, part "track": `TapFollowsLastClick`, through restarts of the tap,
jumps of the object and posts that overtake each other. Two clicks handled at once
read one `seq` (`overlap`) and are excepted; with them the property fails. Its safety
half, `TapHasLastClick`, is proved (section 3), not run.

### 2.10 LowerCam and OneCamera

*State.* Each unit's place in systemd (`Conflicts=` stops one when the other starts), the
process's step up to its signal handler, the session marker, and the server's
handlers, its record of previews and the watchdog's copy of it.

*Run.* `cameras`, part "lower": `LowerCam` implements `OneCamera` (`ImplementsCamera`):
one mode holds the camera at a time, and recordings lie inside a session whose
length is bounded from its beginning. The mapping takes the mode from who holds the camera
and the session from the marker. `CeilingHolds` bounds what one press of REC records
through crashes; `UnseenPreviewStops` says the watchdog ends a preview nobody
looks at, unless the preview escaped its record (`leaked`: restarted after
the watchdog copied, as `PROJECT.json` lists). That a preview may end a recording
(`Conflicts=`, and a check that is stale by then) is allowed by `OneCamera`. `StopClosesSession` (a stop ends the session) is refuted: a
SIGTERM before the handler is installed leaves the marker.

### 2.11 GpsHub

*State.* The dish's thread with its poll, retry and failures, the position stored and
the verdict on it (two critical sections, hence two actions), block and forecast,
manual points, the last sentence of the other receiver, and the source chosen. A failure is
written to the log before it is registered, and when that raises, again by the handler around
it: then the thread sleeps five seconds (`nap`) with the failure uncounted, or, when that write
raises too, ends (`dead`) with what it stored still in use (`LogFails`).

*Run.* `links`, part "gps". `StarlinkIsRecent` bounds the age of a position of the dish
that is sent, with a request and the pause more for each failure that was not registered
(`missed`); `JumpsAreBlocked`: after a jump was judged none is sent for the whole
block, and that of a dead thread too; `GpsReturnsToStarlink`: a dish that answers is used again. A
thread that has ended is excepted from the first and the last: its position is sent for ever
and the dish not asked again, and `PROJECT.json` lists the place. Three faults and a threshold
of two let a failure be registered, one be missed and one more come. `NoJumpIsSent` is
refuted between storing and judging. Seconds are scaled down, keeping the order: a
block outlasts a forecast, a retry outlasts a poll.

### 2.12 AdaptiveBitrate

*State.* The controller's fields in whole units, and a link: capacity, buffer, a
satellite's gap every fifteen seconds. It is the link of the code's own tests.

*Run.* `links`, part "bitrate": fifteen seconds after the link last changed the bitrate
uses most of what it carries (`FollowsLink`) with a short queue (`ShortQueue`), together `BitrateFits`. Changes
of the link fall on every tenth tick (`Step`), two changes and one burst of losses. The
code's floating point is thousandths here, which may differ by one unit. `TypeOK` says
more than types (the backlog fits in the buffer, the queue the controller computes is one
the buffer can hold) and `MovesForAReason` when the bitrate may change; both are proved,
for every target, floor, window, set of lines (`Kinds`) and set of capacities.

### 2.13 FireDevice

*State.* Bytes of a frame yet to be sent, bytes on the line, `uart.read(3)` so far, the
last status shown. The CRC is the code's algorithm bit by bit, on numbers below 256.
`Documented` are the statuses of the protocol: the states and errors the daemon names.

*Run.* `links`, part "fire": one lost byte never makes the daemon show a state that never
was (`LossShowsNoFalseState`; two can, as the comment shows), and it finds the frames
again (`FireResyncs`). The firmware's two ways of computing the CRC are both taken. TLC
also evaluates `FramesTell` of `MC_Links`: `Tells` holds of each of the 360 documented
statuses, that is, its frame has no second 0xFF, and its frame without the state byte does
not pass the CRC with the header that follows. The run explores a few of the statuses,
the proof (3) has all of them.

### 2.14 BoardUpdate

*State.* The server's cache (`.tmp` and final file with who opened them), each push, the
transient unit's script step by step, the status file, the version in the
environment file and of the code, the manager, and the server's row.

*Runs.* `services`, part "update": `PackageIsWhole` unless two builders wrote one file,
`StatusIsTrue` unless the script was cut off, `UpdateVersionIsReported`.
`board_update_stranded`: `ManagerComesBack` **fails** when an installer fails or the
boot configuration changed. `install_rpi.sh` may fail at each of its steps (`InstallFails`),
before it stops the manager or after; the early refusals of `apply_update.sh` (its arguments,
the environment file, the server's address) are one, `failed_no_env`, as nothing tells them
apart.

### 2.15 Vision

*State.* Each worker's place in its loop, `_stop_event` and capture, the supervisor's
table and lock, Flask threads, late posts, what the server shows.

*Run.* `services`, part "vision": `NoOrphan` and `VisionShowsWhatRuns`. `stop` and `switch`
wait five seconds for a thread that may take longer, so two workers of one board do
post at once; the page ends with the one that runs.

### 2.16 Recorder

*State.* `_active`, each ffmpeg with its file, who sleeps under the lock, each HTTP
thread, the files there are. A file is named after its stream's directory and the
second of its start, so a name is a pair.

*Run.* `services`, part "recorder": `RecordingsAreKept` and, in `NoOrphan`, that every
ffmpeg can be stopped. Two boards, since a board whose stream is not published
resolves to the only one that is; two seconds and three recordings. The first
property excepts recordings of one name: without that, TLC shows a start that fails
removing the file of a recording stopped within the same second.

### 2.17 VideoPlayer

*State.* The global `pc`, each call of `connectStream` at the await where it is, the
connection it made, the timers, the lower camera's known and real state, the awaits of
the other handlers. JavaScript runs one piece at a time, so an action is what runs up to
the next await. A call that was superseded works on whatever `pc` is by then, and its
catch closes it: the code guards the events of a former connection (`pc !== myPc`), not
the awaits.

*Run.* `pages`, part "player": `PlayerReturns`. A camera that stays published is seen in
the end (`PictureReturns`), unless the player told the user that a switch or a preview
failed, after which the code does not try again; and a lower camera that records shows no
dead picture (`RecordingIsBlocked`). The one second of `reconnectTimer` may pass in the
middle of a call, and calls then cross as they do by clicks. The property asks that this ends
some day (`Crosses`): while calls outlast the timer for ever, TLC refutes it, as the
superseded call's catch closes the new connection and schedules the next. Which main camera
is shown is not said: a late `loadStreamInfo` may bring the former one.

*Bounds.* Two calls, two clicks, one fault; the second fault of a kind meets the same
states, since every path ends in `connectStream`. *Fairness.* Requests are answered and
timers fall due; sources owe nothing, the property asks for one that stays.

### 2.18 LiveTelemetry

*State.* The requests that wait for gunicorn's threads, each POST step by step (rows, a
copy of the subscribers, the puts it still owes), each stream's queue, thread and
connection, and what the page shows of the two axes of a position.

*Run.* `pages`, part "live": `LiveServesAndShows`. Streams of broken connections hold
their threads until a ping fails; with that, every batch is served in the end
(`ServesIngest`; the mutant is `get()` without its timeout). `ShowsLast`: a full queue
loses the older messages and the page ends with the last published message of each axis, and
with both of one position. Streams whose put, get and second put were interrupted (`raced`)
are set apart: no lock holds the three, and the newest message may be lost. Streams that two
publishers had in their copies at once (`overlapped`) may end with an axis of each; TLC finds
it, and for them only the first half is stated. Two instances: in "live" two threads, of
which the page holds one, and three streams of which two break; in "busy" three threads, one
stream and two publishers beside it (a batch the board gave up is still served). Queues hold three
messages.

*Fairness.* Threads run, and the system gives up what is never acknowledged.

### 2.19 BoardManager

*State.* What systemd says of each unit and the starts queued behind a stop, the
manager's process, and what each thread's request still has to do: the services left
(`calls`) and the `systemctl` calls and waits of the service it is at (`steps`). A
restart is a stop and a start, the dependencies first; the chain of the video waits
for each service before the next.

*Run.* `services`, part "units": `UnitsStayUp`. In the end every service of the boot
sequence runs but those somebody stopped, those skipped because a dependency was found
down, and those of a request that a call of twenty seconds ended (`TimeoutExpired` is
caught nowhere, so a restart whose stop is slow leaves the service stopped). Without the
last two exceptions TLC refutes it. The mutant boots only when nothing runs yet: a
manager killed half-way through then leaves the rest down.

*Bounds.* Four services with a chain of three and a unit pair, two requests at once and
one fault. *Fairness.* systemd restarts what fails and ends what it stops, threads run.

## 3. What is proved

`MeshGroupsProofs` proves, for any number of threads, boards, users, groups and
claims and any limit:

| Theorem | Statement |
|---|---|
| `TypeCorrect` | `Spec => []TypeOK` |
| `MembersAreLive` | `Spec => []MembersOfLiveGroups` |
| `LimitHolds` | `Spec => []GroupWithinLimit` |
| `SerialMembershipHolds` | `PartsSpec => []SerialMembership` |
| `OneThreadKeepsCustody` | `Init /\ [][Step(t1)]_vars => [](OwnersMatch /\ KeyCustody)` |
| `MembershipImplemented` | `PartsSpec => ImplementsMembership` |
| `IdealIsSafe` | `Ideal!Spec => []Ideal!OwnGroupOnly` (`Ideal` is `Membership` with variables of its own) |

Assumptions: `GroupsAssumption` in `MeshGroups` (finitely many boards, NULL is not an
id, at least one version, the limit is a natural number); for the theorems about one thread
`ServesOne` in `MC_MeshGroups` (`t1` is one of the threads).

*Argument.* `TypeOK` is not inductive: it allows a request at "detach.clear" with no
board. `TypeInv` adds `RequestInv` (a request at a label that uses a board or group
has one; only three labels are returned to) and `ClaimInv` (a pending claim has a
board). Lemma `RequestStep` treats the requests action by action, `TablesStep` the
tables. For the two safety theorems `MoveStep` shows that only the guarded UPDATE
gives a board a group; `AddStep` that this UPDATE keeps the limit and names
a live group; `LiveStep` that no other step removes a group or row from under a
member. `LimitHolds` uses the cardinality theorems of the library for the single board added.

`SerialMembership` speaks of the rests between requests, so `SerialInv` says what
holds inside one. `OwnersInv`: every board has its group's owner, except the board of a
request between the UPDATE of the owner and that of the group. `KeysInv`: a board that
knows the present key of a group is in it, except the board of a request between the two
UPDATEs of `_detach`. `KnownInv`: no board knows a key of a group not created yet, or a
version not drawn yet, so a rotated key is new to everyone. `SerialRequest`: what the
request read and still relies on is true (the compared owner, the group being left, the
group a sync will answer for, a deleted board in no group). It also needs
`MembersOfLiveGroups`: a board without a row is in no group. `CalmStep` covers the steps
outside the two exceptions that leave groups, owners and keys alone; `SerialGroups`,
`SerialOwner`, `SerialDetach`, `SerialRows` and `SerialSync` the others, one case per
transaction. `OneThreadKeepsCustody` says the same of any behaviour with one thread; with
two it is false, as `mesh_groups_owner_race` shows: another request can falsify what
`SerialRequest` says of this one.

`MembershipImplemented` is the refinement step by step, from the same invariant and
`LiveOwned` (a live group has an owner). Its key is `OwnerIs`: by `OwnersInv` the mapped
owner of a board in a group is the group's owner in every state, not only in the ones
where the mapping says so. `NothingShown` then gives the stutters (`BeginShown`,
`ColumnsShown`, `ReadsShown`, `ClearShown`, and an owner written over a board in a
group), and each of the others is one action of `Membership`: `DetachRotate` is `Leave`
(`KnownInv`: nobody knows the new key), `AddUpdate` is `Join` or a stutter, `CreateGroup`
is `Create` (no board knows a key of a new group), `DeleteGroupRows` is `Delete` or finds
no row, `SyncAnswer` is `Learn` or a stutter, `SetOwner`, `RegisterCreate` and `DeleteRow`
are `SetOwner`. `IdealIsSafe` says what is gained: in `Membership` the promise "only in
a group of its own owner, with no other group's key" is an invariant of every state,
with no exception for requests in progress.

`CrsfBridgeProofs` proves, for any timeouts and any size of the socket:

| Theorem | Statement |
|---|---|
| `TypeCorrect` | `Spec => []TypeOK` |
| `PortReleased` | `Spec => []PortOnlyInCrsf` |
| `FramesAreRecent` | `Spec => []SticksAreRecent` |

Assumption: `BridgeAssumption` (the timeouts and sleeps are positive, the default
mode is a mode).

*Argument.* None of the three is inductive. `HandleInv` adds that a process outside
its loop holds no handle, so a restart into MAVLink mode finds none.
`SticksAreRecent` speaks of a frame, which is made from `channels`, which come from
the socket: `WaitingInv` bounds how long datagrams wait (a running bridge empties
the socket in each pass; during a sleep they age as the sleep runs down),
`ChannelInv` carries this to the sticks the bridge holds (while they count as
fresh, their age exceeds the time since they were read by a sleep at most), and
`FrameStep` to what is written. Each is one lemma over the actions.

`TelemetrySenderProofs` proves, for any sizes of the deque and of a batch (also a
batch larger than the deque), any number of messages and of restarts:

| Theorem | Statement |
|---|---|
| `TypeCorrect` | `Spec => []TypeOK` |
| `LittleLeft` | `Spec => []StoppedHoldsLittle` |
| `OrderKept` | `Spec => []InOrder` |
| `NeverTwice` | `Spec => []SentOnce` |
| `NoOtherLoss` | `Spec => LossExplained` |

Assumption: `SenderAssumption` (the sizes are positive).

*Argument.* `LabelInv` ties the labels to `_active` and the batch: without it
`TypeOK` would let a batch outgrow its limit in `Pop`, and `StoppedHoldsLittle`
would not survive a change of `_active`. `InOrder` and `SentOnce` follow from
`OrderInv`: batch and deque increase, everything in the batch lies before
everything in the deque, the message on its way is the newest, nothing answered is
held. The lemmas from `AppendOrder` to `PushFrontOrder` say once, for each
operation on a sequence, what becomes of its range and its order, so that the
actions are argued with sets. `SentOnce` needs the order: what has been answered for
was the batch, which shares nothing with the deque. `NoOtherLoss` is an action
property: `StepExplained` shows for each action that the range of batch and deque
loses nothing, or one element of a full deque, or that the step is one of the three.

`LinksProofs` proves, for any poll, deadline, threshold, block, forecast and window, and for
any of the documented statuses of the fire device, any length of its line and any number of
changes and restarts, and for any target, floor and window of the bitrate, any set of lines
and any set of capacities:

| Theorem | Statement |
|---|---|
| `GpsTypeCorrect` | `GpsHubAssumption /\ Spec => []TypeOK` |
| `JumpsStayBlocked` | `GpsHubAssumption /\ Spec => []JumpsAreBlocked` |
| `PositionsAreRecent` | `GpsHubAssumption /\ Spec => []StarlinkIsRecent` |
| `FireTypeCorrect` | `PartsSpec => []Fire!TypeOK` |
| `NoFalseState` | `PartsSpec => []LossShowsNoFalseState` |
| `BitrateTypeCorrect` | `PartsSpec => []Bitrate!TypeOK` |
| `BitrateMoves` | `PartsSpec => [][Bitrate!MovesForAReason]_bitrate` |

Assumptions: `GpsHubAssumption` (the periods are positive, a poll is no longer than a
retry), a hypothesis of each theorem about the positions; for the fire device `FireBounds` (statuses
and bits are those of the protocol) and `FramesTell` (2.13), which is a fact about 360
closed terms: TLC computes it, the provers cannot. `MC_Links` has TLC evaluate all of them. For the
bitrate `BitrateBounds` (the floor is at most the target, as the constructor makes it; lines
and capacities are positive).

*Argument.* The choice reads only the last verdict, so `BlockCoversCalm` ties the
verdict to the time since the jump: while that is short of the block, what remains of
the block makes up the difference and the dish is not stable. `AgeInv` accounts for
the age of a position: one round of poll and deadline per failure, and the time since
the last request ended; it needs the cases of the thread's labels because a slow
request shortens the wait that follows it. A failure that was not registered leaves the count
as it is, so the rounds spent are those counted and those `missed` (`Spent`, `Unlogged`), and
each of the latter costs the pause as well (`NapSpends`). Of a thread that has ended nothing is
claimed.

`LossShowsNoFalseState` is about the frame just accepted, so `FireInv` is about all bytes not
yet judged, in one sequence: the header and bytes `uart.read(3)` has, those on the line,
those the device has yet to send (`Pending`). Every 0xFF in it stands before three bytes
of one frame the device sent, or, once a byte is lost, before two of them and the next
header (`FramesIn`). A byte that moves from one part to the next leaves `Pending` as it is; a
header is dropped with its three bytes or skipped, which only shortens it; a new frame is
appended where the last one ended; the loss removes one byte somewhere. A restart forgets
the daemon's part, and headers are all that the rest is judged by. By `Tells` a frame cut
by the loss does not pass, and one that passes shows its own state.

The bitrate's type is inductive only with what the window is worth: each known round trip is
at least the line's own, the window holds the last one, so the base lies between the two
(`BaseWithin`) and the queue above it is one the buffer can hold, as the backlog fits in
the buffer of whatever the capacity has become. `Measured` collects what a tick's signals
then are, `RateMoves` and `KeptTyped` what each of the six decisions makes of them; the
arithmetic is in `DivBound`, `ShareOfRate` and `SetKeeps`. `BitrateMoves` follows: an estimate is a
share of the rate, so a cut lowers it and a drain halves it at most.

The theorems from here on are about `PartsSpec`, the specification the run checks, and
state the properties by the names the run gives them: an MC module's constants, which its
cfg makes small, are arbitrary in the proof.

`RcSessionProofs` proves, for any number of HTTP threads, sessions and loops of the page, any
timeouts and any number of losses and restarts:

| Theorem | Statement |
|---|---|
| `RcTypeCorrect` | `PartsSpec => []Rc!TypeOK` |
| `EndsClean` | `PartsSpec => []RcEndsClean` |
| `FcFollowsRecent` | `PartsSpec => []RcSticksAreRecent` |
| `PanelTypeCorrect` | `PartsSpec => []Panel!TypeOK` |
| `PanelHasLoop` | `PartsSpec => []Panel!ArmedHasLoop` |

Assumption: `SessionAssumption` of `RcSession` (None is no session, the timeouts are
positive and ordered as in the code) and `ControlPanelAssumption` (the bounds are natural
numbers), which `MC_Sticks` restates of its instances.

*Argument.* "No thread is left" cannot be read off the table: an old session's loop
outlives its entry. The invariant therefore says, for everything that outlives a
request, who will clear it: a loop that may still send belongs to the table's session or to
a request about to stop or join it (`AliveIsOwned`), `running` to the table or a request
about to clear it (`RunningIsOwned`), an override the flight controller holds to the table
or a request that has yet to release it (`HeldIsOwned`); and a session in the table has
had its thread, rests when it was abandoned, and is not the one being stopped
(`WasStarted`, `AbandonedRests`, `LeftTable`). With no request and no session nothing is
owned, hence nothing is held. `FcFollowsRecent` rests on `AgeIsSilence`: what is
held grows old only with the time since its frame. `PanelHasLoop` needs one fact more,
`ActiveIsFed`: while the flag is set, whatever the page shows, some loop is between two
sticks. A loop leaves off only when it finds the flag cleared, and clearing the flag either
disarms the panel at once or is done by a loop that goes on to disarm it. A panel that is
armed with the flag cleared, its former loops still turning, does occur: the refusal of
an old stick ends a new session.

`MeshBoardProofs` proves, for any number of boards, endpoints, networks and changes:

| Theorem | Statement |
|---|---|
| `UplinkTypeCorrect` | `PartsSpec => []TypeOK` |
| `RelaysStayTrue` | `PartsSpec => []RelaysAreTrue` |
| `AgentTypeCorrect` | `PartsSpec => [](Agent!TypeOK /\ Writing)` |
| `OneNetwork` | `ASSUME StopsInOnePass PROVE PartsSpec => []RunsOneNetwork` |

Assumptions: `UplinkAssumption` and `AgentAssumption`; for `OneNetwork` also
`StopsInOnePass`, without which TLC refutes it (2.2).

*Argument.* `RelaysAreTrue` says nothing of what a board has heard. `RelayIsLive` adds that
a relaying watchdog runs, knows an endpoint and relays through another board, and
`UselessIsYoung` that the seconds a gateway has been useless are at most those since its
last good beacon, and fewer than `Stale` once the pass of this second is over: a beacon
resets both counts, a second lengthens both, and the pass that finds the beacon stale
leaves the gateway. `OneNetwork` follows the files through the steps that write them:
`FilesMatch` says what each of them holds at each `pc` of the agent, `KeyAfterEnv` that
the script reads the environment before the key, `RunMatches` that while no restart is
due it has read nothing but the agent's network, `NoMesh` that a board in no network has
no unit up but in the pass that takes it down, and `StopsInPass` (by the hypothesis) that
a unit told to stop has ended before the agent's next pass.

`CamerasProofs` proves, for any number of tabs, cameras and modes, any ceiling, and any
number of requests and faults:

| Theorem | Statement |
|---|---|
| `LowerTypeCorrect` | `PartsSpec => []Lower!TypeOK` |
| `CeilingKept` | `PartsSpec => []CeilingHolds` |
| `CameraImplemented` | `PartsSpec => ImplementsCamera` |
| `VideoTypeCorrect` | `PartsSpec => []TypeOK` |
| `RunsTheFiles` | `PartsSpec => []RunsWhatFilesSay` |
| `TapTypeCorrect` | `PartsSpec => []Tap!TypeOK` |
| `TapFollowsAnswer` | `PartsSpec => []Tap!TapHasLastClick` |

Assumptions: `LowerCamAssumption`, `VideoBoardAssumption` (a camera's best mode is one
of its modes, a mode is a format and a size) and `TrackTapAssumption` (the bounds are
natural numbers, `None` is none).

*Argument.* The invariant of the lower camera, `LowerInv`, adds four facts: at most one
unit holds the camera (`OneHolds`, from `Conflicts=`); a recording that runs has its
marker, and what is left of its time and the marker's age make at most a ceiling
(`Counted`); one that is being stopped has it until its signal handler is through
(`EndIsMarked`); and until the unit is dead the time recorded since REC was pressed is
no longer than the marker's age, or the marker is used up (`SpanInMarker`), which is why
a crash cannot start the count anew. `CameraImplemented` is
the refinement step by step: `CameraRefines` shows for each action of units, handlers, server
and clock that `[OneCamera!Next]` holds of the mode and the marker: `Take` when
the camera is opened, `Leave` when a unit fails or a preview ends, `Open` and
`Close` for the marker, `Tick` and `PowerOff`, and a stutter for everything else.

For `RunsTheFiles` the invariant says what the exceptions of the property hide: what a
capture has read is what the file says, *or* the writer of the file has yet to restart it
(`EnvFresh`, `ModeFresh`), and the control's flag equals the file's except between
the steps of a start or a stop, at each of which both are known (`FlagKept`). Each
holds as long as no write undid another's, and `SpoiledStays` says that this is not
forgotten. The first two also hold only while no restart has failed and no start was taken back
since the capture's process began (`unmet`, which `Exec` alone clears); the flag's does not
need that. That no writer lacks its restart, and that all read `.env` after the last
write of it, is the content of the lemmas named `...Fresh`.

For `TapFollowsAnswer` the invariant follows the `seq` from click to tap: the file holds
what was answered last, and one without an answer is the cleared one
(`FileHoldsAnswer`); with no two clicks at once, the click in progress carries the `seq`
after the file's (`NextSeqPending`), even one left from an earlier tracking, which is
why `ClearTarget` counts it; and the tap of a tracking that is on is behind the file or
follows its click (`TapLagsOrFollows`). The last also needs that nothing is on while
a start or a stop is under way, because the file may then go back to 0 under a tap that
still runs.

`ServicesProofs` proves, for any number of threads, commits, workers, boards, recordings
and seconds, and any number of pushes and faults:

| Theorem | Statement |
|---|---|
| `UpdateTypeCorrect` | `PartsSpec => []TypeOK` |
| `PackagesAreWhole` | `PartsSpec => []PackageIsWhole` |
| `StatusTellsTheTruth` | `PartsSpec => []StatusIsTrue` |
| `VisionTypeCorrect` | `PartsSpec => []Vis!TypeOK` |
| `FilesAreKept` | `PartsSpec => []RecordingsAreKept` |
| `NothingOutOfReach` | `PartsSpec => []NoOrphan` |

Assumptions: `BoardUpdateAssumption` (commits are numbered from 1) and `ServicesBounds`
(`None` is no number, capability, board or thread; the bounds are natural numbers).

*Argument.* A package is whole because its builder is alone: `Package` says that no two
threads build one package (`OneBuilder`), that a builder's handle leads to the file it
opened last (`WritesItsFile`), and that what it renames is whole. It holds as long as
`shared` is false, and `SharedStays` says that this is not forgotten. `StatusIsTrue` is
nearly inductive; `CodeIsIts` adds that from the installation of the modules on the
code in place is the script's commit. For the vision workers, a thread that joins the
former worker holds the lock and has told it to stop (`SwitchHoldsLock`): the new worker
therefore takes nobody's place who still runs unasked. For recordings, the thread that
waits for its ffmpeg holds the lock while its board has none that runs
(`SettlesAlone`), and an entry is a recording of its board (`EntriesMatch`), so that
handing a new recording over drops no other; `Begun` keeps the file names of recordings
apart from the blank ones, and a file that is removed with a failed start
belonged to two recordings of one name.

`StoppedHoldsLittle` (a stopped stream holds at most a batch and a message, although
the stop "clears buffer"), `ArmedHasLoop` and `TapHasLastClick` are proved only; TLC agreed
with them while the proofs were written, as it did with every inductive invariant above.

*Only model-checked.* `BitrateFits`, which is where the closed loop comes to rest: a fact of
arithmetic about one controller and one link, and hold of these constants, not of all; and all liveness
(`AgentConverges`, `UplinkSettles`, `BridgeKeepsSending`, `RcFollowsPilot`,
`PanelAgrees`, `Drains`, `SettingsStream`, `PlayerReturns`, `LiveServesAndShows`,
`UnitsStayUp`, `TapFollowsLastClick`, `UnseenPreviewStops`, `GpsReturnsToStarlink`,
`FireResyncs`, `UpdateVersionIsReported`, `VisionShowsWhatRuns`): liveness under
fairness is beyond this prover.

## 4. Disagreements found

With a run:

| Run | Code | Documentation |
|---|---|---|
| `mesh_groups_owner_race` | ownership is checked before, not in, the UPDATE | "a board is only in a group of its own owner" (`CHANGELOG.md:105`) |
| `crsf_reconnect` | after one failed reopening the UART is never opened again | "reconnects the UART on input/output errors" (`crsf_bridge.py:10`) |
| `telemetry_flush` | `clear()` between the emptiness test and `popleft` ends the sending thread | "send_worker: every BATCH_INTERVAL, flushes queue to server" (`telemetry_sender.py:70`) |
| `board_update_stranded` | a failing installer, or a changed boot configuration, leaves the manager stopped | "install_rpi.sh restarts sirena-manager.service itself at its end" (`updater.py:9`) |

Refuted by TLC, kept as a commented property of the module without a run:

| Property | Code | Documentation |
|---|---|---|
| `MeshAgent!RenameIsQuiet` | a rename restarts the mesh of every board (`mesh_agent.py:281`) | "boards apply nothing" (`mesh_group_service.py:104`) |
| `UplinkFailover!RelaysToEndpoint` | the route stays with the former endpoint (`uplink_watchdog.py:513`) | "route to the WG endpoint through a live neighbour" (`uplink_watchdog.py:17`) |
| `VideoBoard!CameraKept` | a start of tracking may undo `set_camera` (`supervisor.py:321`) | tracking does not change VIDEO_DEVICE (`control.py:16`) |
| `LowerCam!StopClosesSession` | a stop before the signal handler leaves the marker | a stop removes the marker (`lowercam_capture.py:37`) |
| `GpsHub!NoJumpIsSent` | stored and judged in two critical sections (`main.py:508`) | "Starlink(stable)" (`main.py:24`) |
| `ControlPanel!OneStickInFlight` | a stopped loop revives when confirmed at once (`_control_panel.html:686`) | `scheduleStickLoop` guarantees one request at a time (`_control_panel.html:650`) |
| `ControlPanel!HiddenDoesNotDrive` | a confirmation answered after hiding arms the page (`_control_panel.html:615`) | hiding the page ends control (`control_service.py:200`) |

## 5. Plan

Done: the modules above. Left, in this order:

1. A crash between two transactions of a request in `MeshGroups`; `MeshFleet`:
   `MeshGroups` composed with one `MeshAgent` per board.
2. `MavRouter`: learned clients and the framing of the serial stream.

## 6. Not modelled, and why

- *Most of the remaining lines are numeric or presentation*: the inertial analysis
  (`vision_module/inertia`, about a fifth of the Python code: filters, plots,
  experiments over recorded flights), the pages' drawing, and the text of pipelines.
  The modules map about a sixth of the repository's lines; they are the lines that
  hold state that outlives a call, and most of what is left has none.
- *Radio and kernel*: 802.11s path selection, NAT and marks, wpa_supplicant: external,
  replaced by their outcome.
- *Numeric code*: filters of the GPS, video decoding, detection.
- *Installation scripts and CI*, other than what an update depends on.
- *Server fields nothing reads back*: notes, frequencies, heartbeat columns.
- *The cached MAVLink connection of a board whose address changes*
  (`control_service.py:102`): the boards of the models keep their addresses.
- *Crashes of the server in the middle of a handler*: between the transaction that takes a
  board out of a group and the one that replaces the key (`mesh_group_service.py:149`) they
  would leave the key unreplaced; the models assume a handler that started runs on.
- *Reports of the pixel tracker to the vision ingest* (`track_tap.py`): the page shows them
  from the same table as the workers' results; `TrackTap` follows them, `Vision` has the
  workers alone.
