------------------------------ MODULE LowerCam -------------------------------
(***************************************************************************)
(* The lower camera of a board: two systemd units that exclude each other   *)
(* (Conflicts=), each running lowercam_capture.py in its mode, and the      *)
(* admin server's handlers and watchdog that start and stop them.           *)
(*                                                                          *)
(* A tick is long against the start of a process (seconds) and short        *)
(* against the recording's ceiling and the preview's idle limit.            *)
(***************************************************************************)
EXTENDS Naturals

CONSTANTS
    Tabs,         \* browser tabs whose requests the server handles at once
    Ceiling,      \* SIRENA_LOWERCAM_RECORD_S
    Idle,         \* PREVIEW_IDLE_STOP_S
    None,
    MaxRequests,  \* bound: requests of the tabs
    MaxFaults     \* bound: crashes, lost calls, restarts

LowerCamAssumption ==
    /\ Ceiling \in Nat \ {0} /\ Idle \in Nat \ {0}
    /\ None \notin Nat
    /\ MaxRequests \in Nat /\ MaxFaults \in Nat

VARIABLES
    st,       \* state of a unit: "dead"; "boot" and "open" (the process has started, and
              \* has read the session; no signal handler yet); "run" (holds the camera);
              \* "end" (SIGTERM handler at work); "wait" (RestartSec)
    again,    \* a start job waits for the unit to finish ending
    marker,   \* SESSION_MARKER: ticks since its time, at most Ceiling; None if there is no file
    missing,  \* the camera is not listed any more
    left,     \* what `rpicam-vid -t` has left to record
    watched,  \* _watched: ticks since last_seen, at most Idle; None if not watched
    dog,      \* watchdog: "sleep", "look" (items copied), "stop", "pop"
    copied,   \* the last_seen in the watchdog's copy
    viewers,  \* MediaMTX counts readers
    tab,      \* request of a tab: "idle", "call" (preview allowed), "watch" (answer came),
              \* "unseen" (preview_stop popped), "record" (record_start popped)
    span,     \* history: ticks since the first process a request started read the session
    leaked,   \* history: how a running preview may have escaped the watchdog
    requests, faults

unit == <<st, again, marker, left, span>>
server == <<watched, dog, copied, tab, leaked>>
vars == <<unit, server, viewers, missing, requests, faults>>

Units == {"preview", "record"}
Other(u) == IF u = "preview" THEN "record" ELSE "preview"
Alive(u) == st[u] # "dead"
Holds(u) == st[u] \in {"run", "end"}

TypeOK ==
    /\ st \in [Units -> {"dead", "boot", "open", "run", "end", "wait"}]
    /\ again \in [Units -> BOOLEAN]
    /\ marker \in 0..Ceiling \cup {None}
    /\ left \in 0..Ceiling /\ span \in 0..(Ceiling + 1) \cup {None}
    /\ watched \in 0..Idle \cup {None} /\ copied \in 0..Idle \cup {None}
    /\ dog \in {"sleep", "look", "stop", "pop"}
    /\ viewers \in BOOLEAN /\ missing \in BOOLEAN /\ leaked \in BOOLEAN
    /\ tab \in [Tabs -> {"idle", "call", "watch", "unseen", "record"}]
    /\ requests \in 0..MaxRequests /\ faults \in 0..MaxFaults

Init ==
    /\ st = [u \in Units |-> "dead"]
    /\ again = [u \in Units |-> FALSE]
    /\ marker = None /\ left = 0 /\ span = None
    /\ watched = None /\ copied = None /\ dog = "sleep" /\ viewers = FALSE /\ missing = FALSE
    /\ tab = [t \in Tabs |-> "idle"]
    /\ leaked = FALSE /\ requests = 0 /\ faults = 0

-----------------------------------------------------------------------------
(* systemd: one service of sirena_manager is one unit here. *)

Stopping(s) == CASE s \in {"run", "end"} -> "end" [] OTHER -> "dead"

\* `systemctl start`: Conflicts= stops the other unit in the same transaction, unordered.
Start(u) ==
    /\ st' = [st EXCEPT ![u] = IF @ = "dead" THEN "boot" ELSE @, ![Other(u)] = Stopping(@)]
    /\ again' = [again EXCEPT ![u] = st[u] = "end", ![Other(u)] = FALSE]
    /\ span' = IF u = "record" /\ st[u] = "dead" THEN None ELSE span
    /\ UNCHANGED <<marker, left>>

\* Slip: the marker is removed before rpicam-vid has ended.
SlipStop(u) ==
    /\ st' = [st EXCEPT ![u] = Stopping(@)]
    /\ again' = [again EXCEPT ![u] = FALSE]
    /\ marker' = IF u = "record" THEN None ELSE marker
    /\ UNCHANGED <<left, span>>

Stop(u) ==
    /\ st' = [st EXCEPT ![u] = Stopping(@)]
    /\ again' = [again EXCEPT ![u] = FALSE]
    /\ UNCHANGED <<marker, left, span>>

\* Restart=on-failure after RestartSec; the restart job, too, stops the other unit.
AutoRestart(u) ==
    /\ st[u] = "wait"
    /\ st' = [st EXCEPT ![u] = "boot", ![Other(u)] = Stopping(@)]
    /\ again' = [again EXCEPT ![Other(u)] = FALSE]
    /\ UNCHANGED <<server, viewers, missing, marker, left, span, requests, faults>>

Become(u, s) == st' = [st EXCEPT ![u] = s]

-----------------------------------------------------------------------------
(* lowercam_capture.py record. *)

\* Slip: a restarted capture records the whole ceiling again.
SlipRemaining == Ceiling

Remaining == IF marker = None THEN Ceiling ELSE Ceiling - marker

\* _remaining_seconds, and the end of a session that has used up its ceiling.
ReadSession ==
    /\ st["record"] = "boot"
    /\ IF Remaining = 0
         THEN marker' = None /\ Become("record", "dead") /\ UNCHANGED left
         ELSE /\ marker' = IF marker = None THEN 0 ELSE marker
              /\ left' = Remaining
              /\ Become("record", "open")
    /\ span' = IF span = None THEN 0 ELSE span
    /\ UNCHANGED <<server, viewers, missing, again, requests, faults>>

\* The disk has room for all, for a part (`fit`) or for less than 30 s of the recording.
CheckDisk ==
    /\ st["record"] = "open"
    /\ \/ left' \in 1..(left - 1) /\ UNCHANGED <<st, marker>>
       \/ marker' = None /\ Become("record", "dead") /\ UNCHANGED left
    /\ faults < MaxFaults /\ faults' = faults + 1
    /\ UNCHANGED <<server, viewers, missing, again, span, requests>>

\* rpicam-vid is started: without its camera, or while the other unit holds it, it fails.
OpenCamera(u) ==
    /\ st[u] = IF u = "record" THEN "open" ELSE "boot"
    /\ Become(u, IF missing \/ Holds(Other(u)) THEN "wait" ELSE "run")
    /\ UNCHANGED <<server, viewers, missing, again, marker, left, span, requests, faults>>

\* rpicam-vid or ffmpeg fails, or the process is killed.
Fail(u) ==
    /\ st[u] \in {"boot", "open", "run"}
    /\ Become(u, "wait")
    /\ faults < MaxFaults /\ faults' = faults + 1
    /\ UNCHANGED <<server, viewers, missing, again, marker, left, span, requests>>

\* rpicam-vid returns 0 at its time: the session is over.
Finish ==
    /\ st["record"] = "run" /\ left = 0
    /\ marker' = None /\ Become("record", "dead")
    /\ UNCHANGED <<server, viewers, missing, again, left, span, requests, faults>>

\* The SIGTERM handler: it waits for rpicam-vid, and removes the marker of a recording.
Cleanup(u) ==
    /\ st[u] = "end"
    /\ marker' = IF u = "record" THEN None ELSE marker
    /\ Become(u, IF again[u] THEN "boot" ELSE "dead")
    /\ span' = IF u = "record" /\ again[u] THEN None ELSE span
    /\ again' = [again EXCEPT ![u] = FALSE]
    /\ UNCHANGED <<server, viewers, missing, left, requests, faults>>

-----------------------------------------------------------------------------
(* lowercam_control_service.py: the handlers, one step between two calls. *)

Request(t) == tab[t] = "idle" /\ requests < MaxRequests /\ requests' = requests + 1
Go(t, pc) == tab' = [tab EXCEPT ![t] = pc]

\* preview_start asks for the record unit; a unit that ends or waits for its
\* restart is not active, and a status call that fails has no "active" either.
PreviewAsk(t) ==
    /\ Request(t)
    /\ \/ st["record"] \in {"dead", "end", "wait"} /\ UNCHANGED faults
       \/ st["record"] \in {"boot", "open", "run"} /\ faults < MaxFaults /\ faults' = faults + 1
    /\ Go(t, "call")
    /\ UNCHANGED <<unit, watched, dog, copied, leaked, viewers, missing>>

\* Its answer may be lost after the unit was started: the preview is then not watched.
PreviewCall(t) ==
    /\ tab[t] = "call"
    /\ Start("preview")
    /\ \/ Go(t, "watch") /\ UNCHANGED <<leaked, faults>>
       \/ faults < MaxFaults /\ faults' = faults + 1 /\ Go(t, "idle") /\ leaked' = TRUE
    /\ UNCHANGED <<watched, dog, copied, viewers, missing, requests>>

PreviewWatch(t) ==
    /\ tab[t] = "watch"
    /\ watched' = 0 /\ Go(t, "idle")
    /\ UNCHANGED <<unit, dog, copied, leaked, viewers, missing, requests, faults>>

\* preview_stop and record_start take the board out of the watch first.
Unwatch(t) ==
    /\ Request(t)
    /\ watched' = None
    /\ \E pc \in {"unseen", "record"} : Go(t, pc)
    /\ UNCHANGED <<unit, dog, copied, leaked, viewers, missing, faults>>

\* The call that follows may be lost: the preview runs on without its watch.
UnwatchedCall(t) ==
    /\ tab[t] \in {"unseen", "record"}
    /\ Go(t, "idle")
    /\ \/ /\ IF tab[t] = "record" THEN Start("record") ELSE Stop("preview")
          /\ UNCHANGED <<leaked, faults>>
       \/ faults < MaxFaults /\ faults' = faults + 1 /\ leaked' = TRUE /\ UNCHANGED unit
    /\ UNCHANGED <<watched, dog, copied, viewers, missing, requests>>

RecordStop(t) ==
    /\ Request(t)
    /\ Stop("record")
    /\ UNCHANGED <<server, viewers, missing, faults>>

-----------------------------------------------------------------------------
(* _watchdog_loop. *)

Wake ==
    /\ dog = "sleep" /\ watched # None
    /\ copied' = watched /\ dog' = "look"
    /\ UNCHANGED <<unit, watched, tab, leaked, viewers, missing, requests, faults>>

\* Slip: every look counts as a sight of viewers.
SlipLook ==
    /\ dog = "look" /\ dog' = "sleep" /\ copied' = None
    /\ watched' = IF watched # None THEN 0 ELSE watched
    /\ UNCHANGED <<unit, tab, leaked, viewers, missing, requests, faults>>

\* Viewers refresh the watch if it is still there; without any, the copied time decides.
Look ==
    /\ dog = "look"
    /\ watched' = IF viewers /\ watched # None THEN 0 ELSE watched
    /\ dog' = IF viewers \/ copied < Idle THEN "sleep" ELSE "stop"
    /\ copied' = IF dog' = "sleep" THEN None ELSE copied
    /\ UNCHANGED <<unit, tab, leaked, viewers, missing, requests, faults>>

\* MediaMTX does not answer: nothing is decided.
LookFails ==
    /\ dog = "look" /\ faults < MaxFaults /\ faults' = faults + 1
    /\ dog' = "sleep" /\ copied' = None
    /\ UNCHANGED <<unit, watched, tab, leaked, viewers, missing, requests>>

DogStops ==
    /\ dog = "stop" /\ dog' = "pop" /\ copied' = None
    /\ \/ Stop("preview") /\ UNCHANGED <<leaked, faults>>
       \/ faults < MaxFaults /\ faults' = faults + 1 /\ leaked' = TRUE /\ UNCHANGED unit
    /\ UNCHANGED <<watched, tab, viewers, missing, requests>>

\* A preview started since the stop loses the watch it was given.
DogPops ==
    /\ dog = "pop" /\ dog' = "sleep"
    /\ leaked' = (leaked \/ st["preview"] \in {"boot", "run", "wait"} \/ again["preview"])
    /\ watched' = None
    /\ UNCHANGED <<unit, copied, tab, viewers, missing, requests, faults>>

-----------------------------------------------------------------------------
(* The surroundings. *)

\* Readers of the stream come while it is published, and go at any time.
ViewersChange ==
    /\ viewers' = ~viewers
    /\ viewers' => st["preview"] = "run"
    /\ requests < MaxRequests /\ requests' = requests + 1
    /\ UNCHANGED <<unit, server, missing, faults>>

StreamGone ==
    /\ viewers /\ st["preview"] # "run" /\ viewers' = FALSE
    /\ UNCHANGED <<unit, server, missing, requests, faults>>

CameraVanishes ==
    /\ ~missing /\ missing' = TRUE
    /\ faults < MaxFaults /\ faults' = faults + 1
    /\ UNCHANGED <<unit, server, viewers, requests>>

\* The admin server restarts: _watched was only in memory.
ServerRestarts ==
    /\ faults < MaxFaults /\ faults' = faults + 1
    /\ watched' = None /\ copied' = None /\ dog' = "sleep" /\ leaked' = TRUE
    /\ tab' = [t \in Tabs |-> "idle"]
    /\ UNCHANGED <<unit, viewers, missing, requests>>

\* /run does not survive a power cycle, and the units are not enabled.
PowerCycle ==
    /\ faults < MaxFaults /\ faults' = faults + 1
    /\ st' = [u \in Units |-> "dead"] /\ again' = [u \in Units |-> FALSE]
    /\ marker' = None
    /\ UNCHANGED <<server, viewers, missing, left, span, requests>>

Older(age, cap) == IF age = None \/ age = cap THEN age ELSE age + 1

Tick ==
    /\ \A u \in Units : st[u] \notin {"boot", "open", "end"}
    /\ st["record"] = "run" => left > 0
    /\ marker' = Older(marker, Ceiling)
    /\ left' = IF st["record"] = "run" THEN left - 1 ELSE left
    /\ watched' = Older(watched, Idle) /\ copied' = Older(copied, Idle)
    /\ span' = Older(span, Ceiling + 1)
    /\ UNCHANGED <<st, again, dog, tab, leaked, viewers, missing, requests, faults>>

-----------------------------------------------------------------------------
Process(u) == AutoRestart(u) \/ OpenCamera(u) \/ Cleanup(u)
Handler(t) == PreviewCall(t) \/ PreviewWatch(t) \/ UnwatchedCall(t)
Watchdog == Wake \/ Look \/ DogStops \/ DogPops

Next ==
    \/ \E u \in Units : Process(u) \/ Fail(u)
    \/ ReadSession \/ CheckDisk \/ Finish
    \/ \E t \in Tabs : PreviewAsk(t) \/ Unwatch(t) \/ RecordStop(t) \/ Handler(t)
    \/ Watchdog \/ LookFails
    \/ ViewersChange \/ StreamGone \/ CameraVanishes \/ ServerRestarts \/ PowerCycle \/ Tick

\* systemd restarts what failed, processes and threads run, and time passes: RestartSec
\* keeps restarts from following each other at once, so a loop of them takes time (SF).
Fairness ==
    /\ \A u \in Units : WF_vars(Process(u))
    /\ WF_vars(ReadSession) /\ WF_vars(Finish) /\ WF_vars(StreamGone)
    /\ \A t \in Tabs : WF_vars(Handler(t))
    /\ WF_vars(Watchdog)
    /\ SF_vars(Tick)

Spec == Init /\ [][Next]_vars /\ Fairness

-----------------------------------------------------------------------------
(* Properties. *)

\* A press of REC never records beyond the ceiling, however often the capture fails and is
\* restarted: the remaining time is counted from the marker, and the marker outlives a crash.
CeilingHolds == st["record"] = "run" => span \in 0..Ceiling

\* With nothing escaped, a preview nobody looks at is stopped in the end.
UnseenPreviewStops == []<>(st["preview"] = "dead" \/ viewers \/ leaked)

\* The camera as its users see it.
Mode == IF Holds("record") THEN "record" ELSE IF Holds("preview") THEN "preview" ELSE "off"
Camera == INSTANCE OneCamera WITH mode <- Mode, session <- marker

\* The units, the marker and the handlers implement the camera of OneCamera.
ImplementsCamera == Camera!Spec

\* (Refuted by TLC.) lowercam_capture.py's docstring: a stop removes the marker, "the next
\* button press is a new session".
StopClosesSession == st["record"] = "dead" => marker = None
=============================================================================
