------------------------------ MODULE RcSession -------------------------------
(***************************************************************************)
(* control_service on the admin server, for one board: a session repeats    *)
(* the pilot's last sticks to the flight controller as RC_CHANNELS_OVERRIDE *)
(* from a thread of its own, while HTTP threads enable, feed and disable.   *)
(*                                                                          *)
(* A tick is one period of the session's loop (1 / STICK_RATE_HZ).  Every   *)
(* loop ends its iteration within a tick; HTTP threads may take any time.   *)
(***************************************************************************)
EXTENDS Naturals, FiniteSets

CONSTANTS
    Threads,      \* HTTP threads
    Sessions,     \* _ControlSession objects, each created once
    None,
    StickTimeout, \* STICK_TIMEOUT_SEC, in ticks
    Abandon,      \* SESSION_ABANDON_SEC, in ticks
    FcTimeout,    \* the flight controller drops an override that is not repeated
    MaxLosses,    \* bound: frames lost on the way
    MaxCrashes    \* bound: restarts of the admin process

SessionAssumption ==
    /\ None \notin Sessions
    /\ {StickTimeout, Abandon, FcTimeout, MaxLosses, MaxCrashes} \subseteq Nat
    /\ 0 < StickTimeout /\ StickTimeout < Abandon /\ 0 < FcTimeout

VARIABLES
    table,     \* _control_sessions[device_id]
    running,   \* session.running
    loop,      \* where the session's thread is
    age,       \* ticks since session.last_update_ts
    copy,      \* the age the thread has read under the session's lock
    held,      \* the flight controller follows an override
    stick,     \* age of the sticks it follows
    silent,    \* ticks since it got a frame
    req,       \* the request of each HTTP thread
    fed,       \* sticks arrived since the last tick
    losses, crashes

session == <<running, loop, age, copy>>
fc == <<held, stick, silent>>
vars == <<table, session, fc, req, fed, losses, crashes>>

AgeLimit == Abandon + 1
StickLimit == StickTimeout + FcTimeout + 1
Up(n, limit) == IF n < limit THEN n + 1 ELSE limit

Idle == [pc |-> "idle", s |-> None]

Init ==
    /\ table = None
    /\ running = [s \in Sessions |-> FALSE]
    /\ loop = [s \in Sessions |-> "none"]
    /\ age = [s \in Sessions |-> 0] /\ copy = [s \in Sessions |-> 0]
    /\ held = FALSE /\ stick = 0 /\ silent = 0
    /\ req = [t \in Threads |-> Idle]
    /\ fed = FALSE
    /\ losses = 0 /\ crashes = 0

-----------------------------------------------------------------------------
(* What the flight controller makes of a frame.  Zeros release the channels. *)

Lost == losses < MaxLosses /\ losses' = losses + 1 /\ UNCHANGED fc

Override(n) ==
    \/ held' = TRUE /\ stick' = n /\ silent' = 0 /\ UNCHANGED losses
    \/ Lost

Release ==
    \/ held' = FALSE /\ stick' = 0 /\ silent' = 0 /\ UNCHANGED losses
    \/ Lost

-----------------------------------------------------------------------------
(* The thread of a session. *)

Read(s) ==
    /\ loop[s] = "top" /\ running[s]
    /\ copy' = [copy EXCEPT ![s] = age[s]]
    /\ loop' = [loop EXCEPT ![s] = "send"]
    /\ UNCHANGED <<table, running, age, fc, req, fed, losses, crashes>>

\* Fields nobody reads any more are put to 0.
Leave(s) ==
    /\ loop[s] = "top" /\ ~running[s]
    /\ loop' = [loop EXCEPT ![s] = "ended"]
    /\ age' = [age EXCEPT ![s] = 0]
    /\ UNCHANGED <<table, running, copy, fc, req, fed, losses, crashes>>

\* Slip: the last sticks are repeated until the session is abandoned.
SendSticksForLong(s) ==
    /\ loop[s] = "send" /\ copy[s] <= Abandon
    /\ Override(IF copy[s] < StickLimit THEN copy[s] ELSE StickLimit)
    /\ loop' = [loop EXCEPT ![s] = "sleep"]
    /\ copy' = [copy EXCEPT ![s] = 0]
    /\ UNCHANGED <<table, running, age, req, fed, crashes>>

SendSticks(s) ==
    /\ loop[s] = "send" /\ copy[s] <= StickTimeout
    /\ Override(copy[s])
    /\ loop' = [loop EXCEPT ![s] = "sleep"]
    /\ copy' = [copy EXCEPT ![s] = 0]
    /\ UNCHANGED <<table, running, age, req, fed, crashes>>

\* Slip: the thread ends at the first stall, the session seems to run.
SendStaleEnds(s) ==
    /\ loop[s] = "send" /\ copy[s] > StickTimeout /\ copy[s] <= Abandon
    /\ Release
    /\ loop' = [loop EXCEPT ![s] = "ended"]
    /\ UNCHANGED <<table, running, age, copy, req, fed, crashes>>

SendStale(s) ==
    /\ loop[s] = "send" /\ copy[s] > StickTimeout /\ copy[s] <= Abandon
    /\ Release
    /\ loop' = [loop EXCEPT ![s] = "sleep"]
    /\ copy' = [copy EXCEPT ![s] = 0]
    /\ UNCHANGED <<table, running, age, req, fed, crashes>>

\* The session stays in the table, with running False.
SendAbandoned(s) ==
    /\ loop[s] = "send" /\ copy[s] > Abandon
    /\ Release
    /\ running' = [running EXCEPT ![s] = FALSE]
    /\ loop' = [loop EXCEPT ![s] = "ended"]
    /\ copy' = [copy EXCEPT ![s] = 0]
    /\ age' = [age EXCEPT ![s] = 0]
    /\ UNCHANGED <<table, req, fed, crashes>>

-----------------------------------------------------------------------------
(* HTTP: each action is what happens between two releases of a lock. *)

Answer(t) == req' = [req EXCEPT ![t] = Idle]

\* enable_control: under _sessions_lock; a session that runs is kept.
Enable(t) ==
    /\ req[t] = Idle
    /\ IF table # None /\ running[table]
       THEN UNCHANGED <<table, session>>
       ELSE \E s \in Sessions :
            /\ loop[s] = "none"
            /\ table' = s
            /\ running' = [running EXCEPT ![s] = TRUE]
            /\ loop' = [loop EXCEPT ![s] = "top"]
            /\ UNCHANGED <<age, copy>>
    /\ UNCHANGED <<fc, req, fed, losses, crashes>>

\* update_stick: looks the session up under one lock ...
StickLookup(t) ==
    /\ req[t] = Idle
    /\ table # None /\ running[table]
    /\ req' = [req EXCEPT ![t] = [pc |-> "stick", s |-> table]]
    /\ UNCHANGED <<table, session, fc, fed, losses, crashes>>

\* ... and feeds it under another, whatever became of it meanwhile.
StickUpdate(t) ==
    /\ req[t].pc = "stick"
    /\ age' = [age EXCEPT ![req[t].s] = 0]
    /\ fed' = TRUE
    /\ Answer(t)
    /\ UNCHANGED <<table, running, loop, copy, fc, losses, crashes>>

\* disable_control: the session leaves the table under the lock ...
Disable(t) ==
    /\ req[t] = Idle
    /\ req' = [req EXCEPT ![t] = [pc |-> IF table = None THEN "release" ELSE "stop", s |-> table]]
    /\ table' = None
    /\ UNCHANGED <<session, fc, fed, losses, crashes>>

\* Slip: a session that was disabled is forgotten, not stopped.
StopForgets(t) ==
    /\ req[t].pc = "stop"
    /\ req' = [req EXCEPT ![t].pc = "release"]
    /\ UNCHANGED <<table, session, fc, fed, losses, crashes>>

\* ... and is told to stop outside of it.
Stop(t) ==
    /\ req[t].pc = "stop"
    /\ running' = [running EXCEPT ![req[t].s] = FALSE]
    /\ req' = [req EXCEPT ![t].pc = "join"]
    /\ UNCHANGED <<table, loop, age, copy, fc, fed, losses, crashes>>

\* Slip: nobody waits for the thread's last frame.
JoinNothing(t) ==
    /\ req[t].pc = "join"
    /\ req' = [req EXCEPT ![t].pc = "release"]
    /\ UNCHANGED <<table, session, fc, fed, losses, crashes>>

\* join(timeout=2.0): a loop needs a period at most, so it ends in time.
Join(t) ==
    /\ req[t].pc = "join" /\ loop[req[t].s] = "ended"
    /\ req' = [req EXCEPT ![t].pc = "release"]
    /\ UNCHANGED <<table, session, fc, fed, losses, crashes>>

\* The release frame, also sent when there was no session to stop.
DisableRelease(t) ==
    /\ req[t].pc = "release"
    /\ Release
    /\ Answer(t)
    /\ UNCHANGED <<table, session, fed, crashes>>

\* The process ends, with its threads and requests, and starts with no session.
Crash ==
    /\ crashes < MaxCrashes
    /\ crashes' = crashes + 1
    /\ table' = None
    /\ running' = [s \in Sessions |-> FALSE]
    /\ loop' = [s \in Sessions |-> IF loop[s] = "none" THEN "none" ELSE "ended"]
    /\ req' = [t \in Threads |-> Idle]
    /\ age' = [s \in Sessions |-> 0] /\ copy' = [s \in Sessions |-> 0]
    /\ UNCHANGED <<fc, fed, losses>>

-----------------------------------------------------------------------------
\* Every loop that is not asleep goes first.  The flight controller gives up
\* an override that has not been repeated for FcTimeout.
Tick ==
    /\ \A s \in Sessions : loop[s] \notin {"top", "send"}
    /\ loop' = [s \in Sessions |-> IF loop[s] = "sleep" THEN "top" ELSE loop[s]]
    /\ age' = [s \in Sessions |-> IF loop[s] = "sleep" THEN Up(age[s], AgeLimit) ELSE age[s]]
    /\ held' = (held /\ silent < FcTimeout)
    /\ stick' = IF held' THEN Up(stick, StickLimit) ELSE 0
    /\ silent' = IF held' THEN silent + 1 ELSE 0
    /\ fed' = FALSE
    /\ UNCHANGED <<table, running, copy, req, losses, crashes>>

Loop(s) == Read(s) \/ Leave(s) \/ SendSticks(s) \/ SendStale(s) \/ SendAbandoned(s)
Serve(t) == StickUpdate(t) \/ Stop(t) \/ Join(t) \/ DisableRelease(t)
Http(t) == Enable(t) \/ StickLookup(t) \/ Disable(t) \/ Serve(t)

Next ==
    \/ \E s \in Sessions : Loop(s)
    \/ \E t \in Threads : Http(t)
    \/ Crash \/ Tick

\* Threads run, time passes; nobody is obliged to send a request.
Fairness ==
    /\ \A s \in Sessions : WF_vars(Loop(s))
    /\ \A t \in Threads : WF_vars(Serve(t))
    /\ WF_vars(Tick)

Spec == Init /\ [][Next]_vars /\ Fairness

-----------------------------------------------------------------------------
(* Properties. *)

Requests == [pc : {"stick", "stop", "join", "release"}, s : Sessions] \cup
            [pc : {"idle", "release"}, s : {None}]
TypeOK ==
    /\ table \in Sessions \cup {None}
    /\ running \in [Sessions -> BOOLEAN]
    /\ loop \in [Sessions -> {"none", "top", "send", "sleep", "ended"}]
    /\ {age, copy} \subseteq [Sessions -> 0..AgeLimit]
    /\ {held, fed} \subseteq BOOLEAN
    /\ stick \in 0..StickLimit /\ silent \in 0..FcTimeout
    /\ req \in [Threads -> Requests]
    /\ losses \in 0..MaxLosses /\ crashes \in 0..MaxCrashes

Quiet == \A t \in Threads : req[t] = Idle

\* Once a session has sent its frame of this period, the flight controller
\* follows no sticks older than the timeout; with no session left, or a frame
\* lost, it is the flight controller's own timeout that ends it.
Sent == losses = 0 /\ \E s \in Sessions : loop[s] = "sleep"
SticksAreRecent ==
    held => stick <= StickTimeout + IF Sent THEN 0 ELSE FcTimeout

\* When the last request is answered and no session is in the table, the
\* override is released and no session's last frame comes after the release.
ReleasedStays ==
    Quiet /\ table = None /\ losses = 0 /\ crashes = 0 => ~held

\* However enabling and disabling interleave, when the requests are answered
\* no thread is left behind that repeats sticks for a session nobody can stop.
NoLeakedThread ==
    Quiet => \A s \in Sessions : running[s] => s = table

\* A session nobody feeds comes to its end, and the override with it.
Abandons ==
    <>[]~fed => <>[](~held /\ \A s \in Sessions : loop[s] \in {"none", "ended"})

\* While a session stays and its sticks are recent, the flight controller ends
\* up following them, though a session disabled before was still releasing.
ObeysPilot ==
    <>[](table # None /\ running[table] /\ age[table] <= StickTimeout)
        => <>[](held /\ stick <= StickTimeout + 1)
=============================================================================
