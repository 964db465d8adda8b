------------------------------ MODULE BoardManager ------------------------------
(***************************************************************************)
(* The board's root manager (sirena_manager) and the units it commands: its *)
(* boot sequence, start and stop along the declared dependencies, restarts  *)
(* of one service and of the video chain.  Requests are served by threads,  *)
(* each systemctl call and its wait is a step of its own, and units fail,   *)
(* restart and stop slowly in between.                                      *)
(***************************************************************************)
EXTENDS Naturals, Sequences, FiniteSets, SequencesExt

CONSTANTS
    Names,       \* the services of this instance
    Threads,     \* HTTP requests at once; the boot sequence runs on a thread of its own
    Boot,        \* that thread
    MaxRequests, \* bound: requests
    MaxFaults    \* bound: units that fail, systemctl calls of 20 s, kills of the manager

VARIABLES
    unit,     \* what systemd says of each unit
    again,    \* units with a start queued behind their stop
    manager,  \* the process is up
    calls,    \* what each thread's request still has to do, service by service
    steps,    \* the systemctl calls of the service it is at
    bad,      \* a systemctl call of that service has failed
    off,      \* history: services somebody stopped, until they are started
    skipped,  \* history: services not started because a dependency was found down
    cut,      \* history: services of a request that a call of 20 s ended
    requests, faults

request == <<calls, steps, bad>>
history == <<off, skipped, cut>>
vars == <<unit, again, manager, request, history, requests, faults>>

\* SERVICES of config.py.
Units == [mavlink_router |-> <<"mavlink-router">>, telemetry_sender |-> <<"telemetry-sender">>,
          crsf_bridge |-> <<"crsf-bridge">>, fire_device_status |-> <<"fire-device-status">>,
          navigation |-> <<"sirena-gps-hub">>, video_manager |-> <<"video-service-manager">>,
          video_relay |-> <<"video-relay">>, srt_relay_capture |-> <<"srt-relay-capture">>,
          mesh |-> <<"sirena-mesh", "sirena-uplink">>]
DependsOn(n) ==
    CASE n \in {"telemetry_sender", "fire_device_status", "navigation"} -> {"mavlink_router"}
      [] n = "video_relay" -> {"video_manager"}
      [] n = "srt_relay_capture" -> {"video_relay"}
      [] OTHER -> {}
Controllable(n) == n # "srt_relay_capture"
BootSequence == SelectSeq(<<"mavlink_router", "telemetry_sender", "crsf_bridge",
    "fire_device_status", "navigation", "video_manager", "video_relay">>, LAMBDA n : n \in Names)

Service(u) == CHOOSE n \in Names : u \in Range(Units[n])
AllUnits == UNION {Range(Units[n]) : n \in Names}
\* service_status.
Up(n) == \A u \in Range(Units[n]) : unit[u] = "active"

Workers == Threads \cup {Boot}

TypeOK ==
    /\ unit \in [AllUnits -> {"inactive", "active", "failed", "stopping"}]
    /\ again \subseteq AllUnits /\ manager \in BOOLEAN
    /\ calls \in [Workers -> Seq({"start", "stop", "restart", "poll", "capture"} \X Names)]
    /\ steps \in [Workers -> Seq({"start", "bounce", "up", "stop", "wait", "needs", "stopped"}
                              \X (AllUnits \cup Names))]
    /\ bad \in [Workers -> BOOLEAN]
    /\ off \subseteq Names /\ skipped \subseteq Names /\ cut \subseteq Names
    /\ requests \in 0..MaxRequests /\ faults \in 0..MaxFaults

\* The units are not enabled: at power-on there is the manager.
Init ==
    /\ unit = [u \in AllUnits |-> "inactive"] /\ again = {} /\ manager = FALSE
    /\ calls = [t \in Workers |-> <<>>] /\ steps = [t \in Workers |-> <<>>]
    /\ bad = [t \in Workers |-> FALSE]
    /\ off = {} /\ skipped = {} /\ cut = {} /\ requests = 0 /\ faults = 0

Fault == faults < MaxFaults /\ faults' = faults + 1

-----------------------------------------------------------------------------
(* systemd. *)

\* What a start pulls in: Wants= and BindsTo= of the unit files.
Pulls(u) ==
    CASE u = "video-relay" -> {"video-service-manager"}
      [] u = "srt-relay-capture" -> {"video-relay", "video-service-manager"}
      [] u = "fire-device-status" -> {"mavlink-router"}
      [] u \in {"sirena-mesh", "sirena-uplink"} -> {"sirena-mesh", "sirena-uplink"}
      [] OTHER -> {}
\* What stops with it.
Binds(u) == IF u = "sirena-mesh" THEN {"sirena-uplink"} ELSE {}

Started(us) == [u \in AllUnits |-> IF u \in us /\ unit[u] # "stopping" THEN "active" ELSE unit[u]]
Stopped(u) ==
    [v \in AllUnits |-> IF v # u /\ v \notin Binds(u) THEN unit[v]
                        ELSE IF unit[v] \in {"active", "stopping"} THEN "stopping" ELSE "inactive"]

\* A unit ends with an error, and Restart=on-failure starts it again.
UnitFails(u) ==
    /\ unit[u] = "active" /\ Fault
    /\ unit' = [unit EXCEPT ![u] = "failed"]
    /\ UNCHANGED <<again, manager, request, history, requests>>

AutoRestart(u) ==
    /\ unit[u] = "failed" /\ unit' = Started(({u} \cup Pulls(u)) \cap AllUnits)
    /\ UNCHANGED <<again, manager, request, history, requests, faults>>

StopEnds(u) ==
    /\ unit[u] = "stopping" /\ again' = again \ {u}
    /\ unit' = [unit EXCEPT ![u] = IF u \in again THEN "active" ELSE "inactive"]
    /\ UNCHANGED <<manager, request, history, requests, faults>>

-----------------------------------------------------------------------------
(* start_service, stop_service, restart_service, each as the calls it makes. *)

Each(op, ns) == [i \in 1..Len(ns) |-> <<op, ns[i]>>]

OwnStart(n) ==
    FlattenSeq([i \in 1..Len(Units[n]) |-> <<<<"start", Units[n][i]>>, <<"up", Units[n][i]>>>>])

\* The dependencies first, and no further than one that is not active.
StartSteps(n) ==
    FlattenSeq(SetToSeq({OwnStart(d) \o <<<<"needs", d>>>> : d \in DependsOn(n) \cap Names}))
    \o OwnStart(n)

StopSteps(n) ==
    FlattenSeq([i \in 1..Len(Units[n]) |->
        LET u == Reverse(Units[n])[i] IN <<<<"stop", u>>, <<"wait", u>>>>])
    \o <<<<"stopped", Units[n][1]>>>>

StepsOf(op, n) ==
    CASE op = "start" -> StartSteps(n)
      [] op = "stop" -> StopSteps(n)
      [] op = "restart" -> StopSteps(n) \o StartSteps(n)
      [] op = "capture" -> <<<<"bounce", Units[n][1]>>, <<"up", Units[n][1]>>>>

\* restart_video_chain.
Chain == <<<<"restart", "video_manager">>, <<"poll", "video_manager">>,
           <<"restart", "video_relay">>, <<"poll", "video_relay">>,
           <<"capture", "srt_relay_capture">>>>

\* The routes of app.py; the server listens once the boot sequence is through.
Request(t) ==
    /\ manager /\ calls[Boot] = <<>> /\ steps[Boot] = <<>>
    /\ t # Boot /\ calls[t] = <<>> /\ steps[t] = <<>> /\ requests < MaxRequests
    /\ requests' = requests + 1
    /\ \E todo \in {<<<<op, n>>>> : op \in {"start", "stop", "restart"},
                                    n \in {m \in Names : Controllable(m)}}
                   \cup {Each("start", BootSequence), Each("stop", Reverse(BootSequence))}
                   \cup (IF "srt_relay_capture" \in Names THEN {Chain} ELSE {}) :
            calls' = [calls EXCEPT ![t] = todo]
    /\ UNCHANGED <<unit, again, manager, steps, bad, history, faults>>

NextService(t) == calls' = [calls EXCEPT ![t] = Tail(@)]

Begin(t) ==
    /\ calls[t] # <<>> /\ steps[t] = <<>> /\ Head(calls[t])[1] # "poll"
    /\ NextService(t)
    /\ steps' = [steps EXCEPT ![t] = StepsOf(Head(calls[t])[1], Head(calls[t])[2])]
    /\ bad' = [bad EXCEPT ![t] = FALSE]
    /\ UNCHANGED <<unit, again, manager, history, requests, faults>>

\* The chain goes on from a service that is active, and is over if it never is.
Poll(t) ==
    /\ calls[t] # <<>> /\ steps[t] = <<>> /\ Head(calls[t])[1] = "poll"
    /\ IF Up(Head(calls[t])[2])
         THEN NextService(t) ELSE calls' = [calls EXCEPT ![t] = <<>>]
    /\ UNCHANGED <<unit, again, manager, steps, bad, history, requests, faults>>

At(t, op) == steps[t] # <<>> /\ Head(steps[t])[1] = op
Of(t) == Head(steps[t])[2]
Goal(t) == Service(Last(steps[t])[2])
Advance(t) == steps' = [steps EXCEPT ![t] = Tail(@)]
Leave(t) == steps' = [steps EXCEPT ![t] = <<>>]
Is(t, b) == bad' = [bad EXCEPT ![t] = @ \/ b]

\* systemctl start: behind a running stop it is queued, and cancels the wait for that stop.
StartUnit(t) ==
    /\ At(t, "start") /\ Advance(t)
    /\ LET us == ({Of(t)} \cup Pulls(Of(t))) \cap AllUnits  of == {Service(u) : u \in us} IN
         /\ unit' = Started(us)
         /\ again' = again \cup {u \in us : unit[u] = "stopping"}
         /\ off' = off \ of /\ skipped' = skipped \ of /\ cut' = cut \ of
    /\ UNCHANGED <<manager, calls, bad, requests, faults>>

StartWaited(t) ==
    /\ At(t, "up") /\ unit[Of(t)] # "stopping"
    /\ Advance(t) /\ Is(t, unit[Of(t)] = "inactive")
    /\ UNCHANGED <<unit, again, manager, calls, history, requests, faults>>

\* systemctl restart of the capture: a stop with a start behind it.
Bounce(t) ==
    /\ At(t, "bounce") /\ Advance(t)
    /\ LET u == Of(t)  us == ({u} \cup Pulls(u)) \cap AllUnits IN
         /\ unit' = [Started(us) EXCEPT ![u] = IF unit[u] = "active" THEN "stopping" ELSE @]
         /\ again' = again \cup {v \in us : unit[v] = "stopping" \/ (v = u /\ unit[u] = "active")}
    /\ UNCHANGED <<manager, calls, bad, history, requests, faults>>

\* systemctl stop: it cancels a queued start.
StopUnit(t) ==
    /\ At(t, "stop") /\ Advance(t)
    /\ unit' = Stopped(Of(t)) /\ again' = again \ ({Of(t)} \cup Binds(Of(t)))
    /\ off' = IF \E i \in DOMAIN steps[t] : steps[t][i][1] = "start" THEN off
              ELSE off \cup {Service(Of(t))}
    /\ UNCHANGED <<manager, calls, bad, skipped, cut, requests, faults>>

StopWaited(t) ==
    /\ At(t, "wait") /\ (unit[Of(t)] # "stopping" \/ Of(t) \in again)
    /\ Advance(t) /\ Is(t, Of(t) \in again)
    /\ UNCHANGED <<unit, again, manager, calls, history, requests, faults>>

\* TimeoutExpired is caught nowhere: the request is over, its job goes on; in the boot
\* sequence it is the manager that ends.
TimesOut(t) ==
    /\ At(t, "up") \/ (At(t, "wait") /\ Of(t) \notin again)
    /\ unit[Of(t)] = "stopping" /\ Fault
    /\ IF t = Boot THEN /\ manager' = FALSE /\ UNCHANGED cut
                        /\ calls' = [w \in Workers |-> <<>>]
                   ELSE /\ UNCHANGED manager
                        /\ cut' = cut \cup {Goal(t)} \cup {c[2] : c \in Range(calls[t])}
                        /\ calls' = [calls EXCEPT ![t] = <<>>]
    /\ Leave(t)
    /\ UNCHANGED <<unit, again, bad, off, skipped, requests>>

\* service_status: a dependency that is not active, or whose start failed, ends the start of
\* what needs it.
DependencyKnown(t) ==
    /\ At(t, "needs")
    /\ IF ~bad[t] /\ Up(Of(t))
         THEN Advance(t) /\ UNCHANGED skipped
         ELSE Leave(t) /\ skipped' = skipped \cup {Goal(t)}
    /\ bad' = [bad EXCEPT ![t] = FALSE]
    /\ UNCHANGED <<unit, again, manager, calls, off, cut, requests, faults>>

\* The stop is answered; a restart goes on from it, but for an error of systemctl.
StopAnswered(t) ==
    /\ At(t, "stopped")
    /\ IF bad[t] THEN Leave(t) ELSE Advance(t)
    /\ bad' = [bad EXCEPT ![t] = FALSE]
    /\ UNCHANGED <<unit, again, manager, calls, history, requests, faults>>

-----------------------------------------------------------------------------
(* The manager: it starts the boot sequence, then serves; systemd restarts it. *)

\* Slip: services that run are taken to be started already.
SlipManagerStarts ==
    /\ ~manager /\ manager' = TRUE
    /\ calls' = [calls EXCEPT ![Boot] =
                    IF \A u \in AllUnits : unit[u] = "inactive" THEN Each("start", BootSequence)
                    ELSE <<>>]
    /\ UNCHANGED <<unit, again, steps, bad, history, requests, faults>>

ManagerStarts ==
    /\ ~manager /\ manager' = TRUE
    /\ calls' = [calls EXCEPT ![Boot] = Each("start", BootSequence)]
    /\ UNCHANGED <<unit, again, steps, bad, history, requests, faults>>

ManagerDies ==
    /\ manager /\ Fault /\ manager' = FALSE
    /\ calls' = [t \in Workers |-> <<>>] /\ steps' = [t \in Workers |-> <<>>]
    /\ UNCHANGED <<unit, again, bad, history, requests>>

Serve(t) ==
    \/ Begin(t) \/ Poll(t) \/ StartUnit(t) \/ StartWaited(t) \/ Bounce(t) \/ StopUnit(t)
    \/ StopWaited(t) \/ DependencyKnown(t) \/ StopAnswered(t)

Next ==
    \/ \E u \in AllUnits : UnitFails(u) \/ AutoRestart(u) \/ StopEnds(u)
    \/ \E t \in Workers : Request(t) \/ Serve(t) \/ TimesOut(t)
    \/ ManagerStarts \/ ManagerDies

Spec == Init /\ [][Next]_vars

\* systemd restarts what fails and ends what it stops (SIGKILL after its timeout); threads
\* run, and their calls return.
Fairness ==
    /\ WF_vars(\E u \in AllUnits : AutoRestart(u) \/ StopEnds(u))
    /\ WF_vars(\E t \in Workers : Serve(t))
    /\ WF_vars(ManagerStarts)

\* In the end every service of the boot sequence runs but those somebody stopped, those whose
\* dependency was found down and those of a call that systemd kept waiting: whatever units
\* fail, requests race and kills of the manager cut in two (start_service, restart_service,
\* start_boot_sequence).
StaysUp ==
    <>[](\A n \in Range(BootSequence) \ (off \cup skipped \cup cut) : Up(n))
=============================================================================
