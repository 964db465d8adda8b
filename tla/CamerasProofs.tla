----------------------------- MODULE CamerasProofs -----------------------------
(***************************************************************************)
(* The cameras of a board, for any number of tabs, cameras and modes, any   *)
(* ceiling and any number of faults: the lower camera's units, marker and   *)
(* handlers implement OneCamera, no press of REC records beyond the         *)
(* ceiling, a capture that streams runs what the files say, and the tap     *)
(* follows the click answered last.  The specification is the one the run   *)
(* checks, MC_Cameras.                                                      *)
(***************************************************************************)
EXTENDS MC_Cameras, TLAPS

LEMMA PartsOfWhole ==
    ASSUME NEW whole, NEW l \in Nat, NEW m \in Nat, l + m = whole, 1 <= l
    PROVE  m # whole /\ l + m <= whole
OBVIOUS

USE LowerBounds DEF Lower!LowerCamAssumption

-----------------------------------------------------------------------------
(* The lower camera: types.                                                  *)

LEMMA LowerOrNot ==
    ASSUME [PartsNext]_<<vars, track, lower, part>>
    PROVE  [Lower!Next]_lower
BY DEF PartsNext, lower

States == {"dead", "boot", "open", "run", "end", "wait"}

LEMMA LowerFields ==
    ASSUME Lower!TypeOK
    PROVE  /\ st \in [Lower!Units -> States] /\ again \in [Lower!Units -> BOOLEAN]
           /\ marker \in 0..Ceiling \cup {None} /\ left \in 0..Ceiling
           /\ span \in 0..(Ceiling + 1) \cup {None}
           /\ Ceiling \in Nat /\ 0 < Ceiling /\ None \notin Nat
BY DEF Lower!TypeOK, States

LEMMA UnitNames ==
    /\ "preview" \in Lower!Units /\ "record" \in Lower!Units
    /\ Lower!Other("preview") = "record" /\ Lower!Other("record") = "preview"
    /\ \A u \in Lower!Units : u = "preview" \/ u = "record"
BY DEF Lower!Units, Lower!Other

\* A job of systemd's moves a unit to one of its states, and leaves the file alone.
LEMMA StartEffect ==
    ASSUME Lower!TypeOK, NEW u \in Lower!Units, Lower!Start(u)
    PROVE  /\ st' \in [Lower!Units -> States] /\ again' \in [Lower!Units -> BOOLEAN]
           /\ span' \in 0..(Ceiling + 1) \cup {None}
           /\ st'[u] = (IF st[u] = "dead" THEN "boot" ELSE st[u])
           /\ st'[Lower!Other(u)] = Lower!Stopping(st[Lower!Other(u)])
           /\ UNCHANGED <<marker, left>>
<1>1. st'[u] = (IF st[u] = "dead" THEN "boot" ELSE st[u])
      /\ st'[Lower!Other(u)] = Lower!Stopping(st[Lower!Other(u)])
  BY LowerFields, UnitNames DEF Lower!Start
<1>2. st' \in [Lower!Units -> States]
  BY LowerFields, UnitNames DEF Lower!Start, Lower!Stopping, States
<1>3. again' \in [Lower!Units -> BOOLEAN]
  BY LowerFields, UnitNames DEF Lower!Start
<1> QED
  BY <1>1, <1>2, <1>3, LowerFields DEF Lower!Start

LEMMA StopEffect ==
    ASSUME Lower!TypeOK, NEW u \in Lower!Units, Lower!Stop(u)
    PROVE  /\ st' \in [Lower!Units -> States] /\ again' \in [Lower!Units -> BOOLEAN]
           /\ st'[u] = Lower!Stopping(st[u]) /\ st'[Lower!Other(u)] = st[Lower!Other(u)]
           /\ UNCHANGED <<marker, left, span>>
<1>1. st'[u] = Lower!Stopping(st[u]) /\ st'[Lower!Other(u)] = st[Lower!Other(u)]
  BY LowerFields, UnitNames DEF Lower!Stop
<1>2. st' \in [Lower!Units -> States]
  BY LowerFields DEF Lower!Stop, Lower!Stopping, States
<1>3. again' \in [Lower!Units -> BOOLEAN]
  BY LowerFields DEF Lower!Stop
<1> QED
  BY <1>1, <1>2, <1>3 DEF Lower!Stop

RestartEffect(u) ==
    /\ st[u] = "wait" /\ st'[u] = "boot"
    /\ st'[Lower!Other(u)] = Lower!Stopping(st[Lower!Other(u)])
    /\ UNCHANGED <<marker, left, span>>

BecomeEffect(u, s) == st'[u] = s /\ st'[Lower!Other(u)] = st[Lower!Other(u)]

LEMMA BecomeIs ==
    ASSUME Lower!TypeOK, NEW u \in Lower!Units, NEW s \in States, Lower!Become(u, s)
    PROVE  BecomeEffect(u, s) /\ st' \in [Lower!Units -> States]
BY LowerFields, UnitNames DEF Lower!Become, BecomeEffect

LEMMA AutoRestartEffect ==
    ASSUME Lower!TypeOK, NEW u \in Lower!Units, Lower!AutoRestart(u)
    PROVE  /\ RestartEffect(u)
           /\ st' \in [Lower!Units -> States] /\ again' \in [Lower!Units -> BOOLEAN]
<1>1. st'[u] = "boot" /\ st'[Lower!Other(u)] = Lower!Stopping(st[Lower!Other(u)])
  BY LowerFields, UnitNames DEF Lower!AutoRestart
<1>2. st' \in [Lower!Units -> States]
  BY LowerFields, UnitNames DEF Lower!AutoRestart, Lower!Stopping, States
<1>3. again' \in [Lower!Units -> BOOLEAN]
  BY LowerFields, UnitNames DEF Lower!AutoRestart
<1> QED
  BY <1>1, <1>2, <1>3 DEF Lower!AutoRestart, RestartEffect

\* The steps in which no handler takes part.
UnitAction ==
    \/ \E u \in Lower!Units : Lower!Process(u) \/ Lower!Fail(u)
    \/ Lower!ReadSession \/ Lower!CheckDisk \/ Lower!Finish

\* The steps of the handlers, the watchdog and the surroundings that leave the units alone.
ServerAction ==
    \/ \E t \in Tabs : \/ Lower!PreviewAsk(t) \/ Lower!Unwatch(t) \/ Lower!PreviewWatch(t)
    \/ Lower!Wake \/ Lower!Look \/ Lower!DogPops \/ Lower!LookFails
    \/ Lower!ViewersChange \/ Lower!StreamGone \/ Lower!CameraVanishes \/ Lower!ServerRestarts

\* The steps with a call of systemctl, which may be lost.
CallAction ==
    \/ \E t \in Tabs : \/ Lower!PreviewCall(t) \/ Lower!UnwatchedCall(t) \/ Lower!RecordStop(t)
    \/ Lower!DogStops

LEMMA LowerSteps ==
    ASSUME [Lower!Next]_lower
    PROVE  \/ UnitAction \/ ServerAction \/ CallAction
           \/ Lower!PowerCycle \/ Lower!Tick \/ UNCHANGED lower
BY DEF Lower!Next, Lower!Handler, Lower!Watchdog, UnitAction, ServerAction, CallAction

LEMMA ServerKeepsUnits ==
    ASSUME ServerAction
    PROVE  UNCHANGED <<st, again, marker, left, span>>
BY DEF ServerAction, Lower!unit, Lower!PreviewAsk, Lower!Unwatch, Lower!PreviewWatch, Lower!Wake,
       Lower!Look, Lower!DogPops, Lower!LookFails, Lower!ViewersChange, Lower!StreamGone,
       Lower!CameraVanishes, Lower!ServerRestarts

LEMMA CallIsJob ==
    ASSUME CallAction
    PROVE  \/ \E u \in Lower!Units : Lower!Start(u) \/ Lower!Stop(u)
           \/ UNCHANGED <<st, again, marker, left, span>>
BY UnitNames
DEF CallAction, Lower!PreviewCall, Lower!UnwatchedCall, Lower!RecordStop, Lower!DogStops,
    Lower!unit

Times ==
    /\ st \in [Lower!Units -> States] /\ again \in [Lower!Units -> BOOLEAN]
    /\ marker \in 0..Ceiling \cup {None} /\ left \in 0..Ceiling
    /\ span \in 0..(Ceiling + 1) \cup {None}

LEMMA OlderInRange ==
    ASSUME NEW most \in Nat, NEW age \in 0..most \cup {None}
    PROVE  Lower!Older(age, most) \in 0..most \cup {None}
BY DEF Lower!Older

LEMMA UnitTypes ==
    ASSUME Lower!TypeOK, [Lower!Next]_lower
    PROVE  Times'
<1> USE DEF Times
<1>1. ASSUME UNCHANGED <<st, again, marker, left, span>>
      PROVE  Times'
  BY <1>1, LowerFields
<1>2. CASE ServerAction \/ UNCHANGED lower
  BY <1>1, <1>2, ServerKeepsUnits DEF lower
<1>3. ASSUME NEW u \in Lower!Units, Lower!Start(u) \/ Lower!Stop(u)
      PROVE  Times'
  BY <1>3, StartEffect, StopEffect, LowerFields
<1>4. CASE CallAction
  BY <1>1, <1>3, <1>4, CallIsJob
<1>5. ASSUME NEW u \in Lower!Units, Lower!AutoRestart(u)
      PROVE  Times'
  BY <1>5, AutoRestartEffect, LowerFields DEF RestartEffect
<1>6. ASSUME NEW u \in Lower!Units, Lower!OpenCamera(u)
      PROVE  Times'
  BY <1>6, BecomeIs, LowerFields DEF Lower!OpenCamera, States
<1>7. ASSUME NEW u \in Lower!Units, Lower!Cleanup(u)
      PROVE  Times'
  <2>1. st' \in [Lower!Units -> States]
    BY <1>7, BecomeIs DEF Lower!Cleanup, States
  <2>2. again' \in [Lower!Units -> BOOLEAN]
    BY <1>7, LowerFields DEF Lower!Cleanup
  <2> QED
    BY <1>7, <2>1, <2>2, LowerFields DEF Lower!Cleanup
<1>8. ASSUME NEW u \in Lower!Units, Lower!Fail(u)
      PROVE  Times'
  BY <1>8, BecomeIs, LowerFields DEF Lower!Fail, States
<1>9. CASE Lower!ReadSession
  <2>1. st' \in [Lower!Units -> States] /\ again' = again
    BY <1>9, BecomeIs, UnitNames DEF Lower!ReadSession, States
  <2>2. marker' \in 0..Ceiling \cup {None} /\ left' \in 0..Ceiling
    <3>1. Lower!Remaining \in 0..Ceiling
      BY LowerFields DEF Lower!Remaining
    <3>2. marker' \in {None, 0, marker} /\ left' \in {left, Lower!Remaining}
      BY <1>9 DEF Lower!ReadSession
    <3> QED
      BY <3>1, <3>2, LowerFields
  <2>3. span' \in 0..(Ceiling + 1) \cup {None}
    BY <1>9, LowerFields DEF Lower!ReadSession
  <2> QED
    BY <2>1, <2>2, <2>3, LowerFields
<1>10. CASE Lower!CheckDisk
  <2>1. st' \in [Lower!Units -> States] /\ again' = again
    BY <1>10, BecomeIs, UnitNames, LowerFields DEF Lower!CheckDisk, States
  <2>2. marker' \in 0..Ceiling \cup {None} /\ left' \in 0..Ceiling /\ span' = span
    BY <1>10, LowerFields DEF Lower!CheckDisk
  <2> QED
    BY <2>1, <2>2, LowerFields
<1>11. CASE Lower!Finish
  BY <1>11, BecomeIs, UnitNames, LowerFields DEF Lower!Finish, States
<1>12. CASE Lower!PowerCycle
  BY <1>12, LowerFields DEF Lower!PowerCycle, States
<1>13. CASE Lower!Tick
  <2>1. marker' \in 0..Ceiling \cup {None} /\ span' \in 0..(Ceiling + 1) \cup {None}
    <3>1. Lower!Older(marker, Ceiling) \in 0..Ceiling \cup {None}
      BY OlderInRange, LowerFields
    <3>2. Ceiling + 1 \in Nat
      BY LowerFields
    <3>3. Lower!Older(span, Ceiling + 1) \in 0..(Ceiling + 1) \cup {None}
      BY <3>2, OlderInRange, LowerFields
    <3> QED
      BY <1>13, <3>1, <3>3 DEF Lower!Tick
  <2>2. left' \in 0..Ceiling
    BY <1>13, LowerFields DEF Lower!Tick
  <2> QED
    BY <1>13, <2>1, <2>2, LowerFields DEF Lower!Tick
<1> QED
  BY LowerSteps, <1>2, <1>4, <1>5, <1>6, <1>7, <1>8, <1>9, <1>10, <1>11, <1>12, <1>13
  DEF UnitAction, Lower!Process

Pcs == {"idle", "call", "watch", "unseen", "record"}
Watch ==
    /\ watched \in 0..Idle \cup {None} /\ copied \in 0..Idle \cup {None}
    /\ dog \in {"sleep", "look", "stop", "pop"}
    /\ viewers \in BOOLEAN /\ missing \in BOOLEAN /\ leaked \in BOOLEAN
    /\ tab \in [Tabs -> Pcs]
    /\ lowerRequests \in 0..LowerRequests /\ lowerFaults \in 0..MaxFaults

LEMMA LowerBudgets ==
    ASSUME Lower!TypeOK, [Lower!Next]_lower
    PROVE  lowerRequests' \in 0..LowerRequests /\ lowerFaults' \in 0..MaxFaults
<1>1. \/ lowerFaults' = lowerFaults
      \/ lowerFaults < MaxFaults /\ lowerFaults' = lowerFaults + 1
  BY LowerSteps
  DEF UnitAction, Lower!Process, Lower!AutoRestart, Lower!OpenCamera, Lower!Cleanup, Lower!Fail,
      Lower!ReadSession, Lower!CheckDisk, Lower!Finish, ServerAction, Lower!PreviewAsk,
      Lower!Unwatch, Lower!PreviewWatch, Lower!Wake, Lower!Look, Lower!DogPops, Lower!LookFails,
      Lower!ViewersChange, Lower!StreamGone, Lower!CameraVanishes, Lower!ServerRestarts,
      CallAction, Lower!PreviewCall, Lower!UnwatchedCall, Lower!RecordStop, Lower!DogStops,
      Lower!PowerCycle, Lower!Tick, lower
<1>2. \/ lowerRequests' = lowerRequests
      \/ lowerRequests < LowerRequests /\ lowerRequests' = lowerRequests + 1
  BY LowerSteps
  DEF UnitAction, Lower!Process, Lower!AutoRestart, Lower!OpenCamera, Lower!Cleanup, Lower!Fail,
      Lower!ReadSession, Lower!CheckDisk, Lower!Finish, ServerAction, Lower!PreviewAsk,
      Lower!Unwatch, Lower!PreviewWatch, Lower!Wake, Lower!Look, Lower!DogPops, Lower!LookFails,
      Lower!ViewersChange, Lower!StreamGone, Lower!CameraVanishes, Lower!ServerRestarts,
      CallAction, Lower!PreviewCall, Lower!UnwatchedCall, Lower!RecordStop, Lower!DogStops,
      Lower!PowerCycle, Lower!Tick, Lower!Request, lower
<1> QED
  BY <1>1, <1>2 DEF Lower!TypeOK

LEMMA WatchTypes ==
    ASSUME Lower!TypeOK, [Lower!Next]_lower
    PROVE  Watch'
<1> USE LowerBudgets, LowerFields DEF Watch
<1>1. Watch /\ Idle \in Nat
  BY DEF Lower!TypeOK, Pcs
<1>2. CASE UnitAction \/ Lower!PowerCycle \/ UNCHANGED lower
  <2>1. UNCHANGED <<watched, copied, dog, viewers, missing, leaked, tab>>
    BY <1>2
    DEF UnitAction, Lower!Process, Lower!AutoRestart, Lower!OpenCamera, Lower!Cleanup,
        Lower!Fail, Lower!ReadSession, Lower!CheckDisk, Lower!Finish, Lower!PowerCycle,
        Lower!server, lower
  <2> QED
    BY <1>1, <2>1
<1>3. CASE ServerAction \/ CallAction
  <2>1. tab' \in [Tabs -> Pcs]
    BY <1>1, <1>3
    DEF ServerAction, Lower!PreviewAsk, Lower!Unwatch, Lower!PreviewWatch, Lower!Wake,
        Lower!Look, Lower!DogPops, Lower!LookFails, Lower!ViewersChange, Lower!StreamGone,
        Lower!CameraVanishes, Lower!ServerRestarts, CallAction, Lower!PreviewCall,
        Lower!UnwatchedCall, Lower!RecordStop, Lower!DogStops, Lower!Go, Lower!server, Pcs
  <2>2. /\ watched' \in {watched, 0, None} /\ copied' \in {copied, watched, None}
        /\ dog' \in {"sleep", "look", "stop", "pop"}
    BY <1>1, <1>3
    DEF ServerAction, Lower!PreviewAsk, Lower!Unwatch, Lower!PreviewWatch, Lower!Wake,
        Lower!Look, Lower!DogPops, Lower!LookFails, Lower!ViewersChange, Lower!StreamGone,
        Lower!CameraVanishes, Lower!ServerRestarts, CallAction, Lower!PreviewCall,
        Lower!UnwatchedCall, Lower!RecordStop, Lower!DogStops, Lower!server
  <2>3. viewers' \in BOOLEAN /\ missing' \in BOOLEAN /\ leaked' \in BOOLEAN
    BY <1>1, <1>3
    DEF ServerAction, Lower!PreviewAsk, Lower!Unwatch, Lower!PreviewWatch, Lower!Wake,
        Lower!Look, Lower!DogPops, Lower!LookFails, Lower!ViewersChange, Lower!StreamGone,
        Lower!CameraVanishes, Lower!ServerRestarts, CallAction, Lower!PreviewCall,
        Lower!UnwatchedCall, Lower!RecordStop, Lower!DogStops, Lower!server
  <2> QED
    BY <1>1, <2>1, <2>2, <2>3
<1>4. CASE Lower!Tick
  BY <1>1, <1>4, OlderInRange DEF Lower!Tick
<1> QED
  BY LowerSteps, <1>2, <1>3, <1>4

LEMMA LowerTypeInit ==
    ASSUME Lower!Init
    PROVE  Lower!TypeOK
<1>1. 0 \in 0..Ceiling /\ 0 \in 0..LowerRequests /\ 0 \in 0..MaxFaults
  OBVIOUS
<1> QED
  BY <1>1 DEF Lower!Init, Lower!TypeOK

\* Type correctness of the lower camera, in every behaviour of the composed specification.
THEOREM LowerTypeCorrect == PartsSpec => []Lower!TypeOK
<1>1. PartsInit => Lower!TypeOK
  BY LowerTypeInit DEF PartsInit
<1>2. Lower!TypeOK /\ [PartsNext]_<<vars, track, lower, part>> => Lower!TypeOK'
  BY LowerOrNot, UnitTypes, WatchTypes DEF Times, Watch, States, Pcs, Lower!TypeOK
<1> QED
  BY <1>1, <1>2, PTL DEF PartsSpec

-----------------------------------------------------------------------------
(* The lower camera: the session.  The marker and what rpicam-vid has left   *)
(* to record are read and written by different processes; together they stay *)
(* within the ceiling.                                                       *)

\* A recording that has read the session records no longer than the session has left.
Counted ==
    st["record"] \in {"open", "run"} =>
        /\ marker \in Nat /\ span \in Nat /\ span <= marker /\ left + marker <= Ceiling
        /\ st["record"] = "open" => 1 <= left

\* Until the SIGTERM handler is through, its session is open.
EndIsMarked == st["record"] = "end" => marker \in Nat

\* While the unit is not dead, the marker is as old as the press of REC, or used up.
SpanInMarker ==
    st["record"] # "dead" /\ span # None =>
        marker \in Nat /\ (span <= marker \/ marker = Ceiling)

OneHolds == ~(Lower!Holds("preview") /\ Lower!Holds("record"))

Session == Counted /\ EndIsMarked /\ SpanInMarker /\ OneHolds
LowerInv == Lower!TypeOK /\ Session

\* A job of systemd's may end a unit that has opened or runs, never begin a recording.
LEMMA StoppedUnit ==
    ASSUME NEW s \in States
    PROVE  /\ Lower!Stopping(s) = "end" \/ Lower!Stopping(s) = "dead"
           /\ Lower!Stopping(s) = "end" <=> s \in {"run", "end"}
BY DEF Lower!Stopping, States

LEMMA JobKeepsSession ==
    ASSUME LowerInv, NEW u \in Lower!Units,
           Lower!Start(u) \/ Lower!Stop(u) \/ Lower!AutoRestart(u)
    PROVE  Session' /\ \A v \in Lower!Units : Lower!Holds(v)' <=> Lower!Holds(v)
<1> USE DEF LowerInv, Session
<1>1. UNCHANGED <<marker, left>> /\ st["preview"] \in States /\ st["record"] \in States
      /\ (span' = span \/ (st["record"] = "dead" /\ span' = None))
  <2>1. st["preview"] \in States /\ st["record"] \in States
    BY LowerFields, UnitNames
  <2>2. UNCHANGED <<marker, left>> /\ (span' = span \/ (st["record"] = "dead" /\ span' = None))
    <3>1. CASE Lower!Start(u)
      BY <3>1 DEF Lower!Start
    <3>2. CASE Lower!Stop(u)
      BY <3>2 DEF Lower!Stop
    <3>3. CASE Lower!AutoRestart(u)
      BY <3>3 DEF Lower!AutoRestart
    <3> QED
      BY <3>1, <3>2, <3>3
  <2> QED
    BY <2>1, <2>2
<1>2. ASSUME NEW v \in Lower!Units
      PROVE  \/ st'[v] = st[v]
             \/ st'[v] = "boot" /\ st[v] \in {"dead", "wait"}
             \/ st'[v] = Lower!Stopping(st[v])
  <2>1. v = u \/ v = Lower!Other(u)
    BY UnitNames
  <2> QED
    BY <2>1, StartEffect, StopEffect, AutoRestartEffect DEF RestartEffect
<1>3. ASSUME NEW v \in Lower!Units
      PROVE  Lower!Holds(v)' <=> Lower!Holds(v)
  BY <1>1, <1>2, StoppedUnit, UnitNames DEF Lower!Holds
<1>4. \/ st'["record"] = st["record"] \/ st'["record"] = "dead"
      \/ st'["record"] = "boot" /\ st["record"] \in {"dead", "wait"}
      \/ st'["record"] = "end" /\ st["record"] \in {"run", "end"}
  BY <1>1, <1>2, StoppedUnit, UnitNames
<1>5. st'["record"] = "boot" /\ st["record"] = "dead" => span' = None
  <2>1. ASSUME st'["record"] = "boot", st["record"] = "dead"
        PROVE  Lower!Start("record")
    <3>1. ~Lower!Stop(u)
      BY <2>1, StopEffect, UnitNames DEF Lower!Stopping
    <3>2. ~Lower!AutoRestart(u)
      BY <2>1, AutoRestartEffect, UnitNames DEF RestartEffect, Lower!Stopping
    <3>3. u = "record"
      BY <2>1, <3>1, <3>2, StartEffect, UnitNames DEF Lower!Stopping
    <3> QED
      BY <3>1, <3>2, <3>3
  <2> QED
    BY <2>1 DEF Lower!Start
<1>6. Counted'
  BY <1>1, <1>4 DEF Counted
<1>7. EndIsMarked'
  BY <1>1, <1>4 DEF EndIsMarked, Counted
<1>8. SpanInMarker'
  BY <1>1, <1>4, <1>5 DEF SpanInMarker
<1>9. OneHolds'
  BY <1>3, UnitNames DEF OneHolds
<1> QED
  BY <1>3, <1>6, <1>7, <1>8, <1>9

LEMMA SessionStep ==
    ASSUME LowerInv, [Lower!Next]_lower
    PROVE  Session'
<1> USE DEF LowerInv
<1> DEFINE rec == st["record"]
           pre == st["preview"]
<1>0. rec \in States /\ pre \in States
  BY LowerFields, UnitNames
<1>1. ASSUME UNCHANGED <<st, marker, left, span>>
      PROVE  Session'
  BY <1>1 DEF Session, Counted, EndIsMarked, SpanInMarker, OneHolds, Lower!Holds
<1>2. CASE ServerAction \/ UNCHANGED lower
  BY <1>1, <1>2, ServerKeepsUnits DEF lower
<1>3. CASE CallAction
  BY <1>1, <1>3, CallIsJob, JobKeepsSession
<1>4. ASSUME NEW u \in Lower!Units, Lower!AutoRestart(u)
      PROVE  Session'
  BY <1>4, JobKeepsSession
\* One unit becomes s, and neither the marker nor the times change.
<1>5. ASSUME NEW u \in Lower!Units, NEW s \in States, Lower!Become(u, s),
             UNCHANGED <<marker, left, span>>,
             s = "run" => st[u] \in {"open", "boot"} /\ ~Lower!Holds(Lower!Other(u)),
             s = "run" /\ u = "record" => st[u] = "open",
             s \in {"run", "wait"}, st[u] # "dead"
      PROVE  Session'
  <2>1. BecomeEffect(u, s)
    BY <1>5, BecomeIs
  <2>2. Counted' /\ EndIsMarked' /\ SpanInMarker'
    BY <1>5, <2>1, UnitNames
    DEF BecomeEffect, Session, Counted, EndIsMarked, SpanInMarker
  <2>3. OneHolds'
    BY <1>5, <2>1, UnitNames DEF BecomeEffect, Session, OneHolds, Lower!Holds
  <2> QED
    BY <2>2, <2>3 DEF Session
<1>6. ASSUME NEW u \in Lower!Units, Lower!OpenCamera(u) \/ Lower!Fail(u)
      PROVE  Session'
  <2>1. CASE Lower!OpenCamera(u)
    BY <1>5, <2>1 DEF Lower!OpenCamera, States
  <2>2. CASE Lower!Fail(u)
    BY <1>5, <2>2 DEF Lower!Fail, States
  <2> QED
    BY <1>6, <2>1, <2>2
<1>7. ASSUME NEW u \in Lower!Units, Lower!Cleanup(u)
      PROVE  Session'
  <2>1. /\ st'[u] \in {"boot", "dead"} /\ st'[Lower!Other(u)] = st[Lower!Other(u)]
        /\ u = "record" => st'[u] = "dead" \/ span' = None
        /\ u # "record" => UNCHANGED <<marker, span>>
        /\ left' = left
    BY <1>7, BecomeIs DEF Lower!Cleanup, BecomeEffect, States
  <2>2. CASE u = "record"
    BY <2>1, <2>2, UnitNames
    DEF Session, Counted, EndIsMarked, SpanInMarker, OneHolds, Lower!Holds
  <2>3. CASE u = "preview"
    BY <2>1, <2>3, UnitNames
    DEF Session, Counted, EndIsMarked, SpanInMarker, OneHolds, Lower!Holds
  <2> QED
    BY <2>2, <2>3, UnitNames
<1>8. CASE Lower!ReadSession
  <2>1. Lower!Holds("preview")' <=> Lower!Holds("preview")
    BY <1>8, BecomeIs, UnitNames DEF Lower!ReadSession, BecomeEffect, States, Lower!Holds
  <2>2. CASE Lower!Remaining = 0
    <3>1. st'["record"] = "dead"
      BY <1>8, <2>2, BecomeIs, UnitNames DEF Lower!ReadSession, BecomeEffect, States
    <3> QED
      BY <2>1, <3>1 DEF Session, Counted, EndIsMarked, SpanInMarker, OneHolds, Lower!Holds
  <2>3. CASE Lower!Remaining # 0
    <3>1. st'["record"] = "open" /\ left' = Lower!Remaining
      BY <1>8, <2>3, BecomeIs, UnitNames DEF Lower!ReadSession, BecomeEffect, States
    <3>2. /\ marker' = (IF marker = None THEN 0 ELSE marker)
          /\ span' = (IF span = None THEN 0 ELSE span)
      BY <1>8, <2>3 DEF Lower!ReadSession
    <3>3. /\ marker' \in Nat /\ left' + marker' = Ceiling /\ left' \in Nat /\ 1 <= left'
          /\ Ceiling \in Nat
      BY <2>3, <3>1, <3>2, LowerFields DEF Lower!Remaining
    <3>4. span # None => marker \in Nat /\ (span <= marker \/ marker = Ceiling)
      BY <1>8 DEF Lower!ReadSession, Session, SpanInMarker
    <3>5. span' \in Nat /\ span' <= marker'
      <4>1. CASE span = None
        BY <3>2, <3>3, <4>1
      <4>2. CASE span # None
        <5>1. marker' = marker /\ span' = span /\ span \in Nat /\ marker \in Nat
          BY <3>2, <3>4, <4>2, LowerFields
        <5>3. marker' # Ceiling
          BY <3>3, PartsOfWhole
        <5>2. marker # Ceiling
          BY <5>1, <5>3
        <5> QED
          BY <3>4, <4>2, <5>1, <5>2
      <4> QED
        BY <4>1, <4>2
    <3>6. Counted'
      <4>1. left' + marker' <= Ceiling
        BY <3>3, PartsOfWhole
      <4>2. marker' \in Nat /\ 1 <= left' /\ span' \in Nat /\ span' <= marker'
        BY <3>3, <3>5
      <4> QED
        BY <4>1, <4>2 DEF Counted
    <3>8. EndIsMarked' /\ SpanInMarker'
      BY <3>1, <3>3, <3>5 DEF EndIsMarked, SpanInMarker
    <3>7. OneHolds'
      BY <2>1, <3>1 DEF OneHolds, Lower!Holds
    <3> QED
      BY <3>6, <3>7, <3>8 DEF Session
  <2> QED
    BY <2>2, <2>3
<1>9. CASE Lower!CheckDisk
  <2>1. CASE left' \in 1..(left - 1) /\ UNCHANGED <<st, marker>>
    <3>1. span' = span /\ left \in Nat /\ left' \in Nat /\ left' < left /\ 1 <= left'
      BY <1>9, <2>1, LowerFields DEF Lower!CheckDisk
    <3>2. Counted'
      BY <2>1, <3>1 DEF Session, Counted
    <3> QED
      BY <2>1, <3>1, <3>2 DEF Session, EndIsMarked, SpanInMarker, OneHolds, Lower!Holds
  <2>2. CASE Lower!Become("record", "dead")
    <3>1. st'["record"] = "dead"
      BY <2>2, BecomeIs, UnitNames DEF BecomeEffect, States
    <3> QED
      BY <3>1 DEF Session, Counted, EndIsMarked, SpanInMarker, OneHolds, Lower!Holds
  <2> QED
    BY <1>9, <2>1, <2>2 DEF Lower!CheckDisk
<1>10. CASE Lower!Finish
  <2>1. st'["record"] = "dead"
    BY <1>10, BecomeIs, UnitNames DEF Lower!Finish, BecomeEffect, States
  <2> QED
    BY <2>1 DEF Session, Counted, EndIsMarked, SpanInMarker, OneHolds, Lower!Holds
<1>11. CASE Lower!PowerCycle
  <2>1. st'["record"] = "dead"
    BY <1>11, UnitNames DEF Lower!PowerCycle
  <2> QED
    BY <2>1 DEF Session, Counted, EndIsMarked, SpanInMarker, OneHolds, Lower!Holds
<1>12. CASE Lower!Tick
  <2>1. /\ st' = st /\ rec \notin {"open", "end"}
        /\ rec = "run" => left > 0 /\ left' = left - 1
        /\ marker' = Lower!Older(marker, Ceiling) /\ span' = Lower!Older(span, Ceiling + 1)
    BY <1>12, UnitNames DEF Lower!Tick
  <2>2. Counted'
    <3>1. CASE rec # "run"
      BY <2>1, <3>1 DEF Counted
    <3>2. CASE rec = "run"
      <4>1. /\ marker \in Nat /\ span \in Nat /\ span <= marker /\ left + marker <= Ceiling
            /\ left \in Nat /\ 0 < left /\ Ceiling \in Nat /\ marker # None /\ span # None
        BY <2>1, <3>2, LowerFields DEF Session, Counted
      <4>2. marker' = marker + 1 /\ span' = span + 1 /\ left' = left - 1
        BY <2>1, <3>2, <4>1 DEF Lower!Older
      <4> QED
        BY <2>1, <3>2, <4>1, <4>2 DEF Counted
    <3> QED
      BY <3>1, <3>2
  <2>3. SpanInMarker'
    <3>1. SUFFICES ASSUME rec # "dead", span' # None
                   PROVE  marker' \in Nat /\ (span' <= marker' \/ marker' = Ceiling)
      BY <2>1 DEF SpanInMarker
    <3>2. span # None
      BY <2>1, <3>1 DEF Lower!Older
    <3>5. marker \in Nat /\ (span <= marker \/ marker = Ceiling)
      BY <3>1, <3>2 DEF Session, SpanInMarker
    <3>3. /\ marker \in 0..Ceiling /\ (span <= marker \/ marker = Ceiling)
          /\ span \in 0..(Ceiling + 1) /\ Ceiling \in Nat /\ marker # None
      BY <3>2, <3>5, LowerFields
    <3>4. /\ marker' = (IF marker = Ceiling THEN Ceiling ELSE marker + 1)
          /\ span' = (IF span = Ceiling + 1 THEN Ceiling + 1 ELSE span + 1)
      BY <2>1, <3>2, <3>3 DEF Lower!Older
    <3> QED
      BY <3>3, <3>4
  <2>4. EndIsMarked' /\ OneHolds'
    BY <2>1 DEF Session, EndIsMarked, OneHolds, Lower!Holds
  <2> QED
    BY <2>2, <2>3, <2>4 DEF Session
<1> QED
  BY LowerSteps, <1>2, <1>3, <1>4, <1>6, <1>7, <1>8, <1>9, <1>10, <1>11, <1>12
  DEF UnitAction, Lower!Process

LEMMA LowerInvInit ==
    ASSUME Lower!Init
    PROVE  LowerInv
<1>1. st["record"] = "dead" /\ st["preview"] = "dead"
  BY UnitNames DEF Lower!Init
<1> QED
  BY <1>1, LowerTypeInit
  DEF LowerInv, Session, Counted, EndIsMarked, SpanInMarker, OneHolds, Lower!Holds

LEMMA LowerInvStep ==
    ASSUME LowerInv, [PartsNext]_<<vars, track, lower, part>>
    PROVE  LowerInv'
<1>1. Lower!TypeOK'
  BY LowerOrNot, UnitTypes, WatchTypes DEF LowerInv, Times, Watch, States, Pcs, Lower!TypeOK
<1> QED
  BY <1>1, LowerOrNot, SessionStep DEF LowerInv

\* A press of REC never records beyond the ceiling, however often the capture fails and is
\* restarted, the disk is short, a preview takes the camera or the board is powered off.
THEOREM CeilingKept == PartsSpec => []CeilingHolds
<1>1. PartsInit => LowerInv
  BY LowerInvInit DEF PartsInit
<1>2. LowerInv /\ [PartsNext]_<<vars, track, lower, part>> => LowerInv'
  BY LowerInvStep
<1>3. LowerInv => CeilingHolds
  BY LowerFields DEF LowerInv, Session, Counted, CeilingHolds, Lower!CeilingHolds
<1> QED
  BY <1>1, <1>2, <1>3, PTL DEF PartsSpec

-----------------------------------------------------------------------------
(* The refinement: who holds the camera is OneCamera's mode, the marker its  *)
(* session.  Every step of the units, the handlers, the watchdog and the     *)
(* surroundings is a step of OneCamera or leaves both alone.                 *)

LEMMA ModeIs ==
    /\ Lower!Holds("record") => Lower!Mode = "record"
    /\ ~Lower!Holds("record") /\ Lower!Holds("preview") => Lower!Mode = "preview"
    /\ ~Lower!Holds("record") /\ ~Lower!Holds("preview") => Lower!Mode = "off"
BY DEF Lower!Mode

LEMMA ModeIsNext ==
    /\ Lower!Holds("record")' => Lower!Mode' = "record"
    /\ ~Lower!Holds("record")' /\ Lower!Holds("preview")' => Lower!Mode' = "preview"
    /\ ~Lower!Holds("record")' /\ ~Lower!Holds("preview")' => Lower!Mode' = "off"
BY DEF Lower!Mode

\* Who holds the camera is the same: so is the mode.
LEMMA SameMode ==
    ASSUME \A v \in Lower!Units : Lower!Holds(v)' <=> Lower!Holds(v)
    PROVE  Lower!Mode' = Lower!Mode
BY UnitNames, ModeIs, ModeIsNext

LEMMA HeldUnit ==
    ASSUME Lower!TypeOK, NEW u \in Lower!Units, NEW s \in States, Lower!Become(u, s)
    PROVE  /\ Lower!Holds(Lower!Other(u))' <=> Lower!Holds(Lower!Other(u))
           /\ Lower!Holds(u)' <=> s \in {"run", "end"}
BY BecomeIs DEF BecomeEffect, Lower!Holds

LEMMA CameraRefines ==
    ASSUME LowerInv, [Lower!Next]_lower
    PROVE  [Lower!Camera!Next]_<<Lower!Mode, marker>>
<1> USE DEF LowerInv
<1>1. ASSUME Lower!Mode' = Lower!Mode, marker' = marker
      PROVE  [Lower!Camera!Next]_<<Lower!Mode, marker>>
  BY <1>1
<1>2. ASSUME UNCHANGED <<st, marker>>
      PROVE  [Lower!Camera!Next]_<<Lower!Mode, marker>>
  BY <1>1, <1>2, SameMode DEF Lower!Holds
<1>3. CASE ServerAction \/ UNCHANGED lower
  BY <1>2, <1>3, ServerKeepsUnits DEF lower
<1>4. ASSUME NEW u \in Lower!Units, Lower!Start(u) \/ Lower!Stop(u) \/ Lower!AutoRestart(u)
      PROVE  [Lower!Camera!Next]_<<Lower!Mode, marker>>
  <2>1. marker' = marker
    BY <1>4 DEF Lower!Start, Lower!Stop, Lower!AutoRestart
  <2> QED
    BY <1>1, <1>4, <2>1, SameMode, JobKeepsSession
<1>5. CASE CallAction
  BY <1>2, <1>4, <1>5, CallIsJob
<1>6. ASSUME NEW u \in Lower!Units, Lower!OpenCamera(u)
      PROVE  [Lower!Camera!Next]_<<Lower!Mode, marker>>
  <2>1. marker' = marker /\ ~Lower!Holds(u)
    BY <1>6 DEF Lower!OpenCamera, Lower!Holds
  <2>2. CASE missing \/ Lower!Holds(Lower!Other(u))
    <3>1. Lower!Become(u, "wait")
      BY <1>6, <2>2 DEF Lower!OpenCamera
    <3>2. \A v \in Lower!Units : Lower!Holds(v)' <=> Lower!Holds(v)
      BY <2>1, <3>1, HeldUnit, UnitNames DEF States
    <3> QED
      BY <1>1, <2>1, <3>2, SameMode
  <2>3. CASE ~(missing \/ Lower!Holds(Lower!Other(u)))
    <3>1. Lower!Become(u, "run")
      BY <1>6, <2>3 DEF Lower!OpenCamera
    <3>2. Lower!Mode = "off" /\ Lower!Mode' = u
      BY <2>1, <2>3, <3>1, HeldUnit, UnitNames, ModeIs, ModeIsNext DEF States
    <3>3. u = "record" => marker # None /\ marker < Ceiling
      BY <1>6, LowerFields DEF Lower!OpenCamera, Session, Counted
    <3>4. Lower!Camera!Take
      BY <2>1, <3>2, <3>3, UnitNames DEF Lower!Camera!Take
    <3> QED
      BY <3>4 DEF Lower!Camera!Next
  <2> QED
    BY <2>2, <2>3
<1>7. ASSUME NEW u \in Lower!Units, Lower!Fail(u)
      PROVE  [Lower!Camera!Next]_<<Lower!Mode, marker>>
  <2>1. marker' = marker /\ Lower!Become(u, "wait")
    BY <1>7 DEF Lower!Fail
  <2>2. ~Lower!Holds(u)' /\ (Lower!Holds(Lower!Other(u))' <=> Lower!Holds(Lower!Other(u)))
    BY <2>1, HeldUnit DEF States
  <2>3. CASE Lower!Holds(u)
    <3>1. ~Lower!Holds(Lower!Other(u))
      BY <2>3, UnitNames DEF Session, OneHolds
    <3>2. Lower!Mode # "off" /\ Lower!Mode' = "off"
      BY <2>2, <2>3, <3>1, UnitNames, ModeIs, ModeIsNext
    <3> QED
      BY <2>1, <3>2 DEF Lower!Camera!Next, Lower!Camera!Leave
  <2>4. CASE ~Lower!Holds(u)
    BY <1>1, <2>1, <2>2, <2>4, SameMode, UnitNames
  <2> QED
    BY <2>3, <2>4
<1>8. ASSUME NEW u \in Lower!Units, Lower!Cleanup(u)
      PROVE  [Lower!Camera!Next]_<<Lower!Mode, marker>>
  <2>1. Lower!Holds(u) /\ ~Lower!Holds(Lower!Other(u))
    BY <1>8, UnitNames DEF Lower!Cleanup, Lower!Holds, Session, OneHolds
  <2>2. ~Lower!Holds(u)' /\ ~Lower!Holds(Lower!Other(u))'
    BY <1>8, <2>1, HeldUnit DEF Lower!Cleanup, States
  <2>3. Lower!Mode = u /\ Lower!Mode' = "off"
    BY <2>1, <2>2, UnitNames, ModeIs, ModeIsNext
  <2>4. CASE u = "record"
    <3>1. marker # None /\ marker' = None
      BY <1>8, <2>4, LowerFields DEF Lower!Cleanup, Session, EndIsMarked
    <3> QED
      BY <2>3, <2>4, <3>1 DEF Lower!Camera!Next, Lower!Camera!Close
  <2>5. CASE u # "record"
    <3>1. marker' = marker
      BY <1>8, <2>5 DEF Lower!Cleanup
    <3> QED
      BY <2>3, <2>5, <3>1, UnitNames DEF Lower!Camera!Next, Lower!Camera!Leave
  <2> QED
    BY <2>4, <2>5
\* The recording unit gives its session up without holding the camera.
<1>9. ASSUME Lower!Become("record", "dead"), ~Lower!Holds("record"), marker' = None
      PROVE  [Lower!Camera!Next]_<<Lower!Mode, marker>>
  <2>1. Lower!Mode' = Lower!Mode /\ Lower!Mode # "record"
    BY <1>9, HeldUnit, UnitNames, SameMode, ModeIs DEF States
  <2>2. CASE marker = None
    BY <1>1, <1>9, <2>1, <2>2
  <2>3. CASE marker # None
    BY <1>9, <2>1, <2>3 DEF Lower!Camera!Next, Lower!Camera!Close
  <2> QED
    BY <2>2, <2>3
<1>10. CASE Lower!ReadSession
  <2>1. ~Lower!Holds("record")
    BY <1>10 DEF Lower!ReadSession, Lower!Holds
  <2>2. CASE Lower!Remaining = 0
    BY <1>9, <1>10, <2>1, <2>2 DEF Lower!ReadSession
  <2>3. CASE Lower!Remaining # 0
    <3>1. Lower!Become("record", "open") /\ marker' = (IF marker = None THEN 0 ELSE marker)
      BY <1>10, <2>3 DEF Lower!ReadSession
    <3>2. Lower!Mode' = Lower!Mode
      BY <2>1, <3>1, HeldUnit, UnitNames, SameMode DEF States
    <3>3. CASE marker = None
      BY <3>1, <3>2, <3>3 DEF Lower!Camera!Next, Lower!Camera!Open
    <3>4. CASE marker # None
      BY <1>1, <3>1, <3>2, <3>4
    <3> QED
      BY <3>3, <3>4
  <2> QED
    BY <2>2, <2>3
<1>11. CASE Lower!CheckDisk
  <2>1. ~Lower!Holds("record")
    BY <1>11 DEF Lower!CheckDisk, Lower!Holds
  <2>2. CASE UNCHANGED <<st, marker>>
    BY <1>2, <2>2
  <2>3. CASE marker' = None /\ Lower!Become("record", "dead")
    BY <1>9, <2>1, <2>3
  <2> QED
    BY <1>11, <2>2, <2>3 DEF Lower!CheckDisk
<1>12. CASE Lower!Finish
  <2>1. marker # None /\ marker' = None /\ Lower!Holds("record")
    BY <1>12, LowerFields DEF Lower!Finish, Session, Counted, Lower!Holds
  <2>2. ~Lower!Holds("record")' /\ ~Lower!Holds("preview")'
    BY <1>12, <2>1, HeldUnit, UnitNames DEF Lower!Finish, States, Session, OneHolds
  <2>3. Lower!Mode = "record" /\ Lower!Mode' = "off"
    BY <2>1, <2>2, ModeIs, ModeIsNext
  <2> QED
    BY <2>1, <2>3 DEF Lower!Camera!Next, Lower!Camera!Close
<1>13. CASE Lower!PowerCycle
  <2>1. \A v \in Lower!Units : ~Lower!Holds(v)'
    BY <1>13 DEF Lower!PowerCycle, Lower!Holds
  <2>2. Lower!Mode' = "off" /\ marker' = None
    BY <1>13, <2>1, UnitNames, ModeIsNext DEF Lower!PowerCycle
  <2> QED
    BY <2>2 DEF Lower!Camera!Next, Lower!Camera!PowerOff
<1>14. CASE Lower!Tick
  <2>1. Lower!Mode' = Lower!Mode
    BY <1>14, SameMode DEF Lower!Tick, Lower!Holds
  <2>2. marker' = Lower!Camera!Age(marker)
    BY <1>14 DEF Lower!Tick, Lower!Older, Lower!Camera!Age
  <2>3. Lower!Mode = "record" => marker # Ceiling
    <3>1. Lower!Mode = "record" => st["record"] = "run"
      BY <1>14, UnitNames, ModeIs DEF Lower!Tick, Lower!Holds
    <3>2. st["record"] = "run" => left > 0 /\ left + marker <= Ceiling /\ marker \in Nat
      BY <1>14 DEF Lower!Tick, Session, Counted
    <3> QED
      BY <3>1, <3>2, LowerFields
  <2> QED
    BY <2>1, <2>2, <2>3 DEF Lower!Camera!Next, Lower!Camera!Tick
<1> QED
  BY LowerSteps, <1>3, <1>4, <1>5, <1>6, <1>7, <1>8, <1>10, <1>11, <1>12, <1>13, <1>14
  DEF UnitAction, Lower!Process

\* The lower camera implements the camera its users were promised: one of preview and
\* recording at a time, recordings only within a session, and a session no longer than the
\* ceiling, counted from its beginning whatever interrupts it.
THEOREM CameraImplemented == PartsSpec => ImplementsCamera
<1>1. PartsInit => Lower!Camera!Init
  <2>1. SUFFICES ASSUME Lower!Init
                 PROVE  Lower!Camera!Init
    BY DEF PartsInit
  <2>2. ~Lower!Holds("record") /\ ~Lower!Holds("preview")
    BY <2>1, UnitNames DEF Lower!Init, Lower!Holds
  <2> QED
    BY <2>1, <2>2, ModeIs DEF Lower!Init, Lower!Camera!Init
<1>2. PartsInit => LowerInv
  BY LowerInvInit DEF PartsInit
<1>3. LowerInv /\ [PartsNext]_<<vars, track, lower, part>> => LowerInv'
  BY LowerInvStep
<1>4. LowerInv /\ [PartsNext]_<<vars, track, lower, part>>
        => [Lower!Camera!Next]_<<Lower!Mode, marker>>
  BY CameraRefines, LowerOrNot
<1> QED
  BY <1>1, <1>2, <1>3, <1>4, PTL
  DEF PartsSpec, ImplementsCamera, Lower!ImplementsCamera, Lower!Camera!Spec

-----------------------------------------------------------------------------
(* The board's video: types.                                                 *)

LEMMA VideoOrNot ==
    ASSUME [PartsNext]_<<vars, track, lower, part>>
    PROVE  [Next]_vars
BY DEF PartsNext

LEMMA BestIsMode ==
    ASSUME NEW c \in Cameras
    PROVE  /\ Best[c][1] \in Formats /\ Best[c][2] \in Sizes /\ Best[c][1] # None
           /\ Best[c] = <<Best[c][1], Best[c][2]>>
<1>1. Best[c] \in Modes
  BY VideoBoardAssumption DEF Modes
<1> QED
  BY <1>1, VideoBoardAssumption DEF Formats, Sizes

LEMMA PairIsIn ==
    ASSUME NEW A, NEW B, NEW a \in A, NEW b \in B, NEW m, m = <<a, b>>
    PROVE  m \in A \X B
OBVIOUS

Captures == [pc : {"down", "wait", "exec", "shake", "play"}, env : Env, target : BOOLEAN,
             dev : Cameras, mode : Formats \X Sizes]
Chosen == [pc : {"idle", "json", "env", "restart"}, to : Cameras, read : Env]
Managed == [pc : {"idle", "restart"}, config : Json]
Started == [pc : {"idle", "write", "restart", "check", "undo"}, read : Env]
Stopped == [pc : {"idle", "read", "write", "restart"}, read : Env]

VideoTypes ==
    /\ env \in Env /\ json \in Json
    /\ target \in BOOLEAN /\ approved \in BOOLEAN /\ active \in BOOLEAN
    /\ relaying \in BOOLEAN /\ unmet \in BOOLEAN /\ spoiled \in BOOLEAN
    /\ plugged \in SUBSET Cameras
    /\ cap \in Captures /\ camera \in Chosen /\ manager \in Managed
    /\ starting \in Started /\ stopping \in Stopped
    /\ relay \in {"off", "poll", "written", "gone", "restarted"}

LEMMA VideoFields == TypeOK <=> /\ VideoTypes
                               /\ requests \in 0..MaxRequests /\ faults \in 0..MaxFaults
BY DEF TypeOK, VideoTypes, Captures, Chosen, Managed, Started, Stopped

LEMMA ModeIsMode ==
    ASSUME NEW e \in Env, NEW j \in Json
    PROVE  Mode(e, j) \in Formats \X Sizes
BY DEF Mode, Env, Json

LEMMA ExecTypes ==
    ASSUME VideoTypes, Exec
    PROVE  /\ cap' \in Captures
           /\ cap' = [cap EXCEPT !.pc = "exec", !.env = env, !.target = target]
           /\ cap'.pc = "exec" /\ cap'.env = env /\ unmet' = FALSE
BY DEF VideoTypes, Exec, Captures

LEMMA RestartTypes ==
    ASSUME VideoTypes, Restart
    PROVE  cap' \in Captures /\ unmet' \in BOOLEAN
<1>1. CASE Exec
  BY <1>1, ExecTypes
<1>2. CASE UNCHANGED cap /\ unmet' = TRUE
  BY <1>2 DEF VideoTypes
<1> QED
  BY <1>1, <1>2 DEF Restart

LEMMA VideoBudgets ==
    ASSUME TypeOK, [Next]_vars
    PROVE  requests' \in 0..MaxRequests /\ faults' \in 0..MaxFaults
<1> USE DEF Next, Capture, CapLoad, CapOpen, CapEnds, CapRetry, CapFails, SetCamera, PlugChanges,
        CameraStep, SetCameraMode, SetCameraEnv, SetCameraRestart, SetConfig, ApplyConfig,
        TrackStart, TrackStop, StartStep, TrackStartWrite, TrackStartRestart, TrackStartCheck,
        TrackStartUndo, Restart, StopStep, TrackStopRead, TrackStopWrite, TrackStopRestart,
        TrackControlRestarts,
        RelayStep, RelayPoll, RelayRestart, RelayMark, RelayStarts, RelayStop, RelayDies,
        ApprovalChanges, vars
<1>1. requests' = requests \/ Request
  OBVIOUS
<1>2. faults' = faults \/ Fault
  OBVIOUS
<1>3. MaxRequests \in Nat /\ MaxFaults \in Nat
  BY VideoBoardAssumption
<1>4. requests \in 0..MaxRequests /\ faults \in 0..MaxFaults
  BY DEF TypeOK
<1>5. requests' \in 0..MaxRequests
  BY ONLY <1>1, <1>3, <1>4 DEF Request
<1>6. faults' \in 0..MaxFaults
  BY ONLY <1>2, <1>3, <1>4 DEF Fault
<1> QED
  BY <1>5, <1>6

LEMMA CaptureTypes ==
    ASSUME VideoTypes, Capture \/ CapFails
    PROVE  VideoTypes'
<1> USE DEF VideoTypes, capture, tracking
<1>1. CASE CapLoad
  <2>1. CASE ~cap.target
    BY <1>1, <2>1 DEF CapLoad, Captures
  <2>2. CASE cap.target
    <3>1. PICK c \in Resolve(cap.env.dev) :
            cap' = [cap EXCEPT !.pc = "shake", !.dev = c, !.mode = Mode(cap.env, json)]
      BY <1>1, <2>2 DEF CapLoad
    <3>2. c \in Cameras /\ Mode(cap.env, json) \in Formats \X Sizes
      BY ModeIsMode DEF Resolve, Captures, Env
    <3>3. cap' \in Captures
      BY <3>1, <3>2 DEF Captures
    <3> QED
      BY <1>1, <3>3 DEF CapLoad
  <2> QED
    BY <2>1, <2>2 DEF Captures
<1>2. CASE CapOpen
  <2>1. cap.dev \in Cameras
    BY DEF Captures
  <2>2. Best[cap.dev] \in Formats \X Sizes
    <3> HIDE DEF VideoTypes
    <3> QED
      BY <2>1, BestIsMode, PairIsIn
  <2>3. cap' = [cap EXCEPT !.pc = "wait"] \/ cap' = [cap EXCEPT !.pc = "play"]
        \/ cap' = [cap EXCEPT !.pc = "play", !.mode = Best[cap.dev]]
    BY <1>2 DEF CapOpen
  <2>5. cap' \in Captures
    BY <2>2, <2>3 DEF Captures
  <2>4. json' \in Json
    BY <1>2, <2>1, BestIsMode DEF CapOpen, Json
  <2> QED
    BY <1>2, <2>4, <2>5 DEF CapOpen
<1>3. CASE CapEnds \/ CapFails
  <2>1. cap' \in Captures
    BY <1>3 DEF CapEnds, CapFails, Captures
  <2> QED
    BY <1>3, <2>1 DEF CapEnds, CapFails
<1>4. CASE CapRetry
  BY <1>4, ExecTypes DEF CapRetry
<1> QED
  BY <1>1, <1>2, <1>3, <1>4 DEF Capture

LEMMA CameraTypes ==
    ASSUME VideoTypes, (\E c \in Cameras : SetCamera(c)) \/ CameraStep
    PROVE  VideoTypes'
<1> USE DEF VideoTypes, capture, tracking
<1>1. ASSUME NEW c \in Cameras, SetCamera(c)
      PROVE  VideoTypes'
  BY <1>1 DEF SetCamera, Chosen
<1>2. camera.to \in Cameras /\ camera.read \in Env
  BY DEF Chosen
<1>3. CASE SetCameraMode
  <2>1. json' \in Json
    BY <1>2, <1>3, BestIsMode DEF SetCameraMode, Json
  <2>2. camera' \in Chosen
    BY <1>3 DEF SetCameraMode, Chosen
  <2> QED
    BY <1>3, <2>1, <2>2 DEF SetCameraMode
<1>4. CASE SetCameraEnv
  <2>1. env' \in Env
    BY <1>2, <1>4, BestIsMode DEF SetCameraEnv, WriteEnv, Env
  <2>2. camera' \in Chosen /\ spoiled' \in BOOLEAN
    BY <1>4 DEF SetCameraEnv, WriteEnv, Chosen
  <2> QED
    BY <1>4, <2>1, <2>2 DEF SetCameraEnv
<1>5. CASE SetCameraRestart
  <2>1. camera' \in Chosen
    BY <1>5 DEF SetCameraRestart, Chosen
  <2> QED
    BY <1>5, <2>1, RestartTypes DEF SetCameraRestart
<1> QED
  BY <1>1, <1>3, <1>4, <1>5 DEF CameraStep

LEMMA ConfigTypes ==
    ASSUME VideoTypes, (\E s \in Sizes : SetConfig(s)) \/ ApplyConfig
    PROVE  VideoTypes'
<1> USE DEF VideoTypes, capture, tracking
<1>1. ASSUME NEW s \in Sizes, SetConfig(s)
      PROVE  VideoTypes'
  <2>1. [manager.config EXCEPT !.size = s] \in Json
    BY DEF Managed, Json
  <2>2. manager' \in Managed /\ json' \in Json
    BY <1>1, <2>1 DEF SetConfig, Managed
  <2> QED
    BY <1>1, <2>2 DEF SetConfig
<1>2. CASE ApplyConfig
  <2>1. manager' \in Managed
    BY <1>2 DEF ApplyConfig, Managed
  <2> QED
    BY <1>2, <2>1, RestartTypes DEF ApplyConfig
<1> QED
  BY <1>1, <1>2

LEMMA TappedTypes ==
    ASSUME NEW e \in Env, NEW on \in BOOLEAN
    PROVE  Tapped(e, on) \in Env /\ Tapped(e, on).tap = on
BY DEF Tapped, Env

LEMMA TrackTypes ==
    ASSUME VideoTypes,
           TrackStart \/ StartStep \/ TrackStop \/ StopStep \/ TrackControlRestarts
    PROVE  VideoTypes'
<1> USE DEF VideoTypes, capture, tracking
<1>1. starting.read \in Env /\ stopping.read \in Env /\ env.tap \in BOOLEAN
  BY DEF Started, Stopped, Env
<1>2. /\ Tapped(starting.read, TRUE) \in Env /\ Tapped(starting.read, FALSE) \in Env
      /\ Tapped(stopping.read, FALSE) \in Env
  BY <1>1, TappedTypes
<1>3. CASE TrackStart
  BY <1>3 DEF TrackStart, Started
<1>4. CASE TrackStartWrite
  BY <1>2, <1>4 DEF TrackStartWrite, WriteEnv, Started
<1>5. CASE TrackStartRestart
  <2>1. starting' \in Started
    BY <1>5 DEF TrackStartRestart, Started
  <2>2. cap' \in Captures /\ unmet' \in BOOLEAN
    BY <1>5, ExecTypes DEF TrackStartRestart
  <2> QED
    BY <1>5, <2>1, <2>2 DEF TrackStartRestart
<1>6. CASE TrackStartCheck
  <2>1. starting' \in Started
    BY <1>6 DEF TrackStartCheck, Started
  <2>2. active' \in BOOLEAN
    BY <1>6 DEF TrackStartCheck
  <2> QED
    BY <1>6, <2>1, <2>2 DEF TrackStartCheck
<1>12. CASE TrackStartUndo
  <2>1. starting' \in Started
    BY <1>12 DEF TrackStartUndo, Started
  <2>2. env' \in Env /\ unmet' \in BOOLEAN /\ spoiled' \in BOOLEAN
    BY <1>2, <1>12 DEF TrackStartUndo, WriteEnv
  <2> QED
    BY <1>12, <2>1, <2>2 DEF TrackStartUndo
<1>7. CASE TrackStop
  BY <1>7 DEF TrackStop, Stopped
<1>8. CASE TrackStopRead
  BY <1>8 DEF TrackStopRead, Stopped
<1>9. CASE TrackStopWrite
  BY <1>2, <1>9 DEF TrackStopWrite, WriteEnv, Stopped
<1>10. CASE TrackStopRestart
  <2>1. stopping' \in Stopped
    BY <1>10 DEF TrackStopRestart, Stopped
  <2> QED
    BY <1>10, <2>1, RestartTypes DEF TrackStopRestart
<1>11. CASE TrackControlRestarts
  BY <1>1, <1>11 DEF TrackControlRestarts, Started, Stopped
<1> QED
  BY <1>3, <1>4, <1>5, <1>6, <1>7, <1>8, <1>9, <1>10, <1>11, <1>12 DEF StartStep, StopStep

LEMMA RelayTypes ==
    ASSUME VideoTypes,
           \/ RelayStep \/ RelayStop \/ RelayDies \/ ApprovalChanges
           \/ \E c \in Cameras : PlugChanges(c)
    PROVE  VideoTypes'
<1> USE DEF VideoTypes, capture, tracking
<1>1. CASE RelayPoll \/ RelayMark \/ RelayStarts \/ RelayDies \/ ApprovalChanges
  BY <1>1 DEF RelayPoll, RelayMark, RelayStarts, RelayDies, ApprovalChanges
<1>2. CASE RelayRestart
  BY <1>2, RestartTypes DEF RelayRestart
<1>3. CASE RelayStop
  <2>1. cap' \in Captures /\ unmet' \in BOOLEAN
    BY <1>3 DEF RelayStop, Captures
  <2> QED
    BY <1>3, <2>1 DEF RelayStop
<1>4. ASSUME NEW c \in Cameras, PlugChanges(c)
      PROVE  VideoTypes'
  BY <1>4 DEF PlugChanges
<1> QED
  BY <1>1, <1>2, <1>3, <1>4 DEF RelayStep

LEMMA VideoTypeStep ==
    ASSUME TypeOK, [Next]_vars
    PROVE  TypeOK'
<1>1. VideoTypes
  BY VideoFields
<1>2. CASE UNCHANGED vars
  BY <1>1, <1>2 DEF vars, capture, tracking, TypeOK
<1>3. CASE Next
  <2>1. VideoTypes'
    BY <1>1, <1>3, CaptureTypes, CameraTypes, ConfigTypes, TrackTypes, RelayTypes DEF Next
  <2> QED
    BY <2>1, VideoBudgets, VideoFields
       DEF TypeOK, VideoTypes, Captures, Chosen, Managed, Started, Stopped
<1> QED
  BY <1>2, <1>3
-----------------------------------------------------------------------------
(* The board's video: a capture that streams runs what the files say.        *)

EnvDue ==
    camera.pc = "restart" \/ starting.pc \in {"restart", "undo"} \/ stopping.pc = "restart"
JsonDue == camera.pc \in {"env", "restart"} \/ manager.pc = "restart"

\* What a capture has read of .env is what the file says, or its writer will restart it, or
\* has failed to.
EnvFresh == cap.pc \in {"exec", "shake", "play"} => cap.env = env \/ EnvDue \/ unmet

\* The mode it runs is that of the files it has read, or their writer will restart it, or has
\* failed to.
ModeFresh ==
    cap.pc \in {"shake", "play"} => cap.mode = Mode(cap.env, json) \/ JsonDue \/ unmet

\* The control's flag and the file's, at each step of a start and of a stop.
FlagKept ==
    /\ starting.pc = "idle" \/ stopping.pc = "idle"
    /\ starting.pc = "idle" /\ stopping.pc = "idle" => active = env.tap
    /\ starting.pc = "write" => ~active /\ ~env.tap
    /\ starting.pc \in {"restart", "check", "undo"} => ~active /\ env.tap
    /\ stopping.pc \in {"read", "write"} => ~active /\ env.tap
    /\ stopping.pc = "restart" => ~active /\ ~env.tap

Fresh == EnvFresh /\ ModeFresh /\ FlagKept

VideoInv == TypeOK /\ (~spoiled => Fresh)

\* A write undone stays undone.
LEMMA SpoiledStays ==
    ASSUME VideoTypes, [Next]_vars, spoiled
    PROVE  spoiled'
BY DEF VideoTypes, Next, Capture, CapLoad, CapOpen, CapEnds, CapRetry, CapFails, SetCamera,
       PlugChanges, CameraStep, SetCameraMode, SetCameraEnv, SetCameraRestart, SetConfig,
       ApplyConfig, TrackStart, TrackStop, StartStep, TrackStartWrite, TrackStartRestart,
       TrackStartCheck, TrackStartUndo, Restart, StopStep, TrackStopRead, TrackStopWrite,
       TrackStopRestart,
       TrackControlRestarts, RelayStep, RelayPoll, RelayRestart, RelayMark, RelayStarts,
       RelayStop, RelayDies, ApprovalChanges, WriteEnv, vars

\* A capture started anew has read nothing but .env as it is.
LEMMA ExecIsFresh ==
    ASSUME VideoTypes, Exec, env' = env, FlagKept'
    PROVE  Fresh'
<1>1. cap'.pc = "exec" /\ cap'.env = env'
  BY ExecTypes
<1> QED
  BY <1>1 DEF Fresh, EnvFresh, ModeFresh

\* A restart that fails is one the capture owes.
LEMMA RestartIsFresh ==
    ASSUME VideoTypes, Restart, env' = env, FlagKept'
    PROVE  Fresh'
<1>1. CASE Exec
  BY <1>1, ExecIsFresh
<1>2. CASE unmet'
  BY <1>2 DEF Fresh, EnvFresh, ModeFresh
<1> QED
  BY <1>1, <1>2 DEF Restart

\* A step that leaves the files, the capture and the writers alone.
LEMMA SameIsFresh ==
    ASSUME Fresh, UNCHANGED <<env, json, capture, camera, manager, tracking>>
    PROVE  Fresh'
BY DEF Fresh, EnvFresh, ModeFresh, EnvDue, JsonDue, FlagKept, Mode, capture, tracking

\* A step of the capture that leaves .env and the writers alone.
LEMMA CaptureIsFresh ==
    ASSUME Fresh, UNCHANGED <<env, unmet, camera, manager, tracking>>,
           cap'.pc \in {"down", "wait"} \/ (cap'.env = cap.env /\ cap.pc \in {"exec", "shake"}),
           cap'.pc \in {"shake", "play"} => cap'.mode = Mode(cap'.env, json') \/ JsonDue \/ unmet
    PROVE  Fresh'
<1>1. EnvDue' = EnvDue /\ JsonDue' = JsonDue /\ unmet' = unmet /\ FlagKept'
  BY DEF Fresh, FlagKept, EnvDue, JsonDue, tracking
<1> QED
  BY <1>1 DEF Fresh, EnvFresh, ModeFresh

LEMMA DownIsFresh ==
    ASSUME Fresh, UNCHANGED <<env, unmet, camera, manager, tracking>>, cap'.pc \in {"down", "wait"}
    PROVE  Fresh'
<1>1. FlagKept'
  BY DEF Fresh, FlagKept, tracking
<1>2. EnvFresh' /\ ModeFresh'
  BY DEF EnvFresh, ModeFresh
<1> QED
  BY <1>1, <1>2 DEF Fresh

LEMMA CaptureFresh ==
    ASSUME VideoTypes, Fresh, Capture \/ CapFails
    PROVE  Fresh'
<1>1. cap \in Captures
  BY DEF VideoTypes
<1>2. CASE CapLoad
  <2>1. CASE ~cap.target
    <3>1. cap'.pc = "down" /\ UNCHANGED <<env, unmet, camera, manager, tracking>>
      BY <1>1, <1>2, <2>1 DEF CapLoad, Captures
    <3> QED
      BY <3>1, DownIsFresh
  <2>2. CASE cap.target
    <3>1. PICK c \in Resolve(cap.env.dev) :
            cap' = [cap EXCEPT !.pc = "shake", !.dev = c, !.mode = Mode(cap.env, json)]
      BY <1>2, <2>2 DEF CapLoad
    <3>2. cap'.env = cap.env /\ cap'.mode = Mode(cap.env, json) /\ json' = json
      BY <1>1, <1>2, <3>1 DEF CapLoad, Captures
    <3>3. cap'.mode = Mode(cap'.env, json')
      BY <3>2
    <3>4. cap.pc = "exec" /\ UNCHANGED <<env, unmet, camera, manager, tracking>>
      BY <1>2 DEF CapLoad
    <3> QED
      BY <3>2, <3>3, <3>4, CaptureIsFresh
  <2> QED
    BY <2>1, <2>2 DEF VideoTypes, Captures
<1>3. CASE CapOpen
  <2>1. cap.pc = "shake" /\ UNCHANGED <<env, unmet, camera, manager, tracking>>
    BY <1>3 DEF CapOpen
  <2>2. cap.mode = Mode(cap.env, json) \/ JsonDue \/ unmet
    BY <2>1 DEF Fresh, ModeFresh
  <2>3. CASE cap.dev \notin plugged
    <3>1. cap'.pc = "wait"
      BY <1>1, <1>3, <2>3 DEF CapOpen, Captures
    <3> QED
      BY <2>1, <3>1, DownIsFresh
  <2>4. CASE cap.dev \in plugged /\ SupportsMode(cap.dev, cap.mode)
    <3>1. cap'.env = cap.env /\ cap'.mode = cap.mode /\ json' = json
      BY <1>1, <1>3, <2>4 DEF CapOpen, Captures
    <3>2. cap'.mode = Mode(cap'.env, json') \/ JsonDue \/ unmet
      BY <2>2, <3>1
    <3> QED
      BY <2>1, <3>1, <3>2, CaptureIsFresh
  <2>5. CASE cap.dev \in plugged /\ ~SupportsMode(cap.dev, cap.mode)
    <3>1. cap' = [cap EXCEPT !.pc = "play", !.mode = Best[cap.dev]]
          /\ json' = [fmt |-> Best[cap.dev][1], size |-> Best[cap.dev][2]]
      BY <1>3, <2>5 DEF CapOpen
    <3>2. cap'.env = cap.env /\ cap'.mode = Best[cap.dev]
      BY <1>1, <3>1 DEF Captures
    <3>3. cap.dev \in Cameras
      BY <1>1 DEF Captures
    <3>4. Mode(cap'.env, json') = <<Best[cap.dev][1], Best[cap.dev][2]>>
      BY <3>1, <3>3, BestIsMode DEF Mode
    <3>5. cap'.mode = Mode(cap'.env, json')
      BY <3>2, <3>3, <3>4, BestIsMode
    <3> QED
      BY <2>1, <3>2, <3>5, CaptureIsFresh
  <2> QED
    BY <2>3, <2>4, <2>5
<1>4. CASE CapEnds \/ CapFails
  <2>1. cap'.pc = "wait" /\ UNCHANGED <<env, unmet, camera, manager, tracking>>
    BY <1>1, <1>4 DEF CapEnds, CapFails, Captures
  <2> QED
    BY <2>1, DownIsFresh
<1>5. CASE CapRetry
  <2>1. Exec /\ env' = env /\ FlagKept'
    BY <1>5 DEF CapRetry, Fresh, FlagKept, tracking
  <2> QED
    BY <2>1, ExecIsFresh
<1> QED
  BY <1>2, <1>3, <1>4, <1>5 DEF Capture

LEMMA CameraFresh ==
    ASSUME VideoTypes, Fresh, ~spoiled', (\E c \in Cameras : SetCamera(c)) \/ CameraStep
    PROVE  Fresh'
<1>1. camera \in Chosen /\ camera.read \in Env
  BY DEF VideoTypes, Chosen
<1>2. ASSUME NEW c \in Cameras, SetCamera(c)
      PROVE  Fresh'
  BY <1>2 DEF SetCamera, capture, Fresh, EnvFresh, ModeFresh, EnvDue, JsonDue, FlagKept, Mode, tracking
<1>3. CASE SetCameraMode
  <2>1. camera.pc = "json" /\ camera'.pc = "env" /\ UNCHANGED <<env, cap, unmet, manager, tracking>>
    BY <1>1, <1>3 DEF SetCameraMode, capture, Chosen
  <2> QED
    BY <2>1 DEF Fresh, EnvFresh, ModeFresh, EnvDue, JsonDue, FlagKept, tracking
<1>4. CASE SetCameraEnv
  <2>1. /\ camera.pc = "env" /\ camera'.pc = "restart"
        /\ UNCHANGED <<json, cap, unmet, manager, tracking>>
    BY <1>1, <1>4 DEF SetCameraEnv, capture, Chosen
  <2>2. env'.tap = env.tap
    BY <1>1, <1>4 DEF SetCameraEnv, WriteEnv, Env
  <2> QED
    BY <2>1, <2>2 DEF Fresh, EnvFresh, ModeFresh, EnvDue, JsonDue, FlagKept, tracking
<1>5. CASE SetCameraRestart
  <2>1. Restart /\ env' = env /\ FlagKept'
    BY <1>5 DEF SetCameraRestart, Fresh, FlagKept, tracking
  <2> QED
    BY <2>1, RestartIsFresh
<1> QED
  BY <1>2, <1>3, <1>4, <1>5 DEF CameraStep

LEMMA ConfigFresh ==
    ASSUME VideoTypes, Fresh, (\E s \in Sizes : SetConfig(s)) \/ ApplyConfig
    PROVE  Fresh'
<1>1. ASSUME NEW s \in Sizes, SetConfig(s)
      PROVE  Fresh'
  <2>1. manager'.pc = "restart" /\ UNCHANGED <<env, cap, unmet, camera, tracking>>
    BY <1>1 DEF SetConfig, capture
  <2> QED
    BY <2>1 DEF Fresh, EnvFresh, ModeFresh, EnvDue, JsonDue, FlagKept, tracking
<1>2. CASE ApplyConfig
  <2>1. Restart /\ env' = env /\ FlagKept'
    BY <1>2 DEF ApplyConfig, Fresh, FlagKept, tracking
  <2> QED
    BY <2>1, RestartIsFresh
<1> QED
  BY <1>1, <1>2

\* What a writer of the flag does to the capture's freshness, when it loses nothing.
LEMMA FlagFresh ==
    ASSUME Fresh, UNCHANGED <<json, cap, camera, manager>>, FlagKept',
           \/ env' = env /\ (EnvDue => EnvDue') /\ unmet' = unmet
           \/ EnvDue' /\ unmet' = unmet
           \/ unmet'
    PROVE  Fresh'
<1>1. JsonDue' = JsonDue
  BY DEF JsonDue
<1>2. EnvFresh'
  BY DEF Fresh, EnvFresh
<1>3. ModeFresh'
  BY <1>1 DEF Fresh, ModeFresh, Mode
<1> QED
  BY <1>2, <1>3 DEF Fresh

LEMMA StartFresh ==
    ASSUME VideoTypes, Fresh, ~spoiled', TrackStart \/ StartStep
    PROVE  Fresh'
<1>1. starting \in Started /\ starting.read \in Env /\ env \in Env
  BY DEF VideoTypes, Started
<1>2. CASE TrackStart
  <2>1. /\ starting.pc = "idle" /\ ~active /\ stopping.pc = "idle"
        /\ starting'.pc = "write" /\ UNCHANGED <<env, json, cap, unmet, camera, manager, active, stopping>>
    BY <1>2 DEF TrackStart, capture
  <2>2. FlagKept' /\ (EnvDue => EnvDue')
    BY <2>1 DEF Fresh, FlagKept, EnvDue
  <2> QED
    BY <2>1, <2>2, FlagFresh
<1>3. CASE TrackStartWrite
  <2>1. /\ starting.pc = "write" /\ starting'.pc = "restart" /\ env'.tap = TRUE
        /\ UNCHANGED <<json, cap, unmet, camera, manager, active, stopping>>
    BY <1>1, <1>3, TappedTypes DEF TrackStartWrite, capture, WriteEnv, Started
  <2>2. FlagKept' /\ EnvDue'
    BY <2>1 DEF Fresh, FlagKept, EnvDue
  <2> QED
    BY <2>1, <2>2, FlagFresh
<1>4. CASE TrackStartRestart
  <2>1. /\ starting.pc = "restart" /\ starting'.pc \in {"check", "undo"}
        /\ UNCHANGED <<env, json, camera, manager, active, stopping>>
        /\ Exec \/ (starting'.pc = "undo" /\ UNCHANGED <<cap, unmet>>)
    BY <1>1, <1>4 DEF TrackStartRestart, capture, Started
  <2>2. FlagKept'
    BY <2>1 DEF Fresh, FlagKept
  <2>3. CASE Exec
    BY <2>1, <2>2, <2>3, ExecIsFresh
  <2>4. CASE starting'.pc = "undo" /\ UNCHANGED <<cap, unmet>>
    <3>1. EnvDue'
      BY <2>4 DEF EnvDue
    <3> QED
      BY <2>1, <2>2, <2>4, <3>1, FlagFresh
  <2> QED
    BY <2>1, <2>3, <2>4
<1>5. CASE TrackStartCheck
  <2>1. /\ starting.pc = "check" /\ UNCHANGED <<env, json, cap, unmet, camera, manager, stopping>>
        /\ \/ starting'.pc = "idle" /\ active' = TRUE
           \/ starting'.pc = "undo" /\ active' = active
    BY <1>1, <1>5 DEF TrackStartCheck, capture, Started
  <2>2. stopping.pc = "idle" /\ ~active /\ env.tap
    BY <2>1 DEF Fresh, FlagKept
  <2>3. EnvDue => EnvDue'
    BY <2>1 DEF EnvDue
  <2>4. CASE starting'.pc = "idle" /\ active' = TRUE
    <3>1. FlagKept'
      BY <1>1, <2>1, <2>2, <2>4 DEF FlagKept, Env
    <3> QED
      BY <2>1, <2>3, <3>1, FlagFresh
  <2>5. CASE starting'.pc = "undo" /\ active' = active
    <3>1. FlagKept'
      BY <2>1, <2>2, <2>5 DEF FlagKept
    <3> QED
      BY <2>1, <2>3, <3>1, FlagFresh
  <2> QED
    BY <2>1, <2>4, <2>5
<1>6. CASE TrackStartUndo
  <2>1. /\ starting.pc = "undo" /\ starting'.pc = "idle" /\ unmet'
        /\ UNCHANGED <<json, cap, camera, manager, active, stopping>>
    BY <1>1, <1>6 DEF TrackStartUndo, Started
  <2>2. stopping.pc = "idle" /\ ~active
    BY <2>1 DEF Fresh, FlagKept
  <2>3. env'.tap = FALSE /\ active' = FALSE /\ stopping'.pc = "idle"
    BY <1>1, <1>6, <2>1, <2>2, TappedTypes DEF TrackStartUndo, WriteEnv, VideoTypes
  <2>4. FlagKept'
    BY <2>1, <2>3 DEF FlagKept
  <2> QED
    BY <2>1, <2>4, FlagFresh
<1> QED
  BY <1>2, <1>3, <1>4, <1>5, <1>6 DEF StartStep

LEMMA StopFresh ==
    ASSUME VideoTypes, Fresh, ~spoiled', TrackStop \/ StopStep \/ TrackControlRestarts
    PROVE  Fresh'
<1>1. stopping \in Stopped /\ stopping.read \in Env /\ env \in Env /\ starting \in Started
  BY DEF VideoTypes, Stopped
<1>2. CASE TrackStop
  <2>1. /\ starting.pc = "idle" /\ active /\ stopping.pc = "idle" /\ active' = FALSE
        /\ stopping'.pc = "read" /\ UNCHANGED <<env, json, cap, unmet, camera, manager, starting>>
    BY <1>1, <1>2 DEF TrackStop, capture, Stopped
  <2>2. FlagKept' /\ (EnvDue => EnvDue')
    BY <2>1 DEF Fresh, FlagKept, EnvDue
  <2> QED
    BY <2>1, <2>2, FlagFresh
<1>3. CASE TrackStopRead
  <2>1. /\ stopping.pc = "read" /\ stopping'.pc = "write"
        /\ UNCHANGED <<env, json, cap, unmet, camera, manager, active, starting>>
    BY <1>3 DEF TrackStopRead, capture
  <2>2. FlagKept' /\ (EnvDue => EnvDue')
    BY <2>1 DEF Fresh, FlagKept, EnvDue
  <2> QED
    BY <2>1, <2>2, FlagFresh
<1>4. CASE TrackStopWrite
  <2>1. /\ stopping.pc = "write" /\ stopping'.pc = "restart" /\ env'.tap = FALSE
        /\ UNCHANGED <<json, cap, unmet, camera, manager, active, starting>>
    BY <1>1, <1>4, TappedTypes DEF TrackStopWrite, capture, WriteEnv, Stopped
  <2>2. FlagKept' /\ EnvDue'
    BY <2>1 DEF Fresh, FlagKept, EnvDue
  <2> QED
    BY <2>1, <2>2, FlagFresh
<1>5. CASE TrackStopRestart
  <2>1. /\ stopping.pc = "restart" /\ stopping'.pc = "idle" /\ Restart
        /\ UNCHANGED <<env, active, starting>>
    BY <1>1, <1>5 DEF TrackStopRestart, Stopped
  <2>2. env.tap = FALSE
    BY <1>1, <2>1 DEF Fresh, FlagKept, Env
  <2>3. active = FALSE
    BY <2>1 DEF Fresh, FlagKept, VideoTypes
  <2>4. FlagKept'
    BY <2>1, <2>2, <2>3 DEF Fresh, FlagKept
  <2> QED
    BY <2>1, <2>4, RestartIsFresh
<1>6. CASE TrackControlRestarts
  <2>1. /\ starting.pc = "idle" /\ stopping.pc = "idle" /\ active' = env.tap
        /\ starting'.pc = "idle" /\ stopping'.pc = "idle"
        /\ UNCHANGED <<env, json, cap, unmet, camera, manager>>
    BY <1>1, <1>6 DEF TrackControlRestarts, capture, Started, Stopped
  <2>2. FlagKept' /\ (EnvDue => EnvDue')
    BY <2>1 DEF FlagKept, EnvDue
  <2> QED
    BY <2>1, <2>2, FlagFresh
<1> QED
  BY <1>2, <1>3, <1>4, <1>5, <1>6 DEF StopStep

LEMMA RelayFresh ==
    ASSUME VideoTypes, Fresh,
           \/ RelayStep \/ RelayStop \/ RelayDies \/ ApprovalChanges
           \/ \E c \in Cameras : PlugChanges(c)
    PROVE  Fresh'
<1>1. CASE RelayRestart
  <2>1. Restart /\ env' = env /\ FlagKept'
    BY <1>1 DEF RelayRestart, Fresh, FlagKept, tracking
  <2> QED
    BY <2>1, RestartIsFresh
<1>2. CASE RelayStop /\ relaying
  <2>1. (cap'.pc = "exec" /\ cap'.env = env') \/ unmet'
    BY <1>2 DEF RelayStop, VideoTypes, Captures
  <2>2. FlagKept'
    BY <1>2 DEF RelayStop, Fresh, FlagKept, tracking
  <2> QED
    BY <2>1, <2>2 DEF Fresh, EnvFresh, ModeFresh
<1>3. CASE \/ RelayPoll \/ RelayMark \/ RelayStarts \/ RelayDies \/ ApprovalChanges
           \/ (RelayStop /\ ~relaying) \/ \E c \in Cameras : PlugChanges(c)
  <2>1. UNCHANGED <<env, json, capture, camera, manager, tracking>>
    BY <1>3 DEF RelayPoll, RelayMark, RelayStarts, RelayDies, ApprovalChanges, RelayStop,
                PlugChanges
  <2> QED
    BY <2>1, SameIsFresh
<1> QED
  BY <1>1, <1>2, <1>3 DEF RelayStep, VideoTypes

LEMMA VideoInvInit ==
    ASSUME Init
    PROVE  VideoInv
<1>1. PICK c \in Cameras :
        /\ env = [dev |-> c, fmt |-> Best[c][1], tap |-> FALSE]
        /\ json = [fmt |-> None, size |-> Best[c][2]]
        /\ cap = [pc |-> "down", env |-> env, target |-> FALSE, dev |-> c, mode |-> Best[c]]
        /\ camera = [pc |-> "idle", to |-> c, read |-> env]
  BY DEF Init
<1>2. env \in Env /\ env.tap = FALSE /\ json \in Json
  BY <1>1, BestIsMode DEF Env, Json
<1>3. cap \in Captures /\ cap.pc = "down"
  <2>1. Best[c] \in Formats \X Sizes
    BY BestIsMode, PairIsIn
  <2> QED
    BY <1>1, <1>2, <2>1 DEF Captures
<1>4. camera \in Chosen
  BY <1>1, <1>2 DEF Chosen
<1>5. /\ manager \in Managed /\ starting \in Started /\ stopping \in Stopped
      /\ starting.pc = "idle" /\ stopping.pc = "idle"
  BY <1>2 DEF Init, Managed, Started, Stopped
<1>6. VideoTypes
  BY <1>2, <1>3, <1>4, <1>5 DEF Init, VideoTypes
<1>7. requests \in 0..MaxRequests /\ faults \in 0..MaxFaults
  BY VideoBoardAssumption DEF Init
<1>8. Fresh
  BY <1>2, <1>3, <1>5 DEF Init, Fresh, EnvFresh, ModeFresh, FlagKept
<1> QED
  BY <1>6, <1>7, <1>8, VideoFields DEF VideoInv

LEMMA VideoInvStep ==
    ASSUME VideoInv, [Next]_vars
    PROVE  VideoInv'
<1>1. TypeOK /\ VideoTypes /\ TypeOK'
  BY VideoTypeStep, VideoFields DEF VideoInv
<1>2. SUFFICES ASSUME ~spoiled'
               PROVE  Fresh'
  BY <1>1 DEF VideoInv
<1>3. Fresh
  BY <1>1, <1>2, SpoiledStays DEF VideoInv
<1>4. CASE UNCHANGED vars
  BY <1>3, <1>4, SameIsFresh DEF vars
<1>5. CASE Next
  BY <1>1, <1>2, <1>3, <1>5, CaptureFresh, CameraFresh, ConfigFresh, StartFresh, StopFresh,
     RelayFresh DEF Next
<1> QED
  BY <1>4, <1>5

\* The board's video is of its types whatever its writers do.
THEOREM VideoTypeCorrect == PartsSpec => []TypeOK
<1>1. PartsInit => VideoInv
  BY VideoInvInit DEF PartsInit
<1>2. VideoInv /\ [PartsNext]_<<vars, track, lower, part>> => VideoInv'
  BY VideoInvStep, VideoOrNot
<1>3. VideoInv => TypeOK
  BY DEF VideoInv
<1> QED
  BY <1>1, <1>2, <1>3, PTL DEF PartsSpec

\* With no request in progress and no write undone by another writer, the tracking control's
\* flag is the file's, and a capture that streams has the settings and the mode the files
\* state, unless a restart failed or a start of tracking was taken back since its process
\* began (set_camera, set_config, the tracking control, persist_auto_mode, the relay's
\* restarts and systemd's, each of which may fail).
THEOREM RunsTheFiles == PartsSpec => []RunsWhatFilesSay
<1>1. PartsInit => VideoInv
  BY VideoInvInit DEF PartsInit
<1>2. VideoInv /\ [PartsNext]_<<vars, track, lower, part>> => VideoInv'
  BY VideoInvStep, VideoOrNot
<1>3. VideoInv => RunsWhatFilesSay
  BY DEF VideoInv, RunsWhatFilesSay, Quiet, Fresh, EnvFresh, ModeFresh, FlagKept, EnvDue, JsonDue
<1> QED
  BY <1>1, <1>2, <1>3, PTL DEF PartsSpec
-----------------------------------------------------------------------------
(* A click on a target: types, and the click the tap follows.                *)

Pending == [seq : 1..MaxClicks, target : 1..MaxClicks]

\* What was answered is what the file holds, and a file without an answer is the cleared one.
FileHoldsAnswer ==
    IF answered = None
      THEN file = [seq |-> 0, target |-> Tap!Corner]
      ELSE file.seq >= 1 /\ file.target = answered

\* The seqs are those of clicks that were made.
SeqsAreMade ==
    /\ file.seq <= clicks
    /\ \A p \in {p1, p2} : click[p] # None => click[p].seq <= clicks

\* One click at a time takes the seq after the file's.
NextSeqPending ==
    ~overlap =>
        \A p \in {p1, p2} :
            click[p] # None =>
                /\ click[p].seq = file.seq + 1
                /\ \A q \in {p1, p2} : click[q] # None => q = p

\* The tap of a tracking that is on lags behind the file or follows its click.
TapLagsOrFollows ==
    tapActive /\ tap.up /\ ~overlap =>
        /\ tap.seq <= file.seq
        /\ tap.seq = file.seq /\ answered # None => tap.target = answered

TapInv ==
    /\ Tap!TypeOK
    /\ control # "idle" => ~tapActive
    /\ FileHoldsAnswer /\ SeqsAreMade /\ NextSeqPending /\ TapLagsOrFollows

LEMMA TapOrNot ==
    ASSUME [PartsNext]_<<vars, track, lower, part>>
    PROVE  [Tap!Next]_track
BY DEF PartsNext, track

LEMMA TapFields ==
    ASSUME Tap!TypeOK
    PROVE  /\ tapActive \in BOOLEAN /\ overlap \in BOOLEAN /\ enabled \in BOOLEAN
           /\ file.seq \in 0..MaxClicks /\ file.target \in 0..MaxClicks
           /\ file.seq \in Nat /\ file.target \in Nat
           /\ file = [seq |-> file.seq, target |-> file.target]
           /\ tap.up \in BOOLEAN /\ tap.seq \in 0..MaxClicks /\ tap.seq \in Nat
           /\ tap.target \in 0..MaxClicks \cup {None}
           /\ tap.missed \in 0..(MaxSearching + 1)
           /\ clicks \in 0..MaxClicks /\ clicks \in Nat /\ changes \in 0..MaxChanges
           /\ MaxClicks \in Nat /\ MaxSearching \in Nat /\ MaxChanges \in Nat /\ None \notin Nat
BY TapBounds DEF Tap!TypeOK, Tap!Targets, Tap!TrackTapAssumption

LEMMA PendingFields ==
    ASSUME Tap!TypeOK, NEW p \in {p1, p2}, click[p] # None
    PROVE  /\ click[p] \in Pending /\ click[p].seq \in 1..MaxClicks /\ click[p].target \in 1..MaxClicks
           /\ click[p].seq \in Nat /\ click[p].target \in Nat
           /\ click[p] \in [seq : 0..MaxClicks, target : 0..MaxClicks]
BY TapBounds DEF Tap!TypeOK, Pending, Tap!TrackTapAssumption

\* A tap that starts has seen no click.
LEMMA TapsThatStart ==
    /\ Tap!Down.up = FALSE /\ Tap!JustUp.up = TRUE /\ Tap!JustUp.seq = 0
    /\ \A t \in {Tap!Down, Tap!JustUp} :
        t \in [up : BOOLEAN, seq : 0..MaxClicks, target : Tap!Targets \cup {None},
               missed : 0..(MaxSearching + 1)]
<1> DEFINE Taps == [up : BOOLEAN, seq : 0..MaxClicks, target : Tap!Targets \cup {None},
                    missed : 0..(MaxSearching + 1)]
<1>1. 0 \in 0..MaxClicks /\ 0 \in 0..(MaxSearching + 1)
  BY TapBounds DEF Tap!TrackTapAssumption
<1>2. Tap!Down \in Taps /\ Tap!Down.up = FALSE /\ Tap!Down.seq = 0
  BY <1>1 DEF Tap!Down
<1>3. Tap!JustUp = [Tap!Down EXCEPT !.up = TRUE]
  BY DEF Tap!JustUp
<1>4. Tap!JustUp \in Taps /\ Tap!JustUp.up = TRUE /\ Tap!JustUp.seq = 0
  BY <1>2, <1>3
<1> QED
  BY <1>2, <1>4

-----------------------------------------------------------------------------

LEMMA ClickEffect ==
    ASSUME Tap!TypeOK, SeqsAreMade, NEW p \in {p1, p2}, Tap!Click(p)
    PROVE  /\ click' \in [{p1, p2} -> Pending \cup {None}]
           /\ click'[p] = [seq |-> file.seq + 1, target |-> clicks + 1]
           /\ click'[p].seq = file.seq + 1
           /\ \A q \in {p1, p2} : q # p => click'[q] = click[q]
           /\ clicks' = clicks + 1 /\ clicks' \in 0..MaxClicks /\ file.seq + 1 <= clicks'
           /\ overlap' = (overlap \/ Tap!Handled # {})
           /\ UNCHANGED <<tapActive, enabled, control, file, tap, object, onTheWay, shown, answered,
                          changes>>
<1>1. click \in [{p1, p2} -> Pending \cup {None}]
  BY DEF Tap!TypeOK, Pending
<1>2. file.seq + 1 \in 1..MaxClicks /\ clicks + 1 \in 1..MaxClicks /\ clicks' = clicks + 1
      /\ file.seq + 1 <= clicks' /\ clicks' \in 0..MaxClicks
  BY TapFields DEF Tap!Click, SeqsAreMade
<1>3. [seq |-> file.seq + 1, target |-> clicks + 1] \in Pending
  BY <1>2 DEF Pending
<1>4. click' = [click EXCEPT ![p] = [seq |-> file.seq + 1, target |-> clicks + 1]]
  BY DEF Tap!Click
<1>5. click'[p] = [seq |-> file.seq + 1, target |-> clicks + 1]
  BY <1>1, <1>4
<1>6. click' \in [{p1, p2} -> Pending \cup {None}]
  BY <1>1, <1>3, <1>4
<1>7. \A q \in {p1, p2} : q # p => click'[q] = click[q]
  BY <1>1, <1>4
<1>8. overlap' = (overlap \/ Tap!Handled # {})
      /\ UNCHANGED <<tapActive, enabled, control, file, tap, object, onTheWay, shown, answered,
                     changes>>
  BY DEF Tap!Click
<1> QED
  BY <1>2, <1>5, <1>6, <1>7, <1>8

LEMMA AnswerEffect ==
    ASSUME Tap!TypeOK, NEW p \in {p1, p2}, Tap!Answer(p)
    PROVE  /\ click' \in [{p1, p2} -> Pending \cup {None}]
           /\ click[p] # None /\ click'[p] = None
           /\ \A q \in {p1, p2} : q # p => click'[q] = click[q]
           /\ file' = click[p] /\ answered' = click[p].target
           /\ UNCHANGED <<tapActive, enabled, control, tap, object, onTheWay, shown, overlap, clicks,
                          changes>>
<1>1. click \in [{p1, p2} -> Pending \cup {None}]
  BY DEF Tap!TypeOK, Pending
<1>2. click' = [click EXCEPT ![p] = None]
  BY DEF Tap!Answer
<1>3. click' \in [{p1, p2} -> Pending \cup {None}] /\ click'[p] = None
      /\ \A q \in {p1, p2} : q # p => click'[q] = click[q]
  BY <1>1, <1>2
<1> QED
  BY <1>3 DEF Tap!Answer

\* A result of the tap is one the page can show.
LEMMA ResultIsResult ==
    ASSUME Tap!TypeOK
    PROVE  Tap!Result \in Tap!Results
<1>1. tap.target = None \/ tap.target \in Tap!Targets
  BY DEF Tap!TypeOK
<1> QED
  BY <1>1 DEF Tap!Result, Tap!Results, Tap!Statuses

-----------------------------------------------------------------------------
(* Types.                                                                    *)

LEMMA TapTypeInit ==
    ASSUME Tap!Init
    PROVE  Tap!TypeOK
<1>1. file \in [seq : 0..MaxClicks, target : Tap!Targets] /\ clicks \in 0..MaxClicks
      /\ changes \in 0..MaxChanges
  BY TapBounds DEF Tap!Init, Tap!Targets, Tap!Corner, Tap!TrackTapAssumption
<1>2. tap \in [up : BOOLEAN, seq : 0..MaxClicks, target : Tap!Targets \cup {None},
               missed : 0..(MaxSearching + 1)]
  BY TapsThatStart DEF Tap!Init
<1>3. click \in [{p1, p2} -> [seq : 1..MaxClicks, target : 1..MaxClicks] \cup {None}]
  BY DEF Tap!Init
<1>4. onTheWay \subseteq Tap!Results /\ shown \in Tap!Results
  BY DEF Tap!Init, Tap!Results
<1> QED
  BY <1>1, <1>2, <1>3, <1>4 DEF Tap!Init, Tap!TypeOK

LEMMA TapTypeStep ==
    ASSUME Tap!TypeOK, SeqsAreMade, [Tap!Next]_track
    PROVE  Tap!TypeOK'
<1> DEFINE Taps == [up : BOOLEAN, seq : 0..MaxClicks, target : Tap!Targets \cup {None},
                    missed : 0..(MaxSearching + 1)]
           Files == [seq : 0..MaxClicks, target : Tap!Targets]
<1>1. tap \in Taps /\ file \in Files /\ click \in [{p1, p2} -> Pending \cup {None}]
      /\ Tap!Down \in Taps /\ Tap!JustUp \in Taps
  BY TapsThatStart DEF Tap!TypeOK, Pending
<1>2. [seq |-> 0, target |-> Tap!Corner] \in Files
  BY TapFields DEF Tap!Targets, Tap!Corner
<1>3. Tap!Change => changes' \in 0..MaxChanges
  BY TapFields DEF Tap!Change
<1>4. CASE UNCHANGED track
  BY <1>4 DEF track, Tap!TypeOK
<1>5. CASE Tap!Start \/ Tap!Stop \/ Tap!Move
  BY <1>3, <1>5 DEF Tap!Start, Tap!Stop, Tap!Move, Tap!TypeOK
<1>6. CASE Tap!ClearTarget
  BY <1>2, <1>6 DEF Tap!ClearTarget, Tap!TypeOK
<1>7. CASE Tap!StartRestart \/ Tap!StartFails \/ Tap!StopRestart \/ Tap!RelayRestart
  <2>1. tap' \in Taps
    BY <1>1, <1>7 DEF Tap!StartRestart, Tap!StartFails, Tap!StopRestart, Tap!RelayRestart
  <2>2. changes' \in 0..MaxChanges
    BY <1>3, <1>7, TapFields DEF Tap!StartRestart, Tap!StartFails, Tap!StopRestart, Tap!RelayRestart
  <2>3. tapActive' \in BOOLEAN /\ enabled' \in BOOLEAN
        /\ control' \in {"idle", "wrote", "cleared", "stopping"}
    BY <1>7, TapFields DEF Tap!StartRestart, Tap!StartFails, Tap!StopRestart, Tap!RelayRestart, Tap!TypeOK
  <2>4. UNCHANGED <<file, click, object, onTheWay, shown, answered, overlap, clicks>>
    BY <1>7 DEF Tap!StartRestart, Tap!StartFails, Tap!StopRestart, Tap!RelayRestart
  <2> QED
    BY <2>1, <2>2, <2>3, <2>4 DEF Tap!TypeOK
<1>8. ASSUME NEW p \in {p1, p2}, Tap!Click(p)
      PROVE  Tap!TypeOK'
  <2>1. overlap' \in BOOLEAN
    BY <1>8, ClickEffect, TapFields
  <2> QED
    BY <1>8, <2>1, ClickEffect DEF Tap!TypeOK, Pending
<1>9. ASSUME NEW p \in {p1, p2}, Tap!Answer(p)
      PROVE  Tap!TypeOK'
  <2>1. file' \in Files /\ answered' \in 1..MaxClicks
    BY <1>9, AnswerEffect, PendingFields DEF Tap!Targets
  <2> QED
    BY <1>9, <2>1, AnswerEffect DEF Tap!TypeOK, Pending
<1>10. CASE Tap!TakeTarget
  <2>1. tap' = [tap EXCEPT !.seq = file.seq, !.target = file.target, !.missed = 0]
    BY <1>10 DEF Tap!TakeTarget
  <2>2. 0 \in 0..(MaxSearching + 1) /\ file.seq \in 0..MaxClicks /\ file.target \in Tap!Targets
    BY TapFields DEF Tap!Targets
  <2>3. tap' \in Taps
    BY <1>1, <2>1, <2>2
  <2> QED
    BY <1>10, <2>3 DEF Tap!TakeTarget, Tap!TypeOK
<1>11. CASE Tap!Update
  <2> DEFINE m == IF Tap!Found THEN 0 ELSE IF tap.missed > MaxSearching THEN tap.missed ELSE tap.missed + 1
  <2>1. m \in 0..(MaxSearching + 1)
    BY TapFields
  <2>2. tap' = [tap EXCEPT !.missed = m]
    BY <1>1, <1>11 DEF Tap!Update
  <2>3. tap' \in Taps
    <3> HIDE DEF m
    <3> QED
      BY <1>1, <2>1, <2>2
  <2>4. object' \in {"near", "far", "hidden"}
    BY <1>11 DEF Tap!Update, Tap!TypeOK
  <2> QED
    BY <1>11, <2>3, <2>4 DEF Tap!Update, Tap!TypeOK
<1>12. CASE Tap!Report
  BY <1>12, ResultIsResult DEF Tap!Report, Tap!TypeOK
<1>13. ASSUME NEW r \in onTheWay, Tap!Arrive(r) \/ Tap!LoseReport(r)
       PROVE  Tap!TypeOK'
  BY <1>3, <1>13 DEF Tap!Arrive, Tap!LoseReport, Tap!TypeOK
<1> QED
  BY <1>4, <1>5, <1>6, <1>7, <1>8, <1>9, <1>10, <1>11, <1>12, <1>13 DEF Tap!Next

-----------------------------------------------------------------------------
(* The tap and the file.                                                     *)

LEMMA TapInvInit ==
    ASSUME Tap!Init
    PROVE  TapInv
<1>1. FileHoldsAnswer /\ SeqsAreMade /\ control = "idle"
  BY DEF Tap!Init, FileHoldsAnswer, SeqsAreMade
<1>2. NextSeqPending
  BY DEF Tap!Init, NextSeqPending
<1>3. TapLagsOrFollows
  BY DEF Tap!Init, TapLagsOrFollows
<1> QED
  BY <1>1, <1>2, <1>3, TapTypeInit DEF TapInv

\* What the file and the clicks say holds while they stay.
LEMMA FileStays ==
    ASSUME TapInv, UNCHANGED <<file, click, answered, overlap, clicks>>
    PROVE  FileHoldsAnswer' /\ SeqsAreMade' /\ NextSeqPending'
BY DEF TapInv, FileHoldsAnswer, SeqsAreMade, NextSeqPending

\* A click takes the seq after the file's, and is alone unless the history says otherwise.
LEMMA ClickKeeps ==
    ASSUME TapInv, NEW p \in {p1, p2}, Tap!Click(p)
    PROVE  TapInv'
<1>1. Tap!TypeOK /\ SeqsAreMade /\ FileHoldsAnswer /\ NextSeqPending /\ TapLagsOrFollows
      /\ (control # "idle" => ~tapActive)
  BY DEF TapInv
<1>2. Tap!TypeOK'
  BY <1>1, TapTypeStep DEF Tap!Next
<1>3. FileHoldsAnswer' /\ TapLagsOrFollows' /\ (control # "idle" => ~tapActive)'
  <2>1. overlap => overlap'
    BY <1>1, ClickEffect
  <2> QED
    BY <1>1, <2>1, ClickEffect DEF FileHoldsAnswer, TapLagsOrFollows
<1>4. SeqsAreMade'
  <2>1. file'.seq <= clicks'
    BY <1>1, ClickEffect, TapFields DEF SeqsAreMade
  <2>2. ASSUME NEW q \in {p1, p2}, click'[q] # None
        PROVE  click'[q].seq <= clicks'
    <3>1. CASE q = p
      BY <1>1, <3>1, ClickEffect
    <3>2. CASE q # p
      <4>1. click'[q] = click[q] /\ clicks' = clicks + 1
        BY <1>1, <3>2, ClickEffect
      <4>2. click[q].seq <= clicks /\ click[q].seq \in Nat /\ clicks \in Nat
        BY <1>1, <2>2, <4>1, PendingFields, TapFields DEF SeqsAreMade
      <4> QED
        BY <4>1, <4>2
    <3> QED
      BY <3>1, <3>2
  <2> QED
    BY <2>1, <2>2 DEF SeqsAreMade
<1>5. NextSeqPending'
  <2>1. SUFFICES ASSUME ~overlap',
                        NEW q \in {p1, p2}, click'[q] # None
                 PROVE  /\ click'[q].seq = file'.seq + 1
                        /\ \A r \in {p1, p2} : click'[r] # None => r = q
    BY DEF NextSeqPending
  <2>2. \A r \in {p1, p2} : click[r] = None
    BY <1>1, <2>1, ClickEffect DEF Tap!Handled
  <2>3. \A r \in {p1, p2} : r # p => click'[r] = None
    BY <1>1, <2>2, ClickEffect
  <2>4. q = p /\ file' = file
    BY <1>1, <2>1, <2>3, ClickEffect
  <2> QED
    BY <1>1, <2>3, <2>4, ClickEffect
<1> QED
  BY <1>2, <1>3, <1>4, <1>5 DEF TapInv

\* An answer puts the click of its page, which is newer, into the file.
LEMMA AnswerKeeps ==
    ASSUME TapInv, NEW p \in {p1, p2}, Tap!Answer(p)
    PROVE  TapInv'
<1>1. Tap!TypeOK /\ SeqsAreMade /\ FileHoldsAnswer /\ NextSeqPending /\ TapLagsOrFollows
      /\ (control # "idle" => ~tapActive)
  BY DEF TapInv
<1>2. Tap!TypeOK'
  BY <1>1, TapTypeStep DEF Tap!Next
<1>3. click[p] # None /\ click[p].seq \in 1..MaxClicks /\ click[p].target \in 1..MaxClicks
      /\ file' = click[p] /\ answered' = click[p].target
  BY <1>1, AnswerEffect, PendingFields
<1>4. FileHoldsAnswer'
  <2>1. answered' # None
    BY <1>3, TapFields, <1>1
  <2>2. file'.seq >= 1 /\ file'.target = answered'
    BY <1>3
  <2> QED
    BY <2>1, <2>2 DEF FileHoldsAnswer
<1>5. SeqsAreMade'
  <2>1. clicks' = clicks /\ \A q \in {p1, p2} : click'[q] # None => click'[q] = click[q]
    BY <1>1, AnswerEffect
  <2> QED
    BY <1>1, <1>3, <2>1 DEF SeqsAreMade
<1>6. NextSeqPending'
  <2>1. SUFFICES ASSUME ~overlap'
                 PROVE  \A q \in {p1, p2} : click'[q] = None
    BY DEF NextSeqPending
  <2>2. \A q \in {p1, p2} : q # p => click[q] = None
    BY <1>1, <1>3, <2>1, AnswerEffect DEF NextSeqPending
  <2> QED
    BY <1>1, <2>2, AnswerEffect
<1>7. TapLagsOrFollows'
  <2>1. SUFFICES ASSUME tapActive', tap'.up, ~overlap'
                 PROVE  tap'.seq < file'.seq
    <3>1. tap'.seq \in Nat /\ file'.seq \in Nat
      BY <1>2 DEF Tap!TypeOK
    <3> QED
      BY <3>1 DEF TapLagsOrFollows
  <2>2. tapActive /\ tap.up /\ ~overlap /\ tap' = tap
    BY <1>1, <2>1, AnswerEffect
  <2>3. tap.seq <= file.seq
    BY <1>1, <2>2 DEF TapLagsOrFollows
  <2>4. file'.seq = file.seq + 1
    BY <1>1, <1>3, <2>2 DEF NextSeqPending
  <2> QED
    BY <1>1, <2>2, <2>3, <2>4, TapFields
<1>8. (control # "idle" => ~tapActive)'
  BY <1>1, AnswerEffect
<1> QED
  BY <1>2, <1>4, <1>5, <1>6, <1>7, <1>8 DEF TapInv

\* The control service's start and stop, and the restarts of the tap.
LEMMA ControlKeeps ==
    ASSUME TapInv,
           \/ Tap!Start \/ Tap!ClearTarget \/ Tap!StartRestart \/ Tap!StartFails \/ Tap!Stop
           \/ Tap!StopRestart \/ Tap!RelayRestart
    PROVE  TapInv'
<1>1. Tap!TypeOK /\ SeqsAreMade /\ FileHoldsAnswer /\ NextSeqPending /\ TapLagsOrFollows
      /\ (control # "idle" => ~tapActive)
  BY DEF TapInv
<1>2. Tap!TypeOK'
  BY <1>1, TapTypeStep DEF Tap!Next
<1>3. (control # "idle" => ~tapActive)'
  BY <1>1 DEF Tap!Start, Tap!ClearTarget, Tap!StartRestart, Tap!StartFails, Tap!Stop,
     Tap!StopRestart, Tap!RelayRestart
<1>4. CASE Tap!ClearTarget
  <2>1. FileHoldsAnswer'
    BY <1>4 DEF Tap!ClearTarget, FileHoldsAnswer
  <2>2. SeqsAreMade'
    <3>1. file'.seq = 0 /\ UNCHANGED <<click, clicks>>
      BY <1>4 DEF Tap!ClearTarget
    <3> QED
      BY <1>1, <3>1, TapFields DEF SeqsAreMade
  <2>3. NextSeqPending'
    BY <1>4 DEF Tap!ClearTarget, Tap!Handled, NextSeqPending
  <2>4. ~tapActive'
    BY <1>1, <1>4 DEF Tap!ClearTarget
  <2> QED
    BY <1>2, <1>3, <2>1, <2>2, <2>3, <2>4 DEF TapInv, TapLagsOrFollows
<1>5. CASE ~Tap!ClearTarget
  <2>1. UNCHANGED <<file, click, answered, overlap, clicks>>
    BY <1>5 DEF Tap!Start, Tap!StartRestart, Tap!StartFails, Tap!Stop, Tap!StopRestart,
       Tap!RelayRestart
  <2>2. FileHoldsAnswer' /\ SeqsAreMade' /\ NextSeqPending'
    BY <2>1, FileStays
  <2>3. TapLagsOrFollows'
    <3>1. CASE ~tapActive'
      BY <3>1 DEF TapLagsOrFollows
    <3>2. CASE tap' = Tap!Down
      BY <3>2, TapsThatStart DEF TapLagsOrFollows
    <3>3. CASE tap' = Tap!JustUp
      <4>1. tap'.seq = 0
        BY <3>3, TapsThatStart
      <4>2. file.seq = 0 => answered = None
        BY <1>1 DEF FileHoldsAnswer
      <4> QED
        BY <1>1, <2>1, <4>1, <4>2, TapFields DEF TapLagsOrFollows
    <3>4. tapActive' => tap' \in {Tap!Down, Tap!JustUp}
      BY <1>1, <1>5 DEF Tap!Start, Tap!StartRestart, Tap!StartFails, Tap!Stop, Tap!StopRestart,
         Tap!RelayRestart
    <3> QED
      BY <3>1, <3>2, <3>3, <3>4
  <2> QED
    BY <1>2, <1>3, <2>2, <2>3 DEF TapInv
<1> QED
  BY <1>4, <1>5

\* The tap takes the file's click with its seq, and what its tracker does keeps both.
LEMMA TapKeeps ==
    ASSUME TapInv, Tap!TakeTarget \/ Tap!Update
    PROVE  TapInv'
<1>1. Tap!TypeOK /\ FileHoldsAnswer /\ TapLagsOrFollows /\ (control # "idle" => ~tapActive)
      /\ SeqsAreMade
  BY DEF TapInv
<1>2. Tap!TypeOK'
  BY <1>1, TapTypeStep DEF Tap!Next
<1>3. UNCHANGED <<file, click, answered, overlap, clicks, control, tapActive>>
  BY DEF Tap!TakeTarget, Tap!Update
<1>4. FileHoldsAnswer' /\ SeqsAreMade' /\ NextSeqPending' /\ (control # "idle" => ~tapActive)'
  BY <1>1, <1>3, FileStays
<1>5. CASE Tap!TakeTarget
  <2>1. tap'.seq = file.seq /\ tap'.target = file.target
    BY <1>1, <1>5 DEF Tap!TakeTarget, Tap!TypeOK
  <2>2. answered # None => file.target = answered
    BY <1>1 DEF FileHoldsAnswer
  <2> QED
    BY <1>1, <1>2, <1>3, <1>4, <2>1, <2>2, TapFields DEF TapInv, TapLagsOrFollows
<1>6. CASE Tap!Update
  <2>1. tap'.seq = tap.seq /\ tap'.target = tap.target /\ tap'.up = tap.up
    BY <1>1, <1>6 DEF Tap!Update, Tap!TypeOK
  <2> QED
    BY <1>1, <1>2, <1>3, <1>4, <2>1 DEF TapInv, TapLagsOrFollows
<1> QED
  BY <1>5, <1>6

LEMMA TapInvStep ==
    ASSUME TapInv, [Tap!Next]_track
    PROVE  TapInv'
<1>1. Tap!TypeOK' /\ (control # "idle" => ~tapActive) /\ TapLagsOrFollows
  BY TapTypeStep DEF TapInv
<1>2. CASE UNCHANGED <<tapActive, control, file, click, tap, answered, overlap, clicks>>
  <2>1. FileHoldsAnswer' /\ SeqsAreMade' /\ NextSeqPending'
    BY <1>2, FileStays
  <2> QED
    BY <1>1, <1>2, <2>1 DEF TapInv, TapLagsOrFollows
<1>3. CASE UNCHANGED track
  BY <1>2, <1>3 DEF track
<1>4. CASE Tap!Move \/ Tap!Report
  BY <1>2, <1>4 DEF Tap!Move, Tap!Report
<1>5. ASSUME NEW r \in onTheWay, Tap!Arrive(r) \/ Tap!LoseReport(r)
      PROVE  TapInv'
  BY <1>2, <1>5 DEF Tap!Arrive, Tap!LoseReport
<1> QED
  BY <1>3, <1>4, <1>5, ClickKeeps, AnswerKeeps, ControlKeeps, TapKeeps DEF Tap!Next

\* Clicks, taps and results are of their types, for any number of clicks, changes and posts.
THEOREM TapTypeCorrect == PartsSpec => []Tap!TypeOK
<1>1. PartsInit => TapInv
  BY TapInvInit DEF PartsInit
<1>2. TapInv /\ [PartsNext]_<<vars, track, lower, part>> => TapInv'
  BY TapInvStep, TapOrNot
<1>3. TapInv => Tap!TypeOK
  BY DEF TapInv
<1> QED
  BY <1>1, <1>2, <1>3, PTL DEF PartsSpec

\* While tracking is on and no two clicks of it were handled at once, a tap that has taken
\* the file's seq follows the click answered last (set_target, _read_pending_target, the
\* control service's start and stop, and restarts of the tap at any step).
THEOREM TapFollowsAnswer == PartsSpec => []Tap!TapHasLastClick
<1>1. PartsInit => TapInv
  BY TapInvInit DEF PartsInit
<1>2. TapInv /\ [PartsNext]_<<vars, track, lower, part>> => TapInv'
  BY TapInvStep, TapOrNot
<1>3. TapInv => Tap!TapHasLastClick
  BY DEF TapInv, TapLagsOrFollows, Tap!TapHasLastClick
<1> QED
  BY <1>1, <1>2, <1>3, PTL DEF PartsSpec
=============================================================================
