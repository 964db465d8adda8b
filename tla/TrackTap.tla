------------------------------ MODULE TrackTap -------------------------------
(***************************************************************************)
(* A click on the video and what follows: the control service on the board  *)
(* (port 9075) writes it into a file, the tap inside srt-relay-capture      *)
(* finds it there at the next frame and gives it to the tracker, and a      *)
(* thread of its own posts each result to the admin server, which shows the *)
(* last one that came. VideoBoard holds the races of the flag itself; here  *)
(* one start or stop is handled at a time.                                  *)
(***************************************************************************)
EXTENDS Naturals, FiniteSets

CONSTANTS
    Pages,         \* pages whose clicks Flask handles at once
    None,
    MaxSearching,  \* TrackerConfig.max_searching_frames
    MaxOnTheWay,   \* bound: posts on the way
    MaxClicks,     \* bound: clicks
    MaxChanges     \* bound: starts and stops, restarts, moves of the object, lost posts

TrackTapAssumption ==
    /\ MaxSearching \in Nat /\ MaxOnTheWay \in Nat /\ MaxClicks \in Nat /\ MaxChanges \in Nat
    /\ None \notin Nat

VARIABLES
    active,    \* TrackSupervisor._active
    enabled,   \* SIRENA_TRACK_TAP in the env file
    control,   \* the start or stop being handled: "idle", "wrote", "cleared", "stopping"
    file,      \* TRACK_TARGET_FILE: seq and the click it holds
    click,     \* each page's set_target: the seq it will write, or None, and its click
    tap,       \* the tap: whether it runs, _last_seq, the tracker's target and missed_frames
    object,    \* where the target is: "near" the tracker's window, "far" from it, "hidden"
    onTheWay,  \* results posted and not yet taken in
    shown,     \* _latest of the admin server
    answered,  \* history: the click answered last since the start of tracking
    overlap,   \* history: two clicks of this tracking were handled at once
    clicks, changes

vars == <<active, enabled, control, file, click, tap, object, onTheWay, shown, answered, overlap,
          clicks, changes>>

Corner == 0   \* the place the cleared file names: x = y = 0
Targets == 0..MaxClicks
Statuses == {"tracking", "searching", "lost"}
Results == [target : Targets, status : Statuses] \cup {None}

TypeOK ==
    /\ active \in BOOLEAN /\ enabled \in BOOLEAN /\ overlap \in BOOLEAN
    /\ control \in {"idle", "wrote", "cleared", "stopping"}
    /\ file \in [seq : 0..MaxClicks, target : Targets]
    /\ click \in [Pages -> [seq : 1..MaxClicks, target : 1..MaxClicks] \cup {None}]
    /\ tap \in [up : BOOLEAN, seq : 0..MaxClicks, target : Targets \cup {None}, missed : 0..(MaxSearching + 1)]
    /\ object \in {"near", "far", "hidden"}
    /\ onTheWay \subseteq Results /\ shown \in Results
    /\ answered \in 1..MaxClicks \cup {None}
    /\ clicks \in 0..MaxClicks /\ changes \in 0..MaxChanges

Down == [up |-> FALSE, seq |-> 0, target |-> None, missed |-> 0]
JustUp == [Down EXCEPT !.up = TRUE]

Init ==
    /\ active = FALSE /\ enabled = FALSE /\ control = "idle"
    /\ file = [seq |-> 0, target |-> Corner]
    /\ click = [p \in Pages |-> None]
    /\ tap = Down /\ object = "near"
    /\ onTheWay = {} /\ shown = None
    /\ answered = None /\ overlap = FALSE
    /\ clicks = 0 /\ changes = 0

Handled == {p \in Pages : click[p] # None}
Change == changes < MaxChanges /\ changes' = changes + 1

-----------------------------------------------------------------------------
(* TrackSupervisor. *)

Start ==
    /\ control = "idle" /\ ~active /\ Change
    /\ enabled' = TRUE /\ control' = "wrote"
    /\ UNCHANGED <<active, file, click, tap, object, onTheWay, shown, answered, overlap, clicks>>

ClearTarget ==
    /\ control = "wrote"
    /\ file' = [seq |-> 0, target |-> Corner] /\ control' = "cleared"
    /\ answered' = None /\ overlap' = (Handled # {})
    /\ UNCHANGED <<active, enabled, click, tap, object, onTheWay, shown, clicks, changes>>

StartRestart ==
    /\ control = "cleared"
    /\ tap' = JustUp /\ active' = TRUE /\ control' = "idle"
    /\ UNCHANGED <<enabled, file, click, object, onTheWay, shown, answered, overlap, clicks, changes>>

\* The restart failed, or the unit was not active twice: the flag is taken back.
StartFails ==
    /\ control = "cleared" /\ Change
    /\ tap' \in {tap, Down, JustUp}
    /\ enabled' = FALSE /\ control' = "idle"
    /\ UNCHANGED <<active, file, click, object, onTheWay, shown, answered, overlap, clicks>>

Stop ==
    /\ control = "idle" /\ active /\ Change
    /\ active' = FALSE /\ enabled' = FALSE /\ control' = "stopping"
    /\ UNCHANGED <<file, click, tap, object, onTheWay, shown, answered, overlap, clicks>>

StopRestart ==
    /\ control = "stopping"
    /\ control' = "idle"
    /\ \/ tap' = Down /\ UNCHANGED changes
       \/ tap' = tap /\ Change
    /\ UNCHANGED <<active, enabled, file, click, object, onTheWay, shown, answered, overlap, clicks>>

\* Slip: the seq of the file is written back as it was read.
SlipClick(p) ==
    /\ active /\ click[p] = None /\ clicks < MaxClicks
    /\ clicks' = clicks + 1
    /\ click' = [click EXCEPT ![p] = [seq |-> IF file.seq = 0 THEN 1 ELSE file.seq, target |-> clicks + 1]]
    /\ overlap' = (overlap \/ Handled # {})
    /\ UNCHANGED <<active, enabled, control, file, tap, object, onTheWay, shown, answered, changes>>

\* set_target reads the file and, without a lock, writes it.
Click(p) ==
    /\ active /\ click[p] = None /\ clicks < MaxClicks
    /\ clicks' = clicks + 1
    /\ click' = [click EXCEPT ![p] = [seq |-> file.seq + 1, target |-> clicks + 1]]
    /\ overlap' = (overlap \/ Handled # {})
    /\ UNCHANGED <<active, enabled, control, file, tap, object, onTheWay, shown, answered, changes>>

Answer(p) ==
    /\ click[p] # None
    /\ file' = click[p] /\ answered' = click[p].target
    /\ click' = [click EXCEPT ![p] = None]
    /\ UNCHANGED <<active, enabled, control, tap, object, onTheWay, shown, overlap, clicks, changes>>

-----------------------------------------------------------------------------
(* The tap and its tracker. *)

\* A camera switch, a crash: srt-relay-capture starts again and reads the env file.
RelayRestart ==
    /\ Change
    /\ tap' = IF enabled THEN JustUp ELSE Down
    /\ UNCHANGED <<active, enabled, control, file, click, object, onTheWay, shown, answered, overlap, clicks>>

\* on_new_sample with a target it has not seen: init takes the template there.
TakeTarget ==
    /\ tap.up /\ file.seq # tap.seq
    /\ tap' = [tap EXCEPT !.seq = file.seq, !.target = file.target, !.missed = 0]
    /\ object' = "near"
    /\ UNCHANGED <<active, enabled, control, file, click, onTheWay, shown, answered, overlap, clicks, changes>>

\* update: near the last place; over the whole frame when the target is LOST.
Found == object = "near" \/ (object = "far" /\ tap.missed > MaxSearching)

Update ==
    /\ tap.up /\ file.seq = tap.seq /\ tap.target # None
    /\ tap' = [tap EXCEPT !.missed = IF Found THEN 0 ELSE IF @ > MaxSearching THEN @ ELSE @ + 1]
    /\ object' = IF Found THEN "near" ELSE object
    /\ UNCHANGED <<active, enabled, control, file, click, onTheWay, shown, answered, overlap, clicks, changes>>

Move ==
    /\ Change /\ object' \in {"near", "far", "hidden"} \ {object}
    /\ UNCHANGED <<active, enabled, control, file, click, tap, onTheWay, shown, answered, overlap, clicks>>

Result ==
    IF tap.target = None
      THEN None
      ELSE [target |-> tap.target,
            status |-> IF tap.missed = 0 THEN "tracking"
                       ELSE IF tap.missed <= MaxSearching THEN "searching" ELSE "lost"]

\* Every TRACK_REPORT_INTERVAL_S, each result in a thread of its own.
Report ==
    /\ tap.up /\ Result \notin onTheWay /\ Cardinality(onTheWay) < MaxOnTheWay
    /\ onTheWay' = onTheWay \cup {Result}
    /\ UNCHANGED <<active, enabled, control, file, click, tap, object, shown, answered, overlap, clicks, changes>>

Arrive(r) ==
    /\ r \in onTheWay
    /\ onTheWay' = onTheWay \ {r} /\ shown' = r
    /\ UNCHANGED <<active, enabled, control, file, click, tap, object, answered, overlap, clicks, changes>>

LoseReport(r) ==
    /\ r \in onTheWay /\ Change
    /\ onTheWay' = onTheWay \ {r}
    /\ UNCHANGED <<active, enabled, control, file, click, tap, object, shown, answered, overlap, clicks>>

Next ==
    \/ Start \/ ClearTarget \/ StartRestart \/ StartFails \/ Stop \/ StopRestart
    \/ \E p \in Pages : Click(p) \/ Answer(p)
    \/ RelayRestart \/ TakeTarget \/ Update \/ Move \/ Report
    \/ \E r \in onTheWay : Arrive(r) \/ LoseReport(r)

\* Frames keep coming, requests are answered, results are posted and arrive.
Fairness ==
    /\ WF_vars(TakeTarget) /\ WF_vars(Update) /\ WF_vars(Report)
    /\ WF_vars(ClearTarget) /\ WF_vars(StartRestart) /\ WF_vars(StopRestart)
    /\ \A p \in Pages : WF_vars(Answer(p))
    /\ \A r \in Results : WF_vars(Arrive(r))

Spec == Init /\ [][Next]_vars /\ Fairness

-----------------------------------------------------------------------------
(* Safety: while tracking is on and no two clicks of it were handled at      *)
(* once, a tap that has taken the file's seq follows the click answered last *)
(* (set_target, _read_pending_target and the restarts): no restart, late     *)
(* answer or click of an earlier tracking leaves it upon another one.        *)
TapHasLastClick ==
    active /\ tap.up /\ ~overlap /\ answered # None /\ tap.seq = file.seq
        => tap.target = answered

(* Liveness: while tracking is on, the tap runs and the target is in the     *)
(* picture, the page ends showing the tracker upon the click answered last,   *)
(* through restarts of the tap, jumps of the target, and results that arrive  *)
(* out of order; unless two clicks were handled at once, which may read the   *)
(* same seq, so that the tap takes the second for the first.                  *)
FollowsLastClick ==
    <>[](active /\ tap.up /\ ~overlap /\ answered # None /\ object # "hidden")
        => <>[](shown = [target |-> answered, status |-> "tracking"])
=============================================================================
