-------------------------------- MODULE GpsHub -------------------------------
(***************************************************************************)
(* The board's choice of a position (navigation_module): a thread asks the  *)
(* Starlink dish and judges its answers, another keeps the last sentence of *)
(* the Beitian receiver, a third takes the ground station's commands, and   *)
(* the main loop sends the flight controller what the choice yields.  All   *)
(* share one lock, but a position and the verdict on it are stored in two   *)
(* separate critical sections.                                              *)
(*                                                                          *)
(* The unit of time is a second, the time the dish's thread sleeps.  The    *)
(* main loop runs five times a second: it may run between any two steps.    *)
(***************************************************************************)
EXTENDS Naturals

CONSTANTS
    Poll,           \* STARLINK_POLL_SEC
    Retry,          \* STARLINK_RETRY_SEC
    Deadline,       \* the longest a request to the dish takes
    FailThreshold,  \* STARLINK_FAIL_THRESHOLD
    ErrorPause,     \* the dish's thread sleeps this long after an error it could not log
    SpoofBlock,     \* GPS_SPOOF_BLOCK_SEC
    WarmUp,         \* jumps count once the window holds more positions than this
    Forecast,       \* FORECAST_SECONDS
    ManualHold,     \* MANUAL_HOLD_SEC
    MaxFaults,      \* bound: requests that fail, answers with no fix or a jump
    MaxCommands     \* bound: commands of the ground station

GpsHubAssumption ==
    /\ {Poll, Retry, Deadline, FailThreshold, ErrorPause, SpoofBlock} \subseteq Nat \ {0}
    /\ {WarmUp, Forecast, ManualHold, MaxFaults, MaxCommands} \subseteq Nat
    /\ Poll =< Retry

VARIABLES
    worker,   \* the dish's thread: "sleep", "look", "ask", "stored", "nap" or "dead"
    nap,      \* seconds left of the sleep after an error that was not logged
    since,    \* seconds since last_starlink_check
    avail,    \* starlink_available
    data,     \* last_starlink_data: "none", "nofix", "fix", or "jump", a fix more than
              \* GPS_SPOOF_METERS_THRE away from the one before
    age,      \* seconds since data was stored
    fails,    \* _starlink_fail_count
    window,   \* positions in the handler's window
    stable, spoofed,
    block,    \* seconds to _spoof_block_until
    ahead,    \* seconds the forecast still covers
    hold,     \* seconds the manual point still holds
    mode,     \* source_mode
    nmea,     \* last_beitian_nmea: "none", "fix" or "void"
    source,   \* GPSPriority.last_source
    calm,     \* history: seconds since a jump was judged
    missed,   \* history: failures not registered since data was stored
    faults, commands

dish == <<nap, avail, data, age, fails, missed>>
verdict == <<window, stable, spoofed, block, ahead, calm>>
vars == <<worker, since, dish, verdict, hold, mode, nmea, source, faults, commands>>

(***************************************************************************)
(* A position of the dish may get this old before enough requests in a row  *)
(* have failed, and each failure that is not registered takes it further by *)
(* a request and the pause after it; the model counts one second more.      *)
(***************************************************************************)
Oldest == FailThreshold * (Poll + Deadline)
Allowed(n) == Oldest + n * (Poll + Deadline + ErrorPause)
Longest == Retry + Deadline

TypeOK ==
    /\ worker \in {"sleep", "look", "ask", "stored", "nap", "dead"}
    /\ since \in 0..Longest /\ nap \in 0..ErrorPause
    /\ data \in {"none", "nofix", "fix", "jump"} /\ age \in 0..Allowed(MaxFaults) + 1
    /\ missed \in 0..faults
    /\ fails \in 0..FailThreshold /\ window \in 0..WarmUp + 1
    /\ avail \in BOOLEAN /\ stable \in BOOLEAN /\ spoofed \in BOOLEAN
    /\ block \in 0..SpoofBlock /\ calm \in 0..SpoofBlock
    /\ ahead \in 0..Forecast /\ hold \in 0..ManualHold
    /\ mode \in {"AUTO", "STARLINK", "BEITIAN"}
    /\ nmea \in {"none", "fix", "void"}
    /\ source \in {"NONE", "MANUAL", "STARLINK", "BEITIAN"}
    /\ faults \in 0..MaxFaults /\ commands \in 0..MaxCommands

Init ==
    /\ worker = "look" /\ since = Longest
    /\ avail = FALSE /\ data = "none" /\ age = 0 /\ fails = 0 /\ nap = 0 /\ missed = 0
    /\ window = 0 /\ stable = FALSE /\ spoofed = FALSE
    /\ block = 0 /\ ahead = 0 /\ calm = SpoofBlock
    /\ hold = 0 /\ mode = "AUTO" /\ nmea = "none" /\ source = "NONE"
    /\ faults = 0 /\ commands = 0

-----------------------------------------------------------------------------
(* What the main loop sends.  A dish that answers but is not stable is
   replaced by the forecast while that lasts, and by nothing afterwards.      *)

Fix == data \in {"fix", "jump"}

Effective ==
    CASE mode = "BEITIAN" -> "none"
      [] mode # "BEITIAN" /\ avail /\ ~stable -> IF ahead > 0 THEN "forecast" ELSE "none"
      [] OTHER -> IF avail /\ Fix THEN "position" ELSE "none"

(* The sentence gives a position when it is a GGA with a fix or a valid RMC. *)
ParseBeitian == nmea = "fix"

Choice ==
    CASE hold > 0 -> "manual"
      [] hold = 0 /\ Effective # "none" -> Effective
      [] OTHER -> IF ParseBeitian THEN "beitian" ELSE "none"

Source == CASE Choice = "manual" -> "MANUAL"
            [] Choice \in {"position", "forecast"} -> "STARLINK"
            [] Choice = "beitian" -> "BEITIAN"
            [] OTHER -> "NONE"

MainLoop ==
    /\ source' = Source
    /\ UNCHANGED <<worker, since, dish, verdict, hold, mode, nmea, faults, commands>>

-----------------------------------------------------------------------------
(* The thread of the dish *)

(* It slept a second; the interval depends on whether the dish answers. *)
Look ==
    /\ worker = "look"
    /\ IF since >= (IF avail THEN Poll ELSE Retry)
       THEN worker' = "ask" /\ since' = 0
       ELSE worker' = "sleep" /\ UNCHANGED since
    /\ UNCHANGED <<dish, verdict, hold, mode, nmea, source, faults, commands>>

(* The request ends: a position is stored, still unjudged. *)
Store(kind) ==
    /\ worker = "ask" /\ worker' = "stored"
    /\ avail' = TRUE /\ data' = kind /\ age' = 0 /\ fails' = 0 /\ missed' = 0
    /\ kind = "jump" => window > 0 /\ faults < MaxFaults
    /\ faults' = IF kind = "jump" THEN faults + 1 ELSE faults
    /\ UNCHANGED <<since, nap, verdict, hold, mode, nmea, source, commands>>

(* _register_starlink_failure: reached only once the error is in the log. *)
Registers(available, n) ==
    /\ worker' = "sleep"
    /\ fails' = IF n < FailThreshold THEN n + 1 ELSE n
    /\ avail' = (available /\ fails' < FailThreshold)
    /\ UNCHANGED <<nap, missed>>

(* The log cannot be written, and the handler raises before it registers. The
   handler around it writes to the same file once more: then the thread sleeps
   and goes on, or it ends, and what it has stored stays as it is.            *)
LogFails(available, n) ==
    /\ avail' = available /\ fails' = n
    /\ \/ worker' = "nap" /\ nap' = ErrorPause /\ missed' = missed + 1
       \/ worker' = "dead" /\ UNCHANGED <<nap, missed>>

Fails(available, n) == Registers(available, n) \/ LogFails(available, n)

(* Slip: an answer without a fix leaves the position before it in place. *)
SlipNoFix ==
    /\ worker = "ask" /\ faults < MaxFaults /\ faults' = faults + 1
    /\ Fails(TRUE, 0)
    /\ UNCHANGED <<since, data, age, verdict, hold, mode, nmea, source, commands>>

(* The dish answers without a fix: stored as available, then the text of the
   log cannot be formed, and the same answer counts as a first failure.       *)
NoFix ==
    /\ worker = "ask" /\ faults < MaxFaults /\ faults' = faults + 1
    /\ data' = "nofix" /\ age' = 0
    /\ Fails(TRUE, 0)
    /\ UNCHANGED <<since, verdict, hold, mode, nmea, source, commands>>

(* The request fails or times out, or its status cannot be logged. *)
Failure ==
    /\ worker = "ask" /\ faults < MaxFaults /\ faults' = faults + 1
    /\ Fails(avail, fails)
    /\ UNCHANGED <<since, data, age, verdict, hold, mode, nmea, source, commands>>

(* The window takes the position (StarGPSHandler.append). *)
Appended == IF window > WarmUp THEN window ELSE window + 1

(* Slip: a jump while the dish is blocked does not extend the block. *)
SlipJudge ==
    LET jumped == data = "jump" /\ window' > WarmUp
        blocked == jumped \/ (spoofed /\ block > 0)
    IN  /\ calm' = IF jumped THEN 0 ELSE calm
        /\ block' = IF jumped /\ ~spoofed THEN SpoofBlock ELSE block
        /\ spoofed' = blocked
        /\ stable' = ~blocked

(* Slip: the block is never lifted. *)
SlipJudgeForever ==
    LET jumped == data = "jump" /\ window' > WarmUp
    IN  /\ calm' = IF jumped THEN 0 ELSE calm
        /\ block' = IF jumped THEN SpoofBlock ELSE block
        /\ spoofed' = (jumped \/ spoofed)
        /\ stable' = ~spoofed'

(* _is_starlink_stable with the algorithm NO_FILTER: a jump blocks the dish,
   and the first position after the block ends it.                           *)
Judge ==
    LET jumped == data = "jump" /\ window' > WarmUp
        blocked == jumped \/ (spoofed /\ block > 0)
    IN  /\ calm' = IF jumped THEN 0 ELSE calm
        /\ block' = IF jumped THEN SpoofBlock ELSE block
        /\ spoofed' = blocked
        /\ stable' = ~blocked

(* A stable position of a board that moves renews the forecast. *)
Verdict ==
    /\ worker = "stored" /\ worker' = "sleep"
    /\ window' = Appended
    /\ Judge
    /\ \E moving \in BOOLEAN : ahead' = IF stable' /\ moving THEN Forecast ELSE ahead
    /\ UNCHANGED <<since, dish, hold, mode, nmea, source, faults, commands>>

-----------------------------------------------------------------------------
(* The other two threads, and time *)

(* Sentences other than GGA and RMC are ignored; a silent receiver leaves
   the last one where it is.                                                 *)
BeitianReads(sentence) ==
    /\ nmea' = sentence
    /\ UNCHANGED <<worker, since, dish, verdict, hold, mode, source, faults, commands>>

(* SET_GPS_GLOBAL_ORIGIN, or command 179 *)
SetManual ==
    /\ commands < MaxCommands /\ commands' = commands + 1
    /\ hold' = ManualHold
    /\ UNCHANGED <<worker, since, dish, verdict, mode, nmea, source, faults>>

(* LED_CONTROL: white is the dish, any other colour the receiver. *)
LedControl(to) ==
    /\ commands < MaxCommands /\ commands' = commands + 1
    /\ mode' = to
    /\ UNCHANGED <<worker, since, dish, verdict, hold, nmea, source, faults>>

Later(x, bound) == IF x < bound THEN x + 1 ELSE x
Sooner(x) == IF x > 0 THEN x - 1 ELSE x

(* The thread's work outside the request takes no time. *)
Tick ==
    /\ \/ worker = "sleep" /\ worker' = "look" /\ UNCHANGED nap
       \/ worker = "ask" /\ since < Deadline /\ UNCHANGED <<worker, nap>>
       \/ worker = "nap" /\ nap' = nap - 1 /\ worker' = IF nap = 1 THEN "look" ELSE "nap"
       \/ worker = "dead" /\ UNCHANGED <<worker, nap>>
    /\ since' = Later(since, Longest)
    /\ age' = Later(age, Allowed(MaxFaults) + 1)
    /\ calm' = Later(calm, SpoofBlock)
    /\ block' = Sooner(block) /\ ahead' = Sooner(ahead) /\ hold' = Sooner(hold)
    /\ UNCHANGED <<avail, data, fails, missed, window, stable, spoofed, mode, nmea, source,
                   faults, commands>>

Answer == Store("fix") \/ Store("jump") \/ NoFix \/ Failure

Next ==
    \/ MainLoop \/ Look \/ Answer \/ Verdict
    \/ \E sentence \in {"fix", "void"} : BeitianReads(sentence)
    \/ SetManual
    \/ \E to \in {"STARLINK", "BEITIAN"} : LedControl(to)
    \/ Tick

(* The threads and the clock go on; a request ends by its deadline. *)
Fairness ==
    /\ WF_vars(MainLoop) /\ WF_vars(Look) /\ WF_vars(Answer) /\ WF_vars(Verdict)
    /\ WF_vars(Tick)

Spec == Init /\ [][Next]_vars /\ Fairness

-----------------------------------------------------------------------------
(***************************************************************************)
(* A position of the dish that is sent on as the board's is no older than   *)
(* the requests in a row that must fail before the dish is given up         *)
(* (main.py:571-583), unless failures could not be logged, each of which    *)
(* costs another request and the pause: answers without a fix, blocks and   *)
(* changes of mode do not keep an old one in use.  Only a thread that has   *)
(* ended, because the log could not be written twice in a row, keeps its    *)
(* last position in use for ever (main.py:560, 566).                        *)
(***************************************************************************)
StarlinkIsRecent == Choice = "position" /\ worker # "dead" => age =< Allowed(missed)

(***************************************************************************)
(* After a jump of the dish none of its positions is sent for               *)
(* GPS_SPOOF_BLOCK_SEC, counted from the last jump, whatever the dish       *)
(* answers meanwhile (main.py:369-387).                                    *)
(***************************************************************************)
JumpsAreBlocked == calm < SpoofBlock => Choice # "position"

(***************************************************************************)
(* With faults and commands at an end, the board returns to its dish        *)
(* unless it was told to use the receiver, or the dish's thread has ended.  *)
(***************************************************************************)
ReturnsToStarlink ==
    <>[](mode # "BEITIAN" /\ worker # "dead") => <>[](source = "STARLINK" /\ Choice = "position")

(***************************************************************************)
(* A position that jumps is not sent once the window is warm: main.py:24    *)
(* ranks "Starlink(stable)", and the jump "blocks Starlink" (main.py:369).  *)
(* It fails between main.py:508 and main.py:528: the position is stored     *)
(* under the lock, judged under the lock taken anew, and the main loop that *)
(* runs in between finds it with the verdict on the one before.             *)
(***************************************************************************)
NoJumpIsSent == Choice = "position" /\ window > WarmUp => data # "jump"
=============================================================================
