----------------------------- MODULE ControlPanel -----------------------------
(***************************************************************************)
(* The control panel of the pilot's page (_control_panel.html): the gamepad,*)
(* the button that confirms and stops, and the loop that sends the sticks.  *)
(* JavaScript runs one piece at a time, so an action is what runs up to the  *)
(* next await. Of the server (control_service) only matters here whether a   *)
(* session runs; RcSession has it in detail.                                 *)
(***************************************************************************)
EXTENDS Naturals, FiniteSets

CONSTANTS
    Loops,       \* stick loops there may be at once
    MaxDisables, \* bound: disables on their way
    MaxFaults    \* bound: lost requests, restarts of the server, the gamepad going

ControlPanelAssumption == MaxDisables \in Nat /\ MaxFaults \in Nat

VARIABLES
    controlState,
    gamepad,       \* gamepadIndex is not null
    grace,         \* gamepadDisconnectTimer runs
    hidden,        \* document.hidden
    confirm,       \* the request of confirmControl, whose button is disabled meanwhile
    stickLoopActive,
    loop,          \* each loop: between two sticks, its request or the answer to it on the way
    disables,      \* disables on their way that no loop waits for
    session,       \* the server has a session that runs
    faults

page == <<controlState, gamepad, grace, hidden, confirm, stickLoopActive, loop>>
vars == <<page, disables, session, faults>>

TypeOK ==
    /\ controlState \in {"disconnected", "connected", "armed"}
    /\ gamepad \in BOOLEAN /\ grace \in BOOLEAN /\ hidden \in BOOLEAN
    /\ confirm \in {"none", "sent", "ok", "failed"}
    /\ stickLoopActive \in BOOLEAN /\ session \in BOOLEAN
    /\ loop \in [Loops -> {"none", "turn", "stick", "ok", "expired", "disable", "disabled"}]
    /\ disables \in 0..MaxDisables /\ faults \in 0..MaxFaults

Init ==
    /\ controlState = "disconnected" /\ gamepad = FALSE /\ grace = FALSE /\ hidden = FALSE
    /\ confirm = "none" /\ stickLoopActive = FALSE /\ loop = [l \in Loops |-> "none"]
    /\ disables = 0 /\ session = FALSE /\ faults = 0

Fault == faults < MaxFaults /\ faults' = faults + 1

-----------------------------------------------------------------------------
(* The gamepad. After it went, the session has a grace period of 3 s. *)

\* Its event stops the timer; gamepadLoop, which may find it first, does not.
GamepadConnects ==
    /\ ~gamepad /\ gamepad' = TRUE
    /\ grace' \in {FALSE, grace}
    /\ controlState' = IF controlState = "disconnected" THEN "connected" ELSE controlState
    /\ UNCHANGED <<hidden, confirm, stickLoopActive, loop, disables, session, faults>>

GamepadGoes ==
    /\ gamepad /\ Fault
    /\ gamepad' = FALSE /\ grace' = TRUE
    /\ UNCHANGED <<controlState, hidden, confirm, stickLoopActive, loop, disables, session>>

-----------------------------------------------------------------------------
(* The button and the page. *)

Resting == IF gamepad THEN "connected" ELSE "disconnected"

\* stopControl up to its request.
StopControl(next) ==
    /\ disables < MaxDisables
    /\ stickLoopActive' = FALSE
    /\ controlState' = next
    /\ disables' = disables + 1

\* The timer's end.
GraceEnds ==
    /\ grace /\ grace' = FALSE
    /\ \/ gamepad /\ UNCHANGED <<controlState, stickLoopActive, disables>>
       \/ ~gamepad /\ controlState = "armed" /\ StopControl("disconnected")
       \/ ~gamepad /\ controlState # "armed" /\ controlState' = "disconnected"
          /\ UNCHANGED <<stickLoopActive, disables>>
    /\ UNCHANGED <<gamepad, hidden, confirm, loop, session, faults>>

\* onGamepadPrimaryClick while connected.
Confirm ==
    /\ ~hidden /\ controlState = "connected" /\ confirm = "none"
    /\ confirm' = "sent"
    /\ UNCHANGED <<controlState, gamepad, grace, hidden, stickLoopActive, loop,
                   disables, session, faults>>

\* scheduleStickLoop
Schedule ==
    IF stickLoopActive THEN UNCHANGED <<stickLoopActive, loop>>
    ELSE /\ stickLoopActive' = TRUE
         /\ \E l \in Loops : loop[l] = "none" /\ loop' = [loop EXCEPT ![l] = "turn"]

ConfirmAnswered ==
    /\ confirm \in {"ok", "failed"} /\ confirm' = "none"
    /\ \/ confirm = "ok" /\ controlState' = "armed" /\ Schedule
       \/ confirm = "failed" /\ UNCHANGED <<controlState, stickLoopActive, loop>>
    /\ UNCHANGED <<gamepad, grace, hidden, disables, session, faults>>

\* onGamepadPrimaryClick while armed.
Stop ==
    /\ ~hidden /\ controlState = "armed" /\ confirm = "none"
    /\ StopControl(Resting)
    /\ UNCHANGED <<gamepad, grace, hidden, confirm, loop, session, faults>>

\* visibilitychange
Hide ==
    /\ ~hidden /\ hidden' = TRUE
    /\ \/ controlState = "armed" /\ StopControl(Resting)
       \/ controlState # "armed" /\ UNCHANGED <<controlState, stickLoopActive, disables>>
    /\ UNCHANGED <<gamepad, grace, confirm, loop, session, faults>>

Show ==
    /\ hidden /\ hidden' = FALSE
    /\ UNCHANGED <<controlState, gamepad, grace, confirm, stickLoopActive, loop,
                   disables, session, faults>>

-----------------------------------------------------------------------------
(* The stick loop: one request, its answer, a pause. *)

Goes(l, at) == loop' = [loop EXCEPT ![l] = at]
OnlyLoop == UNCHANGED <<controlState, gamepad, grace, hidden, confirm, stickLoopActive,
                        disables, session, faults>>

\* Slip: sendStick forgets to ask for the state.
SlipSends == gamepad

Sends == controlState = "armed" /\ gamepad

\* A turn of the loop; one in which sendStick returns at once changes nothing.
Turn(l) ==
    /\ loop[l] = "turn"
    /\ \/ ~stickLoopActive /\ Goes(l, "none")
       \/ stickLoopActive /\ Sends /\ Goes(l, "stick")
    /\ OnlyLoop

\* The end of sendStick: the loop asks at once whether it goes on.
Returns(l) == Goes(l, IF stickLoopActive THEN "turn" ELSE "none")

StickDone(l) ==
    /\ loop[l] = "ok" /\ Returns(l)
    /\ OnlyLoop

\* The network fails, or AbortController ends the request after 0.4 s.
StickFails(l) ==
    /\ loop[l] \in {"stick", "ok", "expired"} /\ Fault
    /\ Returns(l)
    /\ UNCHANGED <<controlState, gamepad, grace, hidden, confirm, stickLoopActive,
                   disables, session>>

\* Slip: a refusal is logged and sending goes on.
SlipStickExpired(l) ==
    /\ loop[l] = "expired" /\ Returns(l)
    /\ OnlyLoop

\* 409: stopControl(true), and the loop waits for its request ...
StickExpired(l) ==
    /\ loop[l] = "expired" /\ Goes(l, "disable")
    /\ stickLoopActive' = FALSE
    /\ UNCHANGED <<controlState, gamepad, grace, hidden, confirm, disables, session, faults>>

\* ... then shows that control has ended.
ShowExpired(l) ==
    /\ loop[l] = "disabled" /\ Returns(l)
    /\ controlState' = Resting
    /\ UNCHANGED <<gamepad, grace, hidden, confirm, stickLoopActive, disables, session, faults>>

-----------------------------------------------------------------------------
(* The server: enable_control, update_stick, disable_control; a request may  *)
(* be lost on the way there or back.                                          *)

ServeEnable ==
    /\ confirm = "sent"
    /\ \/ session' = TRUE /\ confirm' = "ok" /\ UNCHANGED faults
       \/ session' \in {session, TRUE} /\ confirm' = "failed" /\ Fault
    /\ UNCHANGED <<controlState, gamepad, grace, hidden, stickLoopActive, loop, disables>>

ServeStick(l) ==
    /\ loop[l] = "stick" /\ Goes(l, IF session THEN "ok" ELSE "expired")
    /\ OnlyLoop

Ended ==
    \/ session' = FALSE /\ UNCHANGED faults
    \/ Fault /\ UNCHANGED session

ServeDisable ==
    /\ disables > 0 /\ disables' = disables - 1 /\ Ended
    /\ UNCHANGED page

ServeExpired(l) ==
    /\ loop[l] = "disable" /\ Goes(l, "disabled") /\ Ended
    /\ UNCHANGED <<controlState, gamepad, grace, hidden, confirm, stickLoopActive, disables>>

\* SESSION_ABANDON_SEC without a stick: none is on its way and no loop sends one.
Quiet == \A l \in Loops : loop[l] # "stick" /\ (loop[l] = "turn" => ~(stickLoopActive /\ Sends))

SessionAbandoned ==
    /\ session /\ Quiet /\ session' = FALSE
    /\ UNCHANGED <<page, disables, faults>>

Restart ==
    /\ session /\ session' = FALSE /\ Fault
    /\ UNCHANGED <<page, disables>>

-----------------------------------------------------------------------------
Next ==
    \/ GamepadConnects \/ GamepadGoes \/ GraceEnds
    \/ Confirm \/ ConfirmAnswered \/ Stop \/ Hide \/ Show
    \/ \E l \in Loops : \/ Turn(l) \/ StickDone(l) \/ StickFails(l)
                        \/ StickExpired(l) \/ ShowExpired(l)
                        \/ ServeStick(l) \/ ServeExpired(l)
    \/ ServeEnable \/ ServeDisable \/ SessionAbandoned \/ Restart

\* Timers end, loops turn, requests are served and answered, an abandoned session ends.
Fairness ==
    /\ WF_vars(GraceEnds) /\ WF_vars(ConfirmAnswered)
    /\ WF_vars(ServeEnable) /\ WF_vars(ServeDisable) /\ WF_vars(SessionAbandoned)
    /\ \A l \in Loops : /\ WF_vars(Turn(l)) /\ WF_vars(StickDone(l))
                        /\ WF_vars(StickExpired(l)) /\ WF_vars(ShowExpired(l))
                        /\ WF_vars(ServeStick(l)) /\ WF_vars(ServeExpired(l))

Spec == Init /\ [][Next]_vars /\ Fairness

-----------------------------------------------------------------------------
Armed == controlState = "armed"

Feeding == {"turn", "stick", "ok", "expired"}

\* A panel that shows control as running has a loop that feeds the session, and is to go on,
\* or one that has been refused and is about to take the word back: however stops, refusals
\* to former sticks and confirmations fall, no panel stays armed with nothing behind it.
ArmedHasLoop ==
    Armed => \/ stickLoopActive /\ \E l \in Loops : loop[l] \in Feeding
             \/ ~stickLoopActive /\ \E l \in Loops : loop[l] \in {"disable", "disabled"}

\* A panel that shows control as running while the server has no session comes to show
\* it, or the server to have one: only the refusal of a stick tells the page.
ShowsRefusal == Armed /\ gamepad /\ ~session ~> ~Armed \/ ~gamepad \/ session

\* A panel that does not drive leaves no session behind, although answers to its former
\* sticks and stops still arrive.
LeavesNothing == ~Armed /\ confirm = "none" ~> Armed \/ confirm # "none" \/ ~session

\* (Refuted by TLC.) At most one stick is on its way: stopped and confirmed again within
\* one request, the former loop finds stickLoopActive set and goes on beside the new one.
OneStickInFlight == Cardinality({l \in Loops : loop[l] \in {"stick", "ok", "expired"}}) <= 1

\* (Refuted by TLC.) A hidden page does not drive: the answer to a confirmation that was
\* on its way when the page was hidden arms it.
HiddenDoesNotDrive == hidden => ~Armed
=============================================================================
