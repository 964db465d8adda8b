------------------------------ MODULE OneCamera ------------------------------
(* What the lower camera promises: one of preview and recording at a time,    *)
(* and recordings only inside a session no longer than the ceiling, counted   *)
(* from the session's beginning whatever interrupts it.                       *)
EXTENDS Naturals

CONSTANTS Ceiling, None

VARIABLES
    mode,     \* who holds the camera: "off", "preview", "record"
    session   \* ticks since the session began, None when there is none

Age(s) == IF s = None \/ s = Ceiling THEN s ELSE s + 1

Init == mode = "off" /\ session = None

Open == session = None /\ session' = 0 /\ UNCHANGED mode

Close ==
    /\ session # None /\ session' = None
    /\ mode' = IF mode = "record" THEN "off" ELSE mode

Take ==
    /\ mode = "off"
    /\ mode' \in {"preview", "record"}
    /\ mode' = "record" => session # None /\ session < Ceiling
    /\ UNCHANGED session

Leave == mode # "off" /\ mode' = "off" /\ UNCHANGED session

Tick ==
    /\ mode = "record" => session # Ceiling
    /\ session' = Age(session)
    /\ UNCHANGED mode

PowerOff == mode' = "off" /\ session' = None

Next == Open \/ Close \/ Take \/ Leave \/ Tick \/ PowerOff

Spec == Init /\ [][Next]_<<mode, session>>
=============================================================================
