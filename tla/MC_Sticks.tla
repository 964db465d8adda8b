------------------------------- MODULE MC_Sticks -------------------------------
(***************************************************************************)
(* The two ways of a pilot's sticks to the flight controller: the bridge on  *)
(* the board (CrsfBridge) and the session on the admin server (RcSession);   *)
(* and the page they start from (ControlPanel).  A behaviour follows one of  *)
(* them ("part").                                                            *)
(*                                                                          *)
(* Bridge: ticks of a quarter of a second, half a second to the failsafe,    *)
(* one second of sleep after a failed reopening.  Session: two HTTP threads, *)
(* two sessions, the second may be enabled while the first is stopped.  Page: *)
(* two loops of sticks, two disables on their way, two faults.               *)
(***************************************************************************)
EXTENDS CrsfBridge

CONSTANTS t1, t2, s1, s2, Threads, Sessions, None, StickTimeout, Abandon, FcTimeout, MaxLosses,
    MaxCrashes, PageLoops, PageDisables, MaxPageFaults

TwoThreads == {t1, t2}
TwoSessions == {s1, s2}

VARIABLES part,
    table, running, loop, age, copy, held, stick, silent, req, fed, losses, crashes,
    controlState, gamepad, grace, hidden, confirm, stickLoopActive, pageLoop, disables, session,
    pageFaults

Rc == INSTANCE RcSession

ASSUME SessionBounds == Rc!SessionAssumption

rc == <<table, running, loop, age, copy, held, stick, silent, req, fed, losses, crashes>>

Panel == INSTANCE ControlPanel WITH
    Loops <- PageLoops, MaxDisables <- PageDisables, MaxFaults <- MaxPageFaults,
    loop <- pageLoop, faults <- pageFaults

ASSUME PanelBounds == Panel!ControlPanelAssumption

panel == <<controlState, gamepad, grace, hidden, confirm, stickLoopActive, pageLoop, disables,
           session, pageFaults>>

PartsInit ==
    /\ Init /\ Rc!Init /\ Panel!Init
    /\ part \in {"bridge", "session", "page"} /\ (part # "bridge" => port)

PartsNext ==
    \/ part = "bridge" /\ Next /\ UNCHANGED <<rc, panel, part>>
    \/ part = "session" /\ Rc!Next /\ UNCHANGED <<vars, panel, part>>
    \/ part = "page" /\ Panel!Next /\ UNCHANGED <<vars, rc, part>>

PartsSpec == PartsInit /\ [][PartsNext]_<<vars, rc, panel, part>>

(* A part that does not run keeps its initial state, where its invariants hold; *)
(* what a part must do in the end, it does when it is scheduled fairly.          *)

\* The flight controller follows no sticks for longer than the session's timeout allows.
RcSticksAreRecent == Rc!SticksAreRecent

\* Disabling ends what it should: with no session in the table and no request open, the
\* override is released, and no thread is left that repeats sticks nobody can stop.
RcEndsClean == Rc!ReleasedStays /\ Rc!NoLeakedThread

\* With CRSF mode and a port that stay, frames keep coming, unless a reopening has failed.
BridgeKeepsSending == part = "bridge" /\ Fairness => KeepsSending

\* A session nobody feeds comes to an end, and one that is fed is obeyed.
RcFollowsPilot == part = "session" /\ Rc!Fairness => Rc!Abandons /\ Rc!ObeysPilot

\* The page and the server come to agree on whether the pilot is in control.
PanelAgrees == part = "page" /\ Panel!Fairness => Panel!ShowsRefusal /\ Panel!LeavesNothing
=============================================================================
