---------------------------- MODULE RcSessionProofs ---------------------------
(***************************************************************************)
(* Control sessions of the admin server, for any number of HTTP threads and *)
(* sessions and any timeouts: what a pilot releases stays released, and the *)
(* flight controller follows no old sticks.  The specification is the one   *)
(* the runs check, MC_Sticks, in which RcSession is the instance Rc.        *)
(*                                                                          *)
(* Neither property is inductive: who holds the flight controller's         *)
(* override, which loop may still send a frame and which thread has yet to  *)
(* stop it are different variables, and each conjunct of IInv says who owns *)
(* what one of them allows.  At the end the pilot's page, the instance      *)
(* Panel: it never shows control with no loop of sticks behind it.          *)
(***************************************************************************)
EXTENDS MC_Sticks, TLAPS

Alive == {"top", "send", "sleep"}
Ending(t) == req[t].pc \in {"stop", "join"}

\* A session in the table, or named by a request, has had its thread.
WasStarted ==
    /\ table # None => loop[table] # "none"
    /\ \A t \in Threads : req[t].s # None => loop[req[t].s] # "none"

\* Only an abandoned session stays in the table without running.
AbandonedRests == table # None /\ ~running[table] => loop[table] = "ended"

LeftTable == \A t \in Threads : Ending(t) => req[t].s # table

\* A loop that may still send is the table's, or somebody is about to see it end.
AliveIsOwned ==
    \A s \in Sessions : loop[s] \in Alive =>
        s = table \/ \E t \in Threads : Ending(t) /\ req[t].s = s

RunningIsOwned ==
    \A s \in Sessions : running[s] =>
        s = table \/ \E t \in Threads : req[t].pc = "stop" /\ req[t].s = s

HeldIsOwned ==
    held /\ losses = 0 /\ crashes = 0 =>
        table # None \/ \E t \in Threads : req[t].pc \in {"stop", "join", "release"}

\* Sticks age with the silence since their frame, and a loop asleep has sent its own.
AgeIsSilence ==
    /\ held => stick <= StickTimeout + silent
    /\ losses = 0 /\ held /\ (\E s \in Sessions : loop[s] = "sleep") => silent = 0

Owned == WasStarted /\ AbandonedRests /\ LeftTable /\ AliveIsOwned /\ RunningIsOwned /\ HeldIsOwned

USE SessionBounds DEF Rc!SessionAssumption

-----------------------------------------------------------------------------
(* The parts of a behaviour that are not the session's leave it alone.       *)

LEMMA OtherPartsKeep ==
    ASSUME [PartsNext]_<<vars, rc, panel, part>>
    PROVE  [Rc!Next]_rc
BY DEF PartsNext, rc

LEMMA RequestShape ==
    ASSUME Rc!TypeOK, NEW t \in Threads
    PROVE  /\ req[t].pc \in {"stick", "stop", "join"} => req[t].s \in Sessions
           /\ req[t] = Rc!Idle => req[t].pc = "idle" /\ req[t].s = None
           /\ req[t].s \in Sessions \cup {None}
           /\ req[t].pc = "idle" => req[t] = Rc!Idle
BY DEF Rc!TypeOK, Rc!Requests, Rc!Idle

-----------------------------------------------------------------------------
(* Types.                                                                    *)

LEMMA Numbers ==
    /\ StickTimeout \in Nat /\ Abandon \in Nat /\ FcTimeout \in Nat
    /\ MaxLosses \in Nat /\ MaxCrashes \in Nat
    /\ Rc!AgeLimit \in Nat /\ Rc!StickLimit \in Nat
    /\ StickTimeout < Abandon /\ StickTimeout < Rc!AgeLimit /\ StickTimeout < Rc!StickLimit
BY DEF Rc!AgeLimit, Rc!StickLimit

LEMMA TypeInit ==
    ASSUME Rc!Init
    PROVE  Rc!TypeOK
<1>1. 0 \in 0..Rc!AgeLimit /\ 0 \in 0..Rc!StickLimit /\ 0 \in 0..FcTimeout
      /\ 0 \in 0..MaxLosses /\ 0 \in 0..MaxCrashes
  BY Numbers
<1>2. Rc!Idle \in Rc!Requests
  BY DEF Rc!Idle, Rc!Requests
<1> QED
  BY <1>1, <1>2 DEF Rc!Init, Rc!TypeOK

LEMMA Fields ==
    ASSUME Rc!TypeOK
    PROVE  /\ age \in [Sessions -> 0..Rc!AgeLimit] /\ copy \in [Sessions -> 0..Rc!AgeLimit]
           /\ held \in BOOLEAN /\ fed \in BOOLEAN
           /\ stick \in Nat /\ silent \in Nat /\ losses \in Nat /\ crashes \in Nat
BY Numbers DEF Rc!TypeOK

LEMMA FrameTypes ==
    ASSUME Rc!TypeOK,
           Rc!Release \/ \E n \in 0..StickTimeout : Rc!Override(n)
    PROVE  /\ held' \in BOOLEAN /\ stick' \in 0..Rc!StickLimit /\ silent' \in 0..FcTimeout
           /\ losses' \in 0..MaxLosses
<1>1. losses \in 0..MaxLosses /\ held \in BOOLEAN /\ stick \in 0..Rc!StickLimit
      /\ silent \in 0..FcTimeout
  BY DEF Rc!TypeOK
<1>2. CASE Rc!Lost
  BY <1>1, <1>2, Numbers DEF Rc!Lost, Rc!fc
<1>3. CASE ~Rc!Lost
  <2>1. /\ held' \in BOOLEAN /\ silent' = 0 /\ losses' = losses
        /\ stick' = 0 \/ \E n \in 0..StickTimeout : stick' = n
    BY <1>3 DEF Rc!Release, Rc!Override
  <2> QED
    BY <1>1, <2>1, Numbers
<1> QED
  BY <1>2, <1>3

LEMMA LoopTypes ==
    ASSUME Rc!TypeOK, NEW s \in Sessions, Rc!Loop(s)
    PROVE  Rc!TypeOK'
<1>1. CASE Rc!Read(s)
  BY <1>1 DEF Rc!Read, Rc!fc, Rc!TypeOK
<1>2. CASE Rc!Leave(s)
  BY <1>2 DEF Rc!Leave, Rc!fc, Rc!TypeOK, Rc!AgeLimit
<1>3. CASE Rc!SendSticks(s) \/ Rc!SendStale(s) \/ Rc!SendAbandoned(s)
  <2>1. Rc!Release \/ \E n \in 0..StickTimeout : Rc!Override(n)
    BY <1>3 DEF Rc!SendSticks, Rc!SendStale, Rc!SendAbandoned, Rc!TypeOK
  <2>2. /\ held' \in BOOLEAN /\ stick' \in 0..Rc!StickLimit /\ silent' \in 0..FcTimeout
        /\ losses' \in 0..MaxLosses
    BY <2>1, FrameTypes
  <2>3. /\ loop' \in [Sessions -> {"none", "top", "send", "sleep", "ended"}]
        /\ copy' \in [Sessions -> 0..Rc!AgeLimit] /\ age' \in [Sessions -> 0..Rc!AgeLimit]
        /\ running' \in [Sessions -> BOOLEAN]
        /\ UNCHANGED <<table, req, fed, crashes>>
    <3>1. 0 \in 0..Rc!AgeLimit
      BY Numbers
    <3>2. CASE Rc!SendSticks(s)
      BY <3>1, <3>2, Fields DEF Rc!SendSticks, Rc!TypeOK
    <3>3. CASE Rc!SendStale(s)
      BY <3>1, <3>3, Fields DEF Rc!SendStale, Rc!TypeOK
    <3>4. CASE Rc!SendAbandoned(s)
      BY <3>1, <3>4, Fields DEF Rc!SendAbandoned, Rc!TypeOK
    <3> QED
      BY <1>3, <3>2, <3>3, <3>4
  <2> QED
    BY <2>2, <2>3 DEF Rc!TypeOK
<1> QED
  BY <1>1, <1>2, <1>3 DEF Rc!Loop

LEMMA HttpTypes ==
    ASSUME Rc!TypeOK, NEW t \in Threads, Rc!Http(t)
    PROVE  Rc!TypeOK'
<1> USE RequestShape
<1>1. CASE Rc!Enable(t)
  <2>1. CASE UNCHANGED <<table, Rc!session>>
    BY <1>1, <2>1 DEF Rc!Enable, Rc!session, Rc!fc, Rc!TypeOK
  <2>2. CASE \E s \in Sessions :
               /\ table' = s
               /\ running' = [running EXCEPT ![s] = TRUE]
               /\ loop' = [loop EXCEPT ![s] = "top"]
               /\ UNCHANGED <<age, copy>>
    BY <1>1, <2>2 DEF Rc!Enable, Rc!fc, Rc!TypeOK
  <2> QED
    BY <1>1, <2>1, <2>2 DEF Rc!Enable
<1>2. CASE Rc!StickLookup(t)
  BY <1>2 DEF Rc!StickLookup, Rc!session, Rc!fc, Rc!TypeOK, Rc!Requests
<1>3. CASE Rc!StickUpdate(t)
  BY <1>3 DEF Rc!StickUpdate, Rc!Answer, Rc!Idle, Rc!fc, Rc!TypeOK, Rc!Requests, Rc!AgeLimit
<1>4. CASE Rc!Disable(t)
  BY <1>4 DEF Rc!Disable, Rc!session, Rc!fc, Rc!TypeOK, Rc!Requests
<1>5. CASE Rc!Stop(t)
  BY <1>5 DEF Rc!Stop, Rc!fc, Rc!TypeOK, Rc!Requests
<1>6. CASE Rc!Join(t)
  BY <1>6 DEF Rc!Join, Rc!session, Rc!fc, Rc!TypeOK, Rc!Requests
<1>7. CASE Rc!DisableRelease(t)
  <2>1. /\ held' \in BOOLEAN /\ stick' \in 0..Rc!StickLimit /\ silent' \in 0..FcTimeout
        /\ losses' \in 0..MaxLosses
    BY <1>7, FrameTypes DEF Rc!DisableRelease
  <2> QED
    BY <1>7, <2>1 DEF Rc!DisableRelease, Rc!Answer, Rc!Idle, Rc!session, Rc!TypeOK, Rc!Requests
<1> QED
  BY <1>1, <1>2, <1>3, <1>4, <1>5, <1>6, <1>7 DEF Rc!Http, Rc!Serve

LEMMA ClockTypes ==
    ASSUME Rc!TypeOK, Rc!Tick \/ Rc!Crash
    PROVE  Rc!TypeOK'
<1>1. CASE Rc!Tick
  <2>1. held' \in BOOLEAN /\ fed' \in BOOLEAN
    BY <1>1, Fields DEF Rc!Tick
  <2>2. stick' \in 0..Rc!StickLimit
    BY <1>1, Numbers DEF Rc!Tick, Rc!Up, Rc!TypeOK
  <2>3. silent' \in 0..FcTimeout
    <3>1. CASE held'
      <4>1. silent < FcTimeout /\ silent' = silent + 1
        BY <1>1, <3>1 DEF Rc!Tick
      <4> QED
        BY <4>1, Fields, Numbers
    <3>2. CASE ~held'
      BY <1>1, <3>2, Numbers DEF Rc!Tick
    <3> QED
      BY <3>1, <3>2
  <2>4. \A n \in 0..Rc!AgeLimit : Rc!Up(n, Rc!AgeLimit) \in 0..Rc!AgeLimit
    BY Numbers DEF Rc!Up
  <2>5. /\ age' \in [Sessions -> 0..Rc!AgeLimit]
        /\ loop' \in [Sessions -> {"none", "top", "send", "sleep", "ended"}]
    BY <1>1, <2>4, Fields DEF Rc!Tick, Rc!TypeOK
  <2> QED
    BY <1>1, <2>1, <2>2, <2>3, <2>5 DEF Rc!Tick, Rc!TypeOK
<1>2. CASE Rc!Crash
  BY <1>2 DEF Rc!Crash, Rc!fc, Rc!TypeOK, Rc!Idle, Rc!Requests, Rc!AgeLimit
<1> QED
  BY <1>1, <1>2

LEMMA TypeStep ==
    ASSUME Rc!TypeOK, [Rc!Next]_rc
    PROVE  Rc!TypeOK'
<1>1. CASE UNCHANGED rc
  BY <1>1 DEF rc, Rc!TypeOK
<1> QED
  BY <1>1, LoopTypes, HttpTypes, ClockTypes DEF Rc!Next

(* The table, the sessions and the requests keep their types for any number  *)
(* of threads and sessions (control_service.py:60-330).                      *)
THEOREM RcTypeCorrect == PartsSpec => []Rc!TypeOK
<1>1. PartsInit => Rc!TypeOK
  BY TypeInit DEF PartsInit
<1>2. Rc!TypeOK /\ [PartsNext]_<<vars, rc, panel, part>> => Rc!TypeOK'
  BY TypeStep, OtherPartsKeep
<1> QED
  BY <1>1, <1>2, PTL DEF PartsSpec


-----------------------------------------------------------------------------
(* Who owns the loops, the requests and the override.                        *)

LEMMA OwnedInit ==
    ASSUME Rc!Init
    PROVE  Owned
BY DEF Rc!Init, Rc!Idle, Owned, WasStarted, AbandonedRests, LeftTable, AliveIsOwned,
       RunningIsOwned, HeldIsOwned, Alive, Ending

(* A loop takes a step: it remains whose it was, or ends.                    *)
LEMMA OwnedLoop ==
    ASSUME Rc!TypeOK, Owned, NEW s \in Sessions, Rc!Loop(s)
    PROVE  Owned'
<1>1. /\ UNCHANGED <<table, req, crashes>>
      /\ loop[s] \in Alive
      /\ \A r \in Sessions : r # s => loop'[r] = loop[r] /\ running'[r] = running[r]
      /\ loop'[s] \in Alive \cup {"ended"}
      /\ running'[s] \in BOOLEAN /\ (running'[s] => running[s])
      /\ ~running'[s] => ~running[s] \/ loop'[s] = "ended"
  BY DEF Rc!Loop, Rc!Read, Rc!Leave, Rc!SendSticks, Rc!SendStale, Rc!SendAbandoned, Rc!TypeOK,
         Alive
<1>2. WasStarted'
  BY <1>1, RequestShape DEF Owned, WasStarted, Alive, Rc!TypeOK
<1>3. AbandonedRests'
  BY <1>1 DEF Owned, AbandonedRests, Alive, Rc!TypeOK
<1>4. LeftTable' /\ AliveIsOwned' /\ RunningIsOwned'
  BY <1>1 DEF Owned, LeftTable, AliveIsOwned, RunningIsOwned, Ending, Alive
<1>5. HeldIsOwned'
  <2>1. s = table \/ \E t \in Threads : Ending(t)
    BY <1>1 DEF Owned, AliveIsOwned
  <2>2. table' # None \/ \E t \in Threads : req'[t].pc \in {"stop", "join", "release"}
    BY <1>1, <2>1, SessionBounds DEF Ending
  <2> QED
    BY <2>2 DEF HeldIsOwned
<1> QED
  BY <1>2, <1>3, <1>4, <1>5 DEF Owned

LEMMA OwnedEnable ==
    ASSUME Rc!TypeOK, Owned, NEW t \in Threads, Rc!Enable(t)
    PROVE  Owned'
<1>1. CASE table # None /\ running[table]
  BY <1>1 DEF Rc!Enable, Rc!session, Rc!fc, Owned, WasStarted, AbandonedRests, LeftTable,
              AliveIsOwned, RunningIsOwned, HeldIsOwned, Alive, Ending
<1>2. CASE ~(table # None /\ running[table])
  <2>1. PICK s \in Sessions :
          /\ loop[s] = "none"
          /\ table' = s
          /\ running' = [running EXCEPT ![s] = TRUE]
          /\ loop' = [loop EXCEPT ![s] = "top"]
    BY <1>2 DEF Rc!Enable
  <2>2. UNCHANGED <<req, held, losses, crashes>>
    BY DEF Rc!Enable, Rc!fc
  <2>3. table # None => loop[table] = "ended" /\ ~running[table]
    BY <1>2 DEF Owned, AbandonedRests
  <2>4. s # None
    BY DEF Rc!SessionAssumption
  <2>5. WasStarted'
    BY <2>1, <2>2, RequestShape DEF Owned, WasStarted, Rc!TypeOK
  <2>6. AbandonedRests'
    BY <2>1 DEF AbandonedRests, Rc!TypeOK
  <2>7. LeftTable'
    BY <2>1, <2>2, <2>4, RequestShape DEF Owned, WasStarted, LeftTable, Ending
  <2>8. AliveIsOwned'
    BY <2>1, <2>2, <2>3 DEF Owned, AliveIsOwned, Alive, Ending, Rc!TypeOK
  <2>9. RunningIsOwned'
    BY <2>1, <2>2, <2>3 DEF Owned, RunningIsOwned, Rc!TypeOK
  <2>10. HeldIsOwned'
    BY <2>1, <2>4 DEF HeldIsOwned
  <2> QED
    BY <2>5, <2>6, <2>7, <2>8, <2>9, <2>10 DEF Owned
<1> QED
  BY <1>1, <1>2

(* Sticks change neither a session nor who stops it.                         *)
LEMMA OwnedStick ==
    ASSUME Rc!TypeOK, Owned, NEW t \in Threads, Rc!StickLookup(t) \/ Rc!StickUpdate(t)
    PROVE  Owned'
<1>1. /\ UNCHANGED <<table, running, loop, held, losses, crashes>>
      /\ \A u \in Threads : u # t => req'[u] = req[u]
      /\ req[t].pc \notin {"stop", "join", "release"}
      /\ req'[t].pc \notin {"stop", "join", "release"}
      /\ req'[t].s \in {None, table}
  BY DEF Rc!StickLookup, Rc!StickUpdate, Rc!Answer, Rc!Idle, Rc!session, Rc!fc, Rc!TypeOK
<1> QED
  BY <1>1 DEF Owned, WasStarted, AbandonedRests, LeftTable, AliveIsOwned, RunningIsOwned,
              HeldIsOwned, Alive, Ending

(* The session leaves the table together with a thread that will stop it.    *)
LEMMA OwnedDisable ==
    ASSUME Rc!TypeOK, Owned, NEW t \in Threads, Rc!Disable(t)
    PROVE  Owned'
<1>1. /\ UNCHANGED <<running, loop, held, losses, crashes>>
      /\ \A u \in Threads : u # t => req'[u] = req[u]
      /\ req[t].pc = "idle" /\ table' = None
      /\ req'[t] = [pc |-> IF table = None THEN "release" ELSE "stop", s |-> table]
  BY DEF Rc!Disable, Rc!Idle, Rc!session, Rc!fc, Rc!TypeOK
<1>2. WasStarted' /\ AbandonedRests'
  BY <1>1 DEF Owned, WasStarted, AbandonedRests
<1>3. LeftTable'
  BY <1>1, RequestShape, SessionBounds DEF Ending, LeftTable, Rc!TypeOK
<1>4. AliveIsOwned' /\ RunningIsOwned'
  BY <1>1, SessionBounds DEF Owned, AliveIsOwned, RunningIsOwned, Alive, Ending
<1>5. HeldIsOwned'
  BY <1>1 DEF HeldIsOwned
<1> QED
  BY <1>2, <1>3, <1>4, <1>5 DEF Owned

LEMMA OwnedStop ==
    ASSUME Rc!TypeOK, Owned, NEW t \in Threads, Rc!Stop(t)
    PROVE  Owned'
<1>1. /\ UNCHANGED <<table, loop, held, losses, crashes>>
      /\ \A u \in Threads : u # t => req'[u] = req[u]
      /\ req[t].pc = "stop" /\ req'[t].pc = "join" /\ req'[t].s = req[t].s
      /\ running' = [running EXCEPT ![req[t].s] = FALSE]
      /\ req[t].s # table
  BY DEF Rc!Stop, Rc!fc, Rc!TypeOK, Owned, LeftTable, Ending
<1>2. WasStarted' /\ LeftTable' /\ HeldIsOwned'
  BY <1>1 DEF Owned, WasStarted, LeftTable, HeldIsOwned, Ending
<1>3. AbandonedRests'
  BY <1>1 DEF Owned, AbandonedRests, Rc!TypeOK
<1>4. AliveIsOwned'
  BY <1>1 DEF Owned, AliveIsOwned, Ending
<1>5. RunningIsOwned'
  BY <1>1, RequestShape DEF Owned, RunningIsOwned, Rc!TypeOK
<1> QED
  BY <1>2, <1>3, <1>4, <1>5 DEF Owned

(* A thread goes on once the loop has ended, and answers with the release.   *)
LEMMA OwnedRelease ==
    ASSUME Rc!TypeOK, Owned, NEW t \in Threads, Rc!Join(t) \/ Rc!DisableRelease(t)
    PROVE  Owned'
<1>1. /\ UNCHANGED <<table, running, loop, crashes>>
      /\ \A u \in Threads : u # t => req'[u] = req[u]
      /\ req[t].pc # "stop" /\ (req[t].pc = "join" => loop[req[t].s] = "ended")
      /\ req'[t].pc \in {"idle", "release"} /\ req'[t].s \in {None, req[t].s}
  <2>1. CASE Rc!Join(t)
    BY <2>1 DEF Rc!Join, Rc!session, Rc!TypeOK
  <2>2. CASE Rc!DisableRelease(t)
    BY <2>2 DEF Rc!DisableRelease, Rc!Answer, Rc!Idle, Rc!session, Rc!TypeOK
  <2> QED
    BY <2>1, <2>2
<1>2. WasStarted' /\ AbandonedRests' /\ LeftTable' /\ RunningIsOwned'
  BY <1>1 DEF Owned, WasStarted, AbandonedRests, LeftTable, RunningIsOwned, Ending
<1>3. AliveIsOwned'
  BY <1>1 DEF Owned, AliveIsOwned, Ending, Alive
<1>4. HeldIsOwned'
  <2>1. CASE Rc!Join(t)
    BY <2>1 DEF Rc!Join, Rc!session, Rc!fc, Rc!TypeOK, HeldIsOwned
  <2>2. CASE Rc!DisableRelease(t)
    BY <2>2, Fields DEF Rc!DisableRelease, Rc!Release, Rc!Lost, HeldIsOwned
  <2> QED
    BY <2>1, <2>2
<1> QED
  BY <1>2, <1>3, <1>4 DEF Owned

LEMMA OwnedClock ==
    ASSUME Rc!TypeOK, Owned, Rc!Tick \/ Rc!Crash
    PROVE  Owned'
<1>1. CASE Rc!Tick
  <2>1. /\ UNCHANGED <<table, running, req, losses, crashes>> /\ (held' => held)
        /\ \A s \in Sessions : /\ loop'[s] \in Alive <=> loop[s] \in Alive
                               /\ loop'[s] = "none" <=> loop[s] = "none"
                               /\ loop[s] = "ended" => loop'[s] = "ended"
    BY <1>1 DEF Rc!Tick, Alive, Rc!TypeOK
  <2>2. WasStarted' /\ AbandonedRests'
    BY <2>1, RequestShape DEF Owned, WasStarted, AbandonedRests, Rc!TypeOK
  <2>3. LeftTable' /\ AliveIsOwned' /\ RunningIsOwned' /\ HeldIsOwned'
    BY <2>1 DEF Owned, LeftTable, AliveIsOwned, RunningIsOwned, HeldIsOwned, Ending
  <2> QED
    BY <2>2, <2>3 DEF Owned
<1>2. CASE Rc!Crash
  <2>1. crashes' # 0
    BY <1>2, Fields DEF Rc!Crash
  <2> QED
    BY <1>2, <2>1 DEF Rc!Crash, Rc!Idle, Owned, WasStarted, AbandonedRests, LeftTable,
                      AliveIsOwned, RunningIsOwned, HeldIsOwned, Alive, Ending
<1> QED
  BY <1>1, <1>2

LEMMA OwnedStep ==
    ASSUME Rc!TypeOK, Owned, [Rc!Next]_rc
    PROVE  Owned'
<1>1. CASE UNCHANGED rc
  BY <1>1 DEF rc, Owned, WasStarted, AbandonedRests, LeftTable, AliveIsOwned, RunningIsOwned,
              HeldIsOwned, Alive, Ending
<1>2. ASSUME NEW t \in Threads, Rc!Http(t)
      PROVE  Owned'
  BY <1>2, OwnedEnable, OwnedStick, OwnedDisable, OwnedStop, OwnedRelease DEF Rc!Http, Rc!Serve
<1> QED
  BY <1>1, <1>2, OwnedLoop, OwnedClock DEF Rc!Next

(* However enabling, feeding and disabling interleave: when the requests are *)
(* answered and no session is in the table, nothing is overridden any more,  *)
(* and no thread is left that repeats sticks (control_service.py:278-301).   *)
THEOREM EndsClean == PartsSpec => []RcEndsClean
<1>1. PartsInit => Rc!TypeOK /\ Owned
  BY TypeInit, OwnedInit DEF PartsInit
<1>2. Rc!TypeOK /\ Owned /\ [PartsNext]_<<vars, rc, panel, part>> => Rc!TypeOK' /\ Owned'
  BY TypeStep, OwnedStep, OtherPartsKeep
<1>3. Rc!TypeOK /\ Owned => RcEndsClean
  BY RequestShape DEF Owned, HeldIsOwned, RunningIsOwned, RcEndsClean, Rc!ReleasedStays,
                      Rc!NoLeakedThread, Rc!Quiet
<1> QED
  BY <1>1, <1>2, <1>3, PTL DEF PartsSpec

-----------------------------------------------------------------------------
(* How old the sticks are that the flight controller follows.                *)

\* A frame brings sticks within the timeout, and the silence starts anew.
LEMMA FrameAge ==
    ASSUME Rc!TypeOK, AgeIsSilence,
           Rc!Release \/ \E n \in 0..StickTimeout : Rc!Override(n)
    PROVE  /\ held' => stick' <= StickTimeout + silent'
           /\ losses' = 0 => silent' = 0
<1>1. CASE Rc!Lost
  <2>1. losses' # 0
    BY <1>1, Fields DEF Rc!Lost
  <2> QED
    BY <1>1, <2>1 DEF Rc!Lost, Rc!fc, AgeIsSilence
<1>2. CASE ~Rc!Lost
  <2>1. silent' = 0 /\ (stick' = 0 \/ \E n \in 0..StickTimeout : stick' = n)
    BY <1>2 DEF Rc!Release, Rc!Override
  <2> QED
    BY <2>1, Numbers
<1> QED
  BY <1>1, <1>2

LEMMA AgeLoop ==
    ASSUME Rc!TypeOK, AgeIsSilence, NEW s \in Sessions, Rc!Loop(s)
    PROVE  AgeIsSilence'
<1>1. CASE Rc!Read(s) \/ Rc!Leave(s)
  <2>1. /\ UNCHANGED <<held, stick, silent, losses>>
        /\ \A r \in Sessions : loop'[r] = "sleep" => loop[r] = "sleep"
    BY <1>1 DEF Rc!Read, Rc!Leave, Rc!fc, Rc!TypeOK
  <2> QED
    BY <2>1 DEF AgeIsSilence
<1>2. CASE Rc!SendSticks(s) \/ Rc!SendStale(s) \/ Rc!SendAbandoned(s)
  <2>1. Rc!Release \/ \E n \in 0..StickTimeout : Rc!Override(n)
    BY <1>2, Fields DEF Rc!SendSticks, Rc!SendStale, Rc!SendAbandoned
  <2> QED
    BY <2>1, FrameAge DEF AgeIsSilence
<1> QED
  BY <1>1, <1>2 DEF Rc!Loop

LEMMA AgeHttp ==
    ASSUME Rc!TypeOK, AgeIsSilence, NEW t \in Threads, Rc!Http(t)
    PROVE  AgeIsSilence'
<1>1. CASE Rc!DisableRelease(t)
  BY <1>1, FrameAge DEF Rc!DisableRelease, AgeIsSilence
<1>2. CASE ~Rc!DisableRelease(t)
  <2>1. /\ UNCHANGED <<held, stick, silent, losses>>
        /\ \A r \in Sessions : loop'[r] = "sleep" => loop[r] = "sleep"
    BY <1>2 DEF Rc!Http, Rc!Serve, Rc!Enable, Rc!StickLookup, Rc!StickUpdate, Rc!Disable, Rc!Stop,
                Rc!Join, Rc!session, Rc!fc, Rc!TypeOK
  <2> QED
    BY <2>1 DEF AgeIsSilence
<1> QED
  BY <1>1, <1>2

\* A period adds one to the age and to the silence, and wakes every loop.
LEMMA AgeClock ==
    ASSUME Rc!TypeOK, AgeIsSilence, Rc!Tick \/ Rc!Crash
    PROVE  AgeIsSilence'
<1>1. CASE Rc!Tick
  <2>1. \A r \in Sessions : loop'[r] # "sleep"
    BY <1>1 DEF Rc!Tick, Rc!TypeOK
  <2>2. held' => held /\ stick' = Rc!Up(stick, Rc!StickLimit) /\ silent' = silent + 1
    BY <1>1 DEF Rc!Tick
  <2>3. Rc!Up(stick, Rc!StickLimit) <= stick + 1
    BY Fields, Numbers DEF Rc!Up, Rc!TypeOK
  <2>4. ASSUME held'
        PROVE  stick' <= StickTimeout + silent'
    <3>1. stick <= StickTimeout + silent
      BY <2>2, <2>4 DEF AgeIsSilence
    <3> QED
      BY <2>2, <2>3, <2>4, <3>1, Fields, Numbers DEF Rc!Up
  <2> QED
    BY <2>1, <2>4 DEF AgeIsSilence
<1>2. CASE Rc!Crash
  BY <1>2 DEF Rc!Crash, Rc!fc, Rc!TypeOK, AgeIsSilence
<1> QED
  BY <1>1, <1>2

LEMMA AgeStep ==
    ASSUME Rc!TypeOK, AgeIsSilence, [Rc!Next]_rc
    PROVE  AgeIsSilence'
<1>1. CASE UNCHANGED rc
  BY <1>1 DEF rc, AgeIsSilence
<1> QED
  BY <1>1, AgeLoop, AgeHttp, AgeClock DEF Rc!Next

(* For any timeouts and periods: once a session has sent its frame, the       *)
(* flight controller follows no sticks older than STICK_TIMEOUT_SEC, and      *)
(* through stalls, losses and stops none older than that and its own timeout  *)
(* (control_service.py:195-224).                                              *)
THEOREM FcFollowsRecent == PartsSpec => []RcSticksAreRecent
<1>1. PartsInit => Rc!TypeOK /\ AgeIsSilence
  BY TypeInit DEF PartsInit, Rc!Init, AgeIsSilence
<1>2. /\ Rc!TypeOK /\ AgeIsSilence /\ [PartsNext]_<<vars, rc, panel, part>>
      => Rc!TypeOK' /\ AgeIsSilence'
  BY TypeStep, AgeStep, OtherPartsKeep
<1>3. ASSUME Rc!TypeOK, AgeIsSilence
      PROVE  RcSticksAreRecent
  <2>1. ASSUME held
        PROVE  stick <= StickTimeout + IF Rc!Sent THEN 0 ELSE FcTimeout
    <3>1. stick <= StickTimeout + silent /\ silent <= FcTimeout
      BY <1>3, <2>1, Numbers DEF AgeIsSilence, Rc!TypeOK
    <3>2. Rc!Sent => silent = 0
      BY <1>3, <2>1 DEF AgeIsSilence, Rc!Sent
    <3> QED
      BY <1>3, <3>1, <3>2, Fields, Numbers
  <2> QED
    BY <2>1 DEF RcSticksAreRecent, Rc!SticksAreRecent
<1> QED
  BY <1>1, <1>2, <1>3, PTL DEF PartsSpec
-----------------------------------------------------------------------------
(* The panel of the pilot's page.                                            *)

ActiveIsFed == stickLoopActive => \E l \in PageLoops : pageLoop[l] \in Panel!Feeding

PanelInv == Panel!TypeOK /\ ActiveIsFed /\ Panel!ArmedHasLoop

LEMMA PanelOrNot ==
    ASSUME [PartsNext]_<<vars, rc, panel, part>>
    PROVE  [Panel!Next]_panel
BY DEF PartsNext, panel

Steps == {"none", "turn", "stick", "ok", "expired", "disable", "disabled"}

LEMMA PanelFields ==
    ASSUME Panel!TypeOK
    PROVE  /\ pageLoop \in [PageLoops -> Steps] /\ stickLoopActive \in BOOLEAN
           /\ disables \in 0..PageDisables /\ pageFaults \in 0..MaxPageFaults
           /\ PageDisables \in Nat /\ MaxPageFaults \in Nat
BY PanelBounds DEF Panel!TypeOK, Panel!ControlPanelAssumption, Steps

LEMMA PanelTypeInit ==
    ASSUME Panel!Init
    PROVE  Panel!TypeOK
<1>1. 0 \in 0..PageDisables /\ 0 \in 0..MaxPageFaults
  BY PanelBounds DEF Panel!ControlPanelAssumption
<1> QED
  BY <1>1 DEF Panel!Init, Panel!TypeOK

\* Where a loop goes, no other loop is moved.
LEMMA LoopGoes ==
    ASSUME Panel!TypeOK, NEW l \in PageLoops, NEW at \in Steps, Panel!Goes(l, at)
    PROVE  /\ pageLoop' \in [PageLoops -> Steps] /\ pageLoop'[l] = at
           /\ \A k \in PageLoops : k # l => pageLoop'[k] = pageLoop[k]
<1>1. pageLoop \in [PageLoops -> Steps]
  BY PanelFields
<1>2. pageLoop' = [pageLoop EXCEPT ![l] = at]
  BY DEF Panel!Goes
<1> QED
  BY <1>1, <1>2

LEMMA FaultIsCounted ==
    ASSUME Panel!TypeOK, Panel!Fault
    PROVE  pageFaults' \in 0..MaxPageFaults
BY PanelFields DEF Panel!Fault

LEMMA StopIsCounted ==
    ASSUME Panel!TypeOK, NEW next, Panel!StopControl(next)
    PROVE  /\ disables' \in 0..PageDisables /\ stickLoopActive' = FALSE /\ controlState' = next
<1>1. disables < PageDisables /\ disables' = disables + 1
  BY DEF Panel!StopControl
<1> QED
  BY <1>1, PanelFields DEF Panel!StopControl

-----------------------------------------------------------------------------
(* Steps that leave the loops alone. *)

LEMMA PadTypes ==
    ASSUME Panel!TypeOK,
           \/ Panel!GamepadConnects \/ Panel!GamepadGoes \/ Panel!GraceEnds
           \/ Panel!Confirm \/ Panel!Stop \/ Panel!Hide \/ Panel!Show
           \/ Panel!ServeEnable \/ Panel!ServeDisable \/ Panel!SessionAbandoned \/ Panel!Restart
    PROVE  Panel!TypeOK'
<1> USE PanelFields DEF Panel!TypeOK
<1>1. CASE Panel!GamepadConnects
  BY <1>1 DEF Panel!GamepadConnects
<1>2. CASE Panel!GamepadGoes
  BY <1>2, FaultIsCounted DEF Panel!GamepadGoes
<1>3. CASE Panel!GraceEnds
  BY <1>3, StopIsCounted DEF Panel!GraceEnds
<1>4. CASE Panel!Confirm
  BY <1>4 DEF Panel!Confirm
<1>5. CASE Panel!Stop
  BY <1>5, StopIsCounted DEF Panel!Stop, Panel!Resting
<1>6. CASE Panel!Hide
  BY <1>6, StopIsCounted DEF Panel!Hide, Panel!Resting
<1>7. CASE Panel!Show
  BY <1>7 DEF Panel!Show
<1>8. CASE Panel!ServeEnable
  BY <1>8, FaultIsCounted DEF Panel!ServeEnable
<1>9. CASE Panel!ServeDisable
  <2>1. disables' \in 0..PageDisables
    BY <1>9 DEF Panel!ServeDisable
  <2> QED
    BY <1>9, <2>1, FaultIsCounted DEF Panel!ServeDisable, Panel!Ended, Panel!page
<1>10. CASE Panel!SessionAbandoned
  BY <1>10 DEF Panel!SessionAbandoned, Panel!page
<1>11. CASE Panel!Restart
  BY <1>11, FaultIsCounted DEF Panel!Restart, Panel!page
<1> QED
  BY <1>1, <1>2, <1>3, <1>4, <1>5, <1>6, <1>7, <1>8, <1>9, <1>10, <1>11

\* Stopping disarms the panel; nothing else here arms it or ends a loop's turn.
LEMMA PadKeeps ==
    ASSUME PanelInv,
           \/ Panel!GamepadConnects \/ Panel!GamepadGoes \/ Panel!GraceEnds
           \/ Panel!Confirm \/ Panel!Stop \/ Panel!Hide \/ Panel!Show
           \/ Panel!ServeEnable \/ Panel!ServeDisable \/ Panel!SessionAbandoned \/ Panel!Restart
    PROVE  PanelInv'
<1>1. Panel!TypeOK /\ ActiveIsFed /\ Panel!ArmedHasLoop
  BY DEF PanelInv
<1>2. Panel!TypeOK'
  BY <1>1, PadTypes
<1>3. pageLoop' = pageLoop
  BY DEF Panel!GamepadConnects, Panel!GamepadGoes, Panel!GraceEnds, Panel!Confirm, Panel!Stop,
     Panel!Hide, Panel!Show, Panel!ServeEnable, Panel!ServeDisable, Panel!SessionAbandoned,
     Panel!Restart, Panel!page
<1>4. \/ UNCHANGED stickLoopActive /\ (Panel!Armed' => Panel!Armed)
      \/ stickLoopActive' = FALSE /\ ~Panel!Armed'
  BY DEF Panel!GamepadConnects, Panel!GamepadGoes, Panel!GraceEnds, Panel!Confirm, Panel!Stop,
     Panel!Hide, Panel!Show, Panel!ServeEnable, Panel!ServeDisable, Panel!SessionAbandoned,
     Panel!Restart, Panel!page, Panel!StopControl, Panel!Resting, Panel!Armed
<1> QED
  BY <1>1, <1>2, <1>3, <1>4 DEF PanelInv, ActiveIsFed, Panel!ArmedHasLoop, Panel!Feeding

-----------------------------------------------------------------------------
(* Steps of the loops, and the one that starts them. *)

\* A confirmed panel is armed, and the loop it finds running or starts feeds it.
LEMMA ConfirmKeeps ==
    ASSUME PanelInv, Panel!ConfirmAnswered
    PROVE  PanelInv'
<1>1. Panel!TypeOK /\ ActiveIsFed /\ Panel!ArmedHasLoop
  BY DEF PanelInv
<1>2. CASE UNCHANGED <<controlState, stickLoopActive, pageLoop>>
  BY <1>1, <1>2 DEF PanelInv, ActiveIsFed, Panel!ArmedHasLoop, Panel!Armed, Panel!Feeding,
     Panel!TypeOK, Panel!ConfirmAnswered
<1>3. CASE controlState' = "armed" /\ Panel!Schedule
  <2>1. stickLoopActive' = TRUE /\ pageLoop' \in [PageLoops -> Steps]
        /\ \E l \in PageLoops : pageLoop'[l] \in Panel!Feeding
    <3>1. CASE stickLoopActive
      BY <1>1, <1>3, <3>1, PanelFields DEF Panel!Schedule, ActiveIsFed
    <3>2. CASE ~stickLoopActive
      <4>1. PICK l \in PageLoops : pageLoop' = [pageLoop EXCEPT ![l] = "turn"]
        BY <1>3, <3>2 DEF Panel!Schedule
      <4>2. pageLoop' \in [PageLoops -> Steps] /\ pageLoop'[l] = "turn"
        BY <1>1, <4>1, PanelFields DEF Steps
      <4> QED
        BY <1>3, <3>2, <4>2 DEF Panel!Schedule, Panel!Feeding
    <3> QED
      BY <3>1, <3>2
  <2>2. Panel!TypeOK'
    BY <1>1, <1>3, <2>1 DEF Panel!TypeOK, Panel!ConfirmAnswered, Steps
  <2> QED
    BY <2>1, <2>2 DEF PanelInv, ActiveIsFed, Panel!ArmedHasLoop, Panel!Feeding
<1> QED
  BY <1>2, <1>3 DEF Panel!ConfirmAnswered


LEMMA StickLoopTypes ==
    ASSUME Panel!TypeOK, NEW l \in PageLoops,
           \/ Panel!Turn(l) \/ Panel!StickDone(l) \/ Panel!StickFails(l) \/ Panel!StickExpired(l)
           \/ Panel!ShowExpired(l) \/ Panel!ServeStick(l) \/ Panel!ServeExpired(l)
    PROVE  Panel!TypeOK'
<1>1. \E at \in Steps : Panel!Goes(l, at)
  BY DEF Panel!Turn, Panel!StickDone, Panel!StickFails, Panel!StickExpired, Panel!ShowExpired,
     Panel!ServeStick, Panel!ServeExpired, Panel!Returns, Panel!OnlyLoop, Steps
<1>2. pageLoop' \in [PageLoops -> Steps]
  BY <1>1, LoopGoes
<1>3. pageFaults' \in 0..MaxPageFaults
  BY FaultIsCounted, PanelFields DEF Panel!Turn, Panel!StickDone, Panel!StickFails,
     Panel!StickExpired, Panel!ShowExpired, Panel!ServeStick, Panel!ServeExpired, Panel!OnlyLoop,
     Panel!Ended
<1>4. controlState' \in {"disconnected", "connected", "armed"} /\ stickLoopActive' \in BOOLEAN
      /\ session' \in BOOLEAN
  BY DEF Panel!TypeOK, Panel!Turn, Panel!StickDone, Panel!StickFails, Panel!StickExpired,
     Panel!ShowExpired, Panel!ServeStick, Panel!ServeExpired, Panel!OnlyLoop, Panel!Ended,
     Panel!Resting, Panel!Fault
<1>5. UNCHANGED <<gamepad, grace, hidden, confirm, disables>>
  BY DEF Panel!Turn, Panel!StickDone, Panel!StickFails, Panel!StickExpired, Panel!ShowExpired,
     Panel!ServeStick, Panel!ServeExpired, Panel!OnlyLoop
<1> QED
  BY <1>2, <1>3, <1>4, <1>5 DEF Panel!TypeOK, Steps

\* A loop that feeds goes on feeding while the flag is set, and only then.
LEMMA FeedingGoesOn ==
    ASSUME Panel!TypeOK, NEW l \in PageLoops,
           Panel!Turn(l) \/ Panel!StickDone(l) \/ Panel!StickFails(l) \/ Panel!ServeStick(l)
    PROVE  /\ pageLoop[l] \in Panel!Feeding /\ UNCHANGED <<controlState, stickLoopActive>>
           /\ stickLoopActive => pageLoop'[l] \in Panel!Feeding
           /\ \A k \in PageLoops : k # l => pageLoop'[k] = pageLoop[k]
<1>1. pageLoop[l] \in Panel!Feeding /\ UNCHANGED <<controlState, stickLoopActive>>
  BY DEF Panel!Turn, Panel!StickDone, Panel!StickFails, Panel!ServeStick, Panel!OnlyLoop,
     Panel!Feeding
<1>2. PICK at \in Steps : Panel!Goes(l, at) /\ (stickLoopActive => at \in Panel!Feeding)
  BY DEF Panel!Turn, Panel!StickDone, Panel!StickFails, Panel!ServeStick, Panel!Returns,
     Panel!Feeding, Steps
<1> QED
  BY <1>1, <1>2, LoopGoes

LEMMA LoopKeeps ==
    ASSUME PanelInv, NEW l \in PageLoops,
           \/ Panel!Turn(l) \/ Panel!StickDone(l) \/ Panel!StickFails(l) \/ Panel!StickExpired(l)
           \/ Panel!ShowExpired(l) \/ Panel!ServeStick(l) \/ Panel!ServeExpired(l)
    PROVE  PanelInv'
<1>1. Panel!TypeOK /\ ActiveIsFed /\ Panel!ArmedHasLoop
  BY DEF PanelInv
<1>2. Panel!TypeOK'
  BY <1>1, StickLoopTypes
<1>3. SUFFICES ActiveIsFed' /\ Panel!ArmedHasLoop'
  BY <1>2 DEF PanelInv
<1>4. CASE Panel!Turn(l) \/ Panel!StickDone(l) \/ Panel!StickFails(l) \/ Panel!ServeStick(l)
  <2>1. /\ pageLoop[l] \in Panel!Feeding /\ UNCHANGED <<controlState, stickLoopActive>>
        /\ stickLoopActive => pageLoop'[l] \in Panel!Feeding
        /\ \A k \in PageLoops : k # l => pageLoop'[k] = pageLoop[k]
    BY <1>1, <1>4, FeedingGoesOn
  <2>2. ASSUME NEW k \in PageLoops, pageLoop[k] \in {"disable", "disabled"}
        PROVE  pageLoop'[k] \in {"disable", "disabled"}
    BY <2>1, <2>2 DEF Panel!Feeding
  <2> QED
    BY <1>1, <2>1, <2>2 DEF ActiveIsFed, Panel!ArmedHasLoop, Panel!Armed
<1>5. CASE Panel!StickExpired(l)
  <2>1. Panel!Goes(l, "disable") /\ stickLoopActive' = FALSE
    BY <1>5 DEF Panel!StickExpired
  <2>2. pageLoop'[l] = "disable"
    BY <1>1, <2>1, LoopGoes DEF Steps
  <2> QED
    BY <2>1, <2>2 DEF ActiveIsFed, Panel!ArmedHasLoop
<1>6. CASE Panel!ShowExpired(l)
  <2>1. ~Panel!Armed' /\ UNCHANGED stickLoopActive
    BY <1>6 DEF Panel!ShowExpired, Panel!Resting, Panel!Armed
  <2>2. stickLoopActive => pageLoop'[l] \in Panel!Feeding
    BY <1>1, <1>6, LoopGoes DEF Panel!ShowExpired, Panel!Returns, Steps, Panel!Feeding
  <2> QED
    BY <2>1, <2>2 DEF ActiveIsFed, Panel!ArmedHasLoop
<1>7. CASE Panel!ServeExpired(l)
  <2>1. pageLoop[l] = "disable" /\ Panel!Goes(l, "disabled")
        /\ UNCHANGED <<controlState, stickLoopActive>>
    BY <1>7 DEF Panel!ServeExpired
  <2>2. pageLoop'[l] = "disabled" /\ \A k \in PageLoops : k # l => pageLoop'[k] = pageLoop[k]
    BY <1>1, <2>1, LoopGoes DEF Steps
  <2>3. \A k \in PageLoops : pageLoop[k] \in Panel!Feeding => pageLoop'[k] \in Panel!Feeding
    BY <2>1, <2>2 DEF Panel!Feeding
  <2> QED
    BY <1>1, <2>1, <2>2, <2>3 DEF ActiveIsFed, Panel!ArmedHasLoop, Panel!Armed
<1> QED
  BY <1>4, <1>5, <1>6, <1>7

LEMMA PanelInvInit ==
    ASSUME Panel!Init
    PROVE  PanelInv
BY PanelTypeInit DEF Panel!Init, PanelInv, ActiveIsFed, Panel!ArmedHasLoop, Panel!Armed

LEMMA PanelInvStep ==
    ASSUME PanelInv, [Panel!Next]_panel
    PROVE  PanelInv'
<1>1. CASE UNCHANGED panel
  BY <1>1 DEF panel, PanelInv, Panel!TypeOK, ActiveIsFed, Panel!ArmedHasLoop, Panel!Armed
<1>2. CASE Panel!Next
  BY <1>2, PadKeeps, ConfirmKeeps, LoopKeeps DEF Panel!Next
<1> QED
  BY <1>1, <1>2

\* The panel is of its types, for any number of loops, disables and faults.
THEOREM PanelTypeCorrect == PartsSpec => []Panel!TypeOK
<1>1. PartsInit => PanelInv
  BY PanelInvInit DEF PartsInit
<1>2. PanelInv /\ [PartsNext]_<<vars, rc, panel, part>> => PanelInv'
  BY PanelInvStep, PanelOrNot
<1>3. PanelInv => Panel!TypeOK
  BY DEF PanelInv
<1> QED
  BY <1>1, <1>2, <1>3, PTL DEF PartsSpec

\* A panel that shows control as running has a loop that feeds the session and is to go on,
\* or one that was refused and is about to show it, however presses of the button, the
\* gamepad's grace, hidden pages, refusals and late answers interleave (stopControl,
\* confirmControl, scheduleStickLoop, sendStick of _control_panel.html).
THEOREM PanelHasLoop == PartsSpec => []Panel!ArmedHasLoop
<1>1. PartsInit => PanelInv
  BY PanelInvInit DEF PartsInit
<1>2. PanelInv /\ [PartsNext]_<<vars, rc, panel, part>> => PanelInv'
  BY PanelInvStep, PanelOrNot
<1>3. PanelInv => Panel!ArmedHasLoop
  BY DEF PanelInv
<1> QED
  BY <1>1, <1>2, <1>3, PTL DEF PartsSpec
=============================================================================
