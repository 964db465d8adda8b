----------------------------- MODULE ServicesProofs ----------------------------
(***************************************************************************)
(* The update of a board, the vision workers and the recordings, for any    *)
(* number of threads, commits, boards, workers and recordings: what is      *)
(* cached is whole, what the status file says is true, and nothing runs out *)
(* of reach of its stop.  The specification is the one the run checks,      *)
(* MC_Services.                                                             *)
(***************************************************************************)
EXTENDS MC_Services, FiniteSetTheorems, TLAPS

allVars == <<vars, vision, records, unitsPart, part>>

LEMMA UpdateOrNot ==
    ASSUME [PartsNext]_allVars
    PROVE  [Next]_vars
BY DEF PartsNext, allVars

LEMMA VisionOrNot ==
    ASSUME [PartsNext]_allVars
    PROVE  [Vis!Next]_vision
BY DEF PartsNext, allVars

LEMMA RecorderOrNot ==
    ASSUME [PartsNext]_allVars
    PROVE  [Rec!Next]_records
BY DEF PartsNext, allVars

-----------------------------------------------------------------------------
(* The update: types.                                                        *)

File == [is : Content, by : Threads \cup {None}]
PushStates == {"idle", "check", "open", "write", "rename", "hash", "post", "sudo"}
Places == {"tmp", "final", "gone"}
PushRow == [pc : PushStates, ref : Versions \cup {None}, sha : Content, to : Places]
UnitStates == {"none", "begin", "download", "verify", "tar", "stop", "env", "modules", "code",
               "restart", "end"}
UnitRow == [pc : UnitStates, ref : Versions \cup {None}, sha : Content, got : Content]
StatusRow == [is : Running \cup Failed \cup {"idle", "done"}, ref : Versions \cup {None}]
ManagerRow == [is : {"down", "starting", "up"}, version : Versions, registered : BOOLEAN]

UpdateTypes ==
    /\ main \in Versions /\ env \in Versions /\ code \in Versions
    /\ tmp \in [Versions -> File] /\ final \in [Versions -> File]
    /\ thread \in [Threads -> PushRow]
    /\ manager \in ManagerRow /\ row \in Versions \cup {None}
    /\ status \in StatusRow /\ unit \in UnitRow
    /\ cut \in BOOLEAN /\ shared \in BOOLEAN

\* A push and a script that are under way are about a commit.
RefsKnown ==
    /\ \A t \in Threads : thread[t].pc # "idle" => thread[t].ref \in Versions
    /\ unit.pc # "none" => unit.ref \in Versions

UpdateInv == UpdateTypes /\ RefsKnown

LEMMA UpdateFields ==
    TypeOK <=> UpdateTypes /\ pushes \in 0..MaxPushes /\ faults \in 0..MaxFaults
BY DEF TypeOK, UpdateTypes, File, PushRow, PushStates, Places, UnitRow, UnitStates, StatusRow,
       ManagerRow

LEMMA FirstVersion == 1 \in Versions
BY BoardUpdateAssumption DEF Versions

ThreadsFit(new) ==
    /\ new \in [Threads -> PushRow]
    /\ \A t \in Threads : new[t].pc # "idle" => new[t].ref \in Versions

LEMMA IdleFits == Idle \in PushRow /\ Idle.pc = "idle" /\ NoUnit \in UnitRow /\ NoUnit.pc = "none"
BY DEF Idle, PushRow, PushStates, Places, Content, NoUnit, UnitRow, UnitStates

LEMMA GotoFits ==
    ASSUME UpdateInv, NEW t \in Threads, NEW pc \in PushStates, thread[t].pc # "idle", Goto(t, pc)
    PROVE  ThreadsFit(thread')
BY DEF UpdateInv, UpdateTypes, RefsKnown, ThreadsFit, Goto, PushRow

LEMMA ChangeFits ==
    ASSUME UpdateInv, NEW t \in Threads, NEW r \in PushRow, r.pc # "idle" => r.ref \in Versions,
           thread' = [thread EXCEPT ![t] = r]
    PROVE  ThreadsFit(thread')
BY DEF UpdateInv, UpdateTypes, RefsKnown, ThreadsFit

LEMMA MovedFits ==
    ASSUME UpdateInv, NEW r, NEW where \in {"final", "gone"}
    PROVE  /\ ThreadsFit(Moved(r, where))
           /\ \A u \in Threads : Moved(r, where)[u].pc = thread[u].pc
           /\ \A u \in Threads : Moved(r, where)[u].ref = thread[u].ref
           /\ \A u \in Threads : thread[u].ref # r \/ thread[u].pc # "write"
                                    => Moved(r, where)[u] = thread[u]
<1>1. ASSUME NEW u \in Threads
      PROVE  /\ Moved(r, where)[u] \in PushRow
             /\ Moved(r, where)[u].pc = thread[u].pc /\ Moved(r, where)[u].ref = thread[u].ref
             /\ thread[u].ref # r \/ thread[u].pc # "write" => Moved(r, where)[u] = thread[u]
  <2>1. thread[u] \in PushRow
    BY DEF UpdateInv, UpdateTypes
  <2>2. CASE thread[u].ref # r \/ thread[u].pc # "write"
    BY <2>1, <2>2 DEF Moved
  <2>3. CASE ~(thread[u].ref # r \/ thread[u].pc # "write")
    <3>1. PICK p \in Places : Moved(r, where)[u] = [thread[u] EXCEPT !.to = p]
      <4>1. CASE thread[u].to = "tmp"
        BY <2>3, <4>1 DEF Moved, Places
      <4>2. CASE thread[u].to = "final" /\ where = "final"
        BY <2>3, <4>2 DEF Moved, Places
      <4>3. CASE thread[u].to # "tmp" /\ ~(thread[u].to = "final" /\ where = "final")
        BY <2>1, <2>3, <4>3 DEF Moved, Places, PushRow
      <4> QED
        BY <4>1, <4>2, <4>3
    <3> QED
      BY <2>1, <2>3, <3>1 DEF PushRow
  <2> QED
    BY <2>2, <2>3
<1>2. Moved(r, where) = [u \in Threads |-> Moved(r, where)[u]]
  BY DEF Moved
<1>3. Moved(r, where) \in [Threads -> PushRow]
  BY <1>1, <1>2
<1> QED
  BY <1>1, <1>3 DEF ThreadsFit, UpdateInv, RefsKnown

LEMMA PushTypes ==
    ASSUME UpdateInv, NEW t \in Threads, Push(t) \/ PushStep(t) \/ BuildFails(t)
    PROVE  ThreadsFit(thread')
<1> DEFINE r == thread[t].ref
<1>1. thread[t] \in PushRow /\ (thread[t].pc # "idle" => r \in Versions)
  BY DEF UpdateInv, UpdateTypes, RefsKnown
<1>2. CASE Push(t)
  <2>1. PICK v \in Versions : thread' = [thread EXCEPT ![t].pc = "check", ![t].ref = v]
    BY <1>2, FirstVersion DEF Push, UpdateInv, UpdateTypes
  <2>2. thread' = [thread EXCEPT ![t] = [thread[t] EXCEPT !.pc = "check", !.ref = v]]
    BY <2>1 DEF UpdateInv, UpdateTypes
  <2>3. [thread[t] EXCEPT !.pc = "check", !.ref = v] \in PushRow
    BY <1>1 DEF PushRow, PushStates
  <2>4. [thread[t] EXCEPT !.pc = "check", !.ref = v].ref = v
    BY <1>1 DEF PushRow
  <2> QED
    BY <2>2, <2>3, <2>4, ChangeFits
<1>3. CASE Check(t)
  BY <1>3, GotoFits DEF Check, PushStates
<1>4. CASE Open(t)
  <2>1. thread' = [thread EXCEPT ![t] = [thread[t] EXCEPT !.pc = "write", !.to = "tmp"]]
    BY <1>4 DEF Open, UpdateInv, UpdateTypes
  <2>2. [thread[t] EXCEPT !.pc = "write", !.to = "tmp"] \in PushRow
    BY <1>1 DEF PushRow, PushStates, Places
  <2>3. [thread[t] EXCEPT !.pc = "write", !.to = "tmp"].ref \in Versions
    BY <1>1, <1>4 DEF PushRow, Open
  <2> QED
    BY <2>1, <2>2, <2>3, ChangeFits
<1>5. CASE Write(t)
  BY <1>5, GotoFits DEF Write, PushStates
<1>6. CASE Rename(t)
  <2>1. CASE thread' = [thread EXCEPT ![t] = Idle]
    BY <2>1, IdleFits, ChangeFits
  <2>2. CASE thread' = [Moved(r, "final") EXCEPT ![t].pc = "hash"]
    BY <1>1, <1>6, <2>2, MovedFits DEF ThreadsFit, PushRow, PushStates, Rename
  <2> QED
    BY <1>6, <2>1, <2>2 DEF Rename
<1>7. CASE Hash(t)
  <2>1. thread' = [thread EXCEPT ![t] = [thread[t] EXCEPT !.pc = "post", !.sha = final[r].is]]
    BY <1>7 DEF Hash, UpdateInv, UpdateTypes
  <2>2. final[r].is \in Content
    BY <1>1, <1>7 DEF Hash, UpdateInv, UpdateTypes, File
  <2>3. [thread[t] EXCEPT !.pc = "post", !.sha = final[r].is] \in PushRow
    BY <1>1, <2>2 DEF PushRow, PushStates
  <2>4. [thread[t] EXCEPT !.pc = "post", !.sha = final[r].is].ref \in Versions
    BY <1>1, <1>7 DEF PushRow, Hash
  <2> QED
    BY <2>1, <2>3, <2>4, ChangeFits
<1>8. CASE Post(t)
  <2>1. thread[t].pc # "idle" /\ (Goto(t, "sudo") \/ thread' = [thread EXCEPT ![t] = Idle])
    BY <1>8 DEF Post, Goto
  <2> QED
    BY <2>1, GotoFits, IdleFits, ChangeFits DEF PushStates
<1>9. CASE Sudo(t)
  <2>1. thread[t].pc # "idle" /\ (Goto(t, "post") \/ thread' = [thread EXCEPT ![t] = Idle])
    BY <1>9 DEF Sudo
  <2> QED
    BY <2>1, GotoFits, IdleFits, ChangeFits DEF PushStates
<1>10. CASE BuildFails(t)
  BY <1>10, MovedFits, IdleFits DEF BuildFails, ThreadsFit
<1> QED
  BY <1>2, <1>3, <1>4, <1>5, <1>6, <1>7, <1>8, <1>9, <1>10 DEF PushStep

\* Who ends every push, or those the manager serves.
LEMMA EndedFits ==
    ASSUME UpdateInv, StopManager \/ Reboot \/ ServerRestart
    PROVE  ThreadsFit(thread')
<1>1. ASSUME NEW t \in Threads
      PROVE  thread'[t] \in {Idle, thread[t]}
  BY DEF StopManager, Reboot, ServerRestart
<1>2. thread' = [t \in Threads |-> thread'[t]]
  BY DEF StopManager, Reboot, ServerRestart
<1> QED
  BY <1>1, <1>2, IdleFits DEF ThreadsFit, UpdateInv, UpdateTypes, RefsKnown

LEMMA FileTypes ==
    ASSUME UpdateInv, [Next]_vars
    PROVE  tmp' \in [Versions -> File] /\ final' \in [Versions -> File]
<1> USE DEF UpdateInv, UpdateTypes
<1>1. NoFile \in File
  BY DEF NoFile, File, Content
<1>2. ASSUME NEW f \in File, NEW t \in Threads
      PROVE  /\ Written(f, t) \in File /\ Left(f, t) \in File /\ [f EXCEPT !.by = None] \in File
             /\ [is |-> "broken", by |-> t] \in File
  BY DEF Written, Left, File, Content
<1>3. CASE ServerRestart
  <2>1. ASSUME NEW f \in File
        PROVE  [f EXCEPT !.by = None] \in File
    BY DEF File
  <2> QED
    BY <1>3, <2>1 DEF ServerRestart
<1>4. ASSUME NEW t \in Threads, Open(t)
      PROVE  tmp' \in [Versions -> File] /\ final' \in [Versions -> File]
  BY <1>2, <1>4 DEF Open, server
<1>5. ASSUME NEW t \in Threads, Write(t)
      PROVE  tmp' \in [Versions -> File] /\ final' \in [Versions -> File]
  BY <1>2, <1>5 DEF Write
<1>6. ASSUME NEW t \in Threads, Rename(t)
      PROVE  tmp' \in [Versions -> File] /\ final' \in [Versions -> File]
  BY <1>1, <1>6 DEF Rename, RefsKnown
<1>7. ASSUME NEW t \in Threads, BuildFails(t)
      PROVE  tmp' \in [Versions -> File] /\ final' \in [Versions -> File]
  BY <1>1, <1>2, <1>7 DEF BuildFails
<1>8. CASE \/ Merge \/ Reboot \/ DeleteRow \/ InstallFails \/ ScriptStep \/ Start \/ Heartbeat
           \/ UNCHANGED vars
           \/ \E t \in Threads : Push(t) \/ Check(t) \/ Hash(t) \/ Post(t) \/ Sudo(t)
  <2>1. tmp' = tmp /\ final' = final
    BY <1>8 DEF Merge, Reboot, DeleteRow, InstallFails, ScriptStep, Start, Heartbeat, vars, server,
                Push, Check, Hash, Post, Sudo, Begin, Download, Verify, Tar, StopManager, WriteEnv,
                InstallModules, InstallManager, RestartManager, Done
  <2> QED
    BY <2>1
<1> QED
  BY <1>3, <1>4, <1>5, <1>6, <1>7, <1>8 DEF Next, PushStep

\* The script: the unit, the status file and what it installs.
LEMMA ScriptTypes ==
    ASSUME UpdateInv, ScriptStep \/ InstallFails
    PROVE  /\ unit' \in UnitRow /\ status' \in StatusRow
           /\ (unit'.pc # "none" => unit'.ref \in Versions)
           /\ env' \in Versions /\ code' \in Versions /\ manager' \in ManagerRow
           /\ main' = main /\ row' = row /\ shared' = shared
           /\ cut' \in BOOLEAN
<1> USE DEF UpdateInv, UpdateTypes, RefsKnown
<1>1. ASSUME NEW pc \in UnitStates, unit' = [unit EXCEPT !.pc = pc], unit.pc # "none"
      PROVE  unit' \in UnitRow /\ unit'.ref \in Versions
  BY <1>1 DEF UnitRow
<1>2. ASSUME NEW s \in Running \cup Failed \cup {"idle", "done"}, Says(s)
      PROVE  status' \in StatusRow
  BY <1>2 DEF Says, StatusRow, UnitRow
<1>3. ASSUME Ends
      PROVE  unit' \in UnitRow /\ unit'.pc = "none"
  BY <1>3, IdleFits DEF Ends
<1>4. CASE Begin
  <2>1. CASE Script("begin", "download") /\ Says("downloading")
    BY <1>1, <1>2, <1>4, <2>1 DEF Begin, Script, UnitStates, Running, server
  <2>2. CASE Says("failed_no_env") /\ Ends
    BY <1>2, <1>3, <1>4, <2>2 DEF Begin, Failed, server
  <2> QED
    BY <1>4, <2>1, <2>2 DEF Begin
<1>5. CASE Download
  <2>1. CASE Says("failed_download") /\ Ends
    BY <1>2, <1>3, <1>5, <2>1 DEF Download, Failed, server
  <2>2. CASE /\ unit' = [unit EXCEPT !.pc = "verify", !.got = final[unit.ref].is]
             /\ UNCHANGED status
    <3>1. unit.ref \in Versions
      BY <1>5 DEF Download
    <3>2. final[unit.ref].is \in Content
      BY <3>1 DEF File
    <3>3. unit' \in UnitRow /\ unit'.ref \in Versions
      BY <2>2, <3>1, <3>2 DEF UnitRow, UnitStates
    <3> QED
      BY <1>5, <2>2, <3>3 DEF Download, server
  <2> QED
    BY <1>5, <2>1, <2>2 DEF Download
<1>6. CASE Verify
  <2>1. unit.pc = "verify"
    BY <1>6 DEF Verify
  <2>2. CASE Says("installing") /\ unit' = [unit EXCEPT !.pc = "tar"]
    BY <1>1, <1>2, <1>6, <2>1, <2>2 DEF Verify, Running, UnitStates, server
  <2>3. CASE Says("failed_checksum") /\ Ends
    BY <1>2, <1>3, <1>6, <2>3 DEF Verify, Failed, server
  <2> QED
    BY <1>6, <2>2, <2>3 DEF Verify
<1>7. CASE Tar
  BY <1>1, <1>3, <1>7 DEF Tar, UnitStates, server
<1>8. CASE StopManager
  BY <1>1, <1>8 DEF StopManager, Script, UnitStates, ManagerRow, server
<1>9. CASE WriteEnv
  BY <1>1, <1>9 DEF WriteEnv, Script, UnitStates, server
<1>10. CASE InstallModules
  BY <1>1, <1>10 DEF InstallModules, Script, UnitStates, server
<1>11. CASE InstallManager
  BY <1>1, <1>11 DEF InstallManager, Script, UnitStates, server
<1>12. CASE RestartManager
  <2>1. unit' \in UnitRow /\ unit'.ref \in Versions
    BY <1>1, <1>12 DEF RestartManager, Script, UnitStates
  <2>2. manager' \in ManagerRow
    <3>1. [is |-> "starting", version |-> env, registered |-> FALSE] \in ManagerRow
      BY DEF ManagerRow
    <3>2. \/ manager' = [is |-> "starting", version |-> env, registered |-> FALSE]
          \/ manager' = manager
      BY <1>12 DEF RestartManager
    <3>3. manager \in ManagerRow
      OBVIOUS
    <3> QED
      BY ONLY <3>1, <3>2, <3>3
  <2>3. UNCHANGED <<server, row, status, env, code, cut>>
    BY <1>12 DEF RestartManager
  <2> QED
    BY <2>1, <2>2, <2>3 DEF server
<1>13. CASE Done
  BY <1>2, <1>3, <1>13 DEF Done, server
<1>14. CASE InstallFails
  BY <1>2, <1>3, <1>14 DEF InstallFails, Failed, server
<1> QED
  BY <1>4, <1>5, <1>6, <1>7, <1>8, <1>9, <1>10, <1>11, <1>12, <1>13, <1>14 DEF ScriptStep

LEMMA BoardTypes ==
    ASSUME UpdateInv, Merge \/ Reboot \/ DeleteRow \/ Start \/ Heartbeat \/ ServerRestart
    PROVE  /\ unit' \in UnitRow /\ status' \in StatusRow
           /\ (unit'.pc # "none" => unit'.ref \in Versions)
           /\ env' \in Versions /\ code' \in Versions /\ manager' \in ManagerRow
           /\ main' \in Versions /\ row' \in Versions \cup {None} /\ shared' = shared
           /\ cut' \in BOOLEAN
<1> USE DEF UpdateInv, UpdateTypes, RefsKnown
<1>1. CASE Merge \/ ServerRestart \/ DeleteRow
  BY <1>1 DEF Merge, ServerRestart, DeleteRow, board, server
<1>2. CASE Reboot
  <2>1. manager' \in ManagerRow /\ unit' \in UnitRow /\ unit'.pc = "none"
    BY <1>2, IdleFits DEF Reboot, ManagerRow
  <2>2. status' \in StatusRow
    BY <1>2 DEF Reboot, StatusRow
  <2>3. cut' \in BOOLEAN
    BY <1>2 DEF Reboot
  <2>4. UNCHANGED <<server, row, env, code>>
    BY <1>2 DEF Reboot
  <2> QED
    BY <2>1, <2>2, <2>3, <2>4 DEF server
<1>3. CASE Start \/ Heartbeat
  <2>1. manager' \in ManagerRow
    BY <1>3 DEF Start, Heartbeat, Registers, ManagerRow
  <2>2. row' \in Versions \cup {None}
    BY <1>3 DEF Start, Heartbeat, Registers, ManagerRow
  <2> QED
    BY <1>3, <2>1, <2>2 DEF Start, Heartbeat, board, server
<1> QED
  BY <1>1, <1>2, <1>3

LEMMA ServerTypes ==
    ASSUME UpdateInv, NEW t \in Threads, Push(t) \/ PushStep(t) \/ BuildFails(t)
    PROVE  /\ unit' \in UnitRow /\ (unit'.pc # "none" => unit'.ref \in Versions)
           /\ UNCHANGED <<status, env, code, manager, main, row, cut>>
           /\ shared' \in BOOLEAN
<1> USE DEF UpdateInv, UpdateTypes, RefsKnown
<1>1. CASE Sudo(t)
  <2>1. thread[t].ref \in Versions /\ thread[t].sha \in Content
    BY <1>1 DEF Sudo, PushRow
  <2>2. unit' \in UnitRow /\ (unit'.pc # "none" => unit'.ref \in Versions)
    BY <1>1, <2>1 DEF Sudo, UnitRow, UnitStates, Content
  <2> QED
    BY <1>1, <2>2 DEF Sudo, server
<1>2. CASE \/ Push(t) \/ Check(t) \/ Open(t) \/ Write(t) \/ Rename(t) \/ Hash(t) \/ Post(t)
           \/ BuildFails(t)
  BY <1>2 DEF Push, Check, Open, Write, Rename, Hash, Post, BuildFails, server, board
<1> QED
  BY <1>1, <1>2 DEF PushStep

LEMMA UpdateInvStep ==
    ASSUME UpdateInv, [Next]_vars
    PROVE  UpdateInv'
<1>1. tmp' \in [Versions -> File] /\ final' \in [Versions -> File]
  BY FileTypes
<1>2. ThreadsFit(thread')
  <2>1. CASE \E t \in Threads : Push(t) \/ PushStep(t) \/ BuildFails(t)
    BY <2>1, PushTypes
  <2>2. CASE StopManager \/ Reboot \/ ServerRestart
    BY <2>2, EndedFits
  <2>3. CASE \/ Merge \/ DeleteRow \/ InstallFails \/ Start \/ Heartbeat \/ UNCHANGED vars
             \/ Begin \/ Download \/ Verify \/ Tar \/ WriteEnv \/ InstallModules
             \/ InstallManager \/ RestartManager \/ Done
    <3>1. thread' = thread
      BY <2>3 DEF Merge, DeleteRow, InstallFails, Start, Heartbeat, vars, Begin, Download, Verify,
                  Tar, WriteEnv, InstallModules, InstallManager, RestartManager, Done
    <3> QED
      BY <3>1 DEF ThreadsFit, UpdateInv, UpdateTypes, RefsKnown
  <2> QED
    BY <2>1, <2>2, <2>3 DEF Next, ScriptStep
<1>3. CASE UNCHANGED vars
  BY <1>3 DEF UpdateInv, UpdateTypes, RefsKnown, vars, server, board
<1>4. CASE ScriptStep \/ InstallFails
  BY <1>1, <1>2, <1>4, ScriptTypes DEF UpdateInv, UpdateTypes, RefsKnown, ThreadsFit
<1>5. CASE Merge \/ Reboot \/ DeleteRow \/ Start \/ Heartbeat \/ ServerRestart
  BY <1>1, <1>2, <1>5, BoardTypes DEF UpdateInv, UpdateTypes, RefsKnown, ThreadsFit
<1>6. CASE \E t \in Threads : Push(t) \/ PushStep(t) \/ BuildFails(t)
  BY <1>1, <1>2, <1>6, ServerTypes DEF UpdateInv, UpdateTypes, RefsKnown, ThreadsFit
<1> QED
  BY <1>3, <1>4, <1>5, <1>6 DEF Next

LEMMA UpdateInvInit ==
    ASSUME Init
    PROVE  UpdateInv
<1>1. NoFile \in File
  BY DEF NoFile, File, Content
<1> QED
  BY <1>1, FirstVersion, IdleFits
  DEF Init, UpdateInv, UpdateTypes, RefsKnown, ManagerRow, StatusRow

LEMMA UpdateBudgets ==
    ASSUME TypeOK, [Next]_vars
    PROVE  pushes' \in 0..MaxPushes /\ faults' \in 0..MaxFaults
<1> USE DEF Next, Merge, ServerRestart, Reboot, DeleteRow, InstallFails, Push, PushStep, BuildFails,
        Check, Open, Write, Rename, Hash, Post, Sudo, ScriptStep, Begin, Download, Verify, Tar,
        StopManager, WriteEnv, InstallModules, InstallManager, RestartManager, Done, Start,
        Heartbeat, vars
<1>1. pushes' = pushes \/ (pushes < MaxPushes /\ pushes' = pushes + 1)
  OBVIOUS
<1>2. faults' = faults \/ Fault
  OBVIOUS
<1>3. /\ MaxPushes \in Nat /\ MaxFaults \in Nat
      /\ pushes \in 0..MaxPushes /\ faults \in 0..MaxFaults
  BY BoardUpdateAssumption DEF TypeOK
<1>4. pushes' \in 0..MaxPushes
  BY ONLY <1>1, <1>3
<1>5. faults' \in 0..MaxFaults
  BY ONLY <1>2, <1>3 DEF Fault
<1> QED
  BY <1>4, <1>5

\* The server's cache and threads, and the board's unit, files and manager keep their types.
THEOREM UpdateTypeCorrect == PartsSpec => []TypeOK
<1>1. PartsInit => TypeOK /\ UpdateInv
  <2>1. Init => pushes \in 0..MaxPushes /\ faults \in 0..MaxFaults
    BY BoardUpdateAssumption DEF Init
  <2> QED
    BY <2>1, UpdateInvInit, UpdateFields DEF PartsInit, UpdateInv
<1>2. TypeOK /\ UpdateInv /\ [PartsNext]_allVars => (TypeOK /\ UpdateInv)'
  <2> SUFFICES ASSUME TypeOK, UpdateInv, [PartsNext]_allVars
               PROVE  TypeOK' /\ UpdateInv'
    OBVIOUS
  <2>1. [Next]_vars
    BY UpdateOrNot
  <2>2. UpdateInv'
    BY <2>1, UpdateInvStep
  <2>3. pushes' \in 0..MaxPushes /\ faults' \in 0..MaxFaults
    BY <2>1, UpdateBudgets
  <2>4. TypeOK'
    BY <2>2, <2>3 DEF UpdateInv, UpdateTypes, TypeOK, File, PushRow, PushStates, Places, UnitRow,
                      UnitStates, StatusRow, ManagerRow
  <2> QED
    BY <2>2, <2>4
<1> QED
  BY <1>1, <1>2, PTL DEF PartsSpec, allVars

-----------------------------------------------------------------------------
(* The update: a package that stays in the cache is whole.                   *)

Building(t) == thread[t].pc \in {"write", "rename"}

\* While no two threads wrote one file: a builder has its package for itself, its handle
\* leads to the file it has opened, and what it renames is whole.
OneBuilder ==
    \A t, u \in Threads :
        Building(t) /\ Building(u) /\ thread[t].ref = thread[u].ref => t = u
WritesItsFile ==
    \A t \in Threads : thread[t].pc = "write" =>
        thread[t].to = "tmp" /\ tmp[thread[t].ref].by = t
RenamesWhole == \A t \in Threads : thread[t].pc = "rename" => tmp[thread[t].ref].is = "whole"
CacheIsWhole == \A v \in Versions : final[v].is # "broken"

Package == OneBuilder /\ WritesItsFile /\ RenamesWhole /\ CacheIsWhole

\* A step that begins no build and leaves the files alone.
LEMMA SamePackage ==
    ASSUME Package, UNCHANGED <<tmp, final>>,
           \A t \in Threads : thread'[t] = thread[t] \/ thread'[t].pc \notin {"write", "rename"}
    PROVE  Package'
BY DEF Package, OneBuilder, WritesItsFile, RenamesWhole, CacheIsWhole, Building

LEMMA PackageBuild ==
    ASSUME UpdateInv, Package, ~shared', NEW t \in Threads,
           Open(t) \/ Write(t) \/ Rename(t) \/ BuildFails(t)
    PROVE  Package'
<1> DEFINE r == thread[t].ref
<1> USE DEF Building
<1>1. thread \in [Threads -> PushRow] /\ thread[t] \in PushRow
  BY DEF UpdateInv, UpdateTypes
<1>2. r \in Versions /\ tmp \in [Versions -> File] /\ final \in [Versions -> File]
  BY DEF UpdateInv, UpdateTypes, RefsKnown, Open, Write, Rename, BuildFails
<1>3. CASE Open(t)
  <2>1. \A u \in Threads : ~(Building(u) /\ thread[u].ref = r)
    BY <1>3 DEF Open
  <2>2. /\ thread'[t].pc = "write" /\ thread'[t].to = "tmp" /\ thread'[t].ref = r
        /\ \A u \in Threads : u # t => thread'[u] = thread[u]
    BY <1>1, <1>3 DEF Open, PushRow
  <2>3. /\ tmp'[r] = [is |-> "broken", by |-> t] /\ \A v \in Versions : v # r => tmp'[v] = tmp[v]
        /\ final' = final
    BY <1>2, <1>3 DEF Open
  <2>4. \A u \in Threads : Building(u) => thread[u].ref \in Versions
    BY DEF UpdateInv, RefsKnown
  <2>5. OneBuilder'
    BY <2>1, <2>2 DEF Package, OneBuilder
  <2>6. WritesItsFile'
    BY <2>1, <2>2, <2>3, <2>4 DEF Package, WritesItsFile
  <2>7. RenamesWhole'
    BY <2>1, <2>2, <2>3, <2>4 DEF Package, RenamesWhole
  <2> QED
    BY <2>3, <2>5, <2>6, <2>7 DEF Package, CacheIsWhole
<1>4. CASE Write(t)
  <2>1. thread[t].pc = "write" /\ thread[t].to = "tmp" /\ tmp[r].by = t
    BY <1>4 DEF Write, Package, WritesItsFile
  <2>2. /\ thread'[t].pc = "rename" /\ thread'[t].ref = r
        /\ \A u \in Threads : u # t => thread'[u] = thread[u]
    BY <1>1, <1>4 DEF Write, Goto, PushRow
  <2>3. /\ tmp'[r].is = "whole" /\ \A v \in Versions : v # r => tmp'[v] = tmp[v]
        /\ final' = final
    BY <1>2, <1>4, <2>1 DEF Write, Written
  <2>4. \A u \in Threads : Building(u) => thread[u].ref \in Versions
    BY DEF UpdateInv, RefsKnown
  <2>5. \A u \in Threads : u # t /\ Building(u) => thread[u].ref # r
    BY <2>1 DEF Package, OneBuilder
  <2>6. OneBuilder'
    BY <2>1, <2>2, <2>5 DEF Package, OneBuilder
  <2>7. WritesItsFile'
    BY <2>2, <2>3, <2>4, <2>5 DEF Package, WritesItsFile
  <2>8. RenamesWhole'
    BY <2>2, <2>3, <2>4, <2>5 DEF Package, RenamesWhole
  <2> QED
    BY <2>3, <2>6, <2>7, <2>8 DEF Package, CacheIsWhole
\* The handles of the package are this thread's: nobody else's moves.
<1>5. ASSUME Building(t), NEW where \in {"final", "gone"}, NEW x,
             thread' = [Moved(r, where) EXCEPT ![t] = x], x.pc \notin {"write", "rename"},
             tmp' = [tmp EXCEPT ![r] = NoFile], \A v \in Versions : final'[v].is # "broken"
      PROVE  Package'
  <2>1. \A u \in Threads : u # t /\ Building(u) => thread[u].ref # r
    BY <1>5 DEF Package, OneBuilder
  <2>2. /\ Moved(r, where) \in [Threads -> PushRow]
        /\ \A u \in Threads : u # t => Moved(r, where)[u] = thread[u]
    BY <2>1, MovedFits DEF ThreadsFit
  <2>3. thread'[t] = x /\ \A u \in Threads : u # t => thread'[u] = thread[u]
    BY <1>5, <2>2
  <2>4. \A u \in Threads : Building(u) => thread[u].ref \in Versions
    BY DEF UpdateInv, RefsKnown
  <2>5. \A v \in Versions : v # r => tmp'[v] = tmp[v]
    BY <1>2, <1>5
  <2>6. OneBuilder'
    BY <1>5, <2>3 DEF Package, OneBuilder
  <2>7. WritesItsFile'
    BY <1>5, <2>1, <2>3, <2>4, <2>5 DEF Package, WritesItsFile
  <2>8. RenamesWhole'
    BY <1>5, <2>1, <2>3, <2>4, <2>5 DEF Package, RenamesWhole
  <2> QED
    BY <1>5, <2>6, <2>7, <2>8 DEF Package, CacheIsWhole
<1>6. CASE Rename(t)
  <2>1. tmp[r].is = "whole" /\ Building(t)
    BY <1>6 DEF Rename, Package, RenamesWhole
  <2>2. /\ final' = [final EXCEPT ![r] = tmp[r]] /\ tmp' = [tmp EXCEPT ![r] = NoFile]
        /\ thread' = [Moved(r, "final") EXCEPT ![t].pc = "hash"]
    BY <1>6, <2>1 DEF Rename
  <2>3. \A v \in Versions : final'[v].is # "broken"
    BY <1>2, <2>1, <2>2 DEF Package, CacheIsWhole
  <2> DEFINE x == [Moved(r, "final")[t] EXCEPT !.pc = "hash"]
  <2>4. Moved(r, "final") \in [Threads -> PushRow]
    BY MovedFits DEF ThreadsFit
  <2>5. thread' = [Moved(r, "final") EXCEPT ![t] = x] /\ x.pc = "hash"
    BY <2>2, <2>4 DEF PushRow
  <2> HIDE DEF x
  <2> QED
    BY <1>5, <2>1, <2>2, <2>3, <2>5
<1>7. CASE BuildFails(t)
  <2>1. \A v \in Versions : final'[v].is # "broken"
    BY <1>2, <1>7 DEF BuildFails, Left, File, Package, CacheIsWhole
  <2> QED
    BY <1>5, <1>7, <2>1, IdleFits DEF BuildFails
<1> QED
  BY <1>3, <1>4, <1>6, <1>7

\* Two writers of one file are not forgotten.
LEMMA SharedStays ==
    ASSUME UpdateInv, [Next]_vars, shared
    PROVE  shared'
BY DEF UpdateInv, UpdateTypes, Next, Merge, ServerRestart, Reboot, DeleteRow, InstallFails, Push,
       PushStep, BuildFails, Check, Open, Write, Rename, Hash, Post, Sudo, ScriptStep, Begin,
       Download, Verify, Tar,
       StopManager, WriteEnv, InstallModules, InstallManager, RestartManager, Done, Start,
       Heartbeat, vars, server

LEMMA PackageStep ==
    ASSUME UpdateInv, ~shared => Package, [Next]_vars
    PROVE  ~shared' => Package'
<1> SUFFICES ASSUME ~shared'
             PROVE  Package'
  OBVIOUS
<1>1. Package
  BY SharedStays
<1>2. CASE \E t \in Threads : Open(t) \/ Write(t) \/ Rename(t) \/ BuildFails(t)
  BY <1>1, <1>2, PackageBuild
<1>3. CASE ServerRestart
  <2>1. \A t \in Threads : thread'[t] = Idle
    BY <1>3 DEF ServerRestart
  <2>2. \A v \in Versions : final'[v].is # "broken"
    BY <1>1, <1>3 DEF ServerRestart, UpdateInv, UpdateTypes, File, Package, CacheIsWhole
  <2> QED
    BY <2>1, <2>2, IdleFits
    DEF Package, OneBuilder, WritesItsFile, RenamesWhole, CacheIsWhole, Building
<1>4. ASSUME NEW t \in Threads, Push(t) \/ Check(t) \/ Hash(t) \/ Post(t) \/ Sudo(t)
      PROVE  Package'
  <2>1. thread[t] \in PushRow /\ thread \in [Threads -> PushRow]
    BY DEF UpdateInv, UpdateTypes
  <2>2. /\ thread'[t].pc \notin {"write", "rename"}
        /\ \A u \in Threads : u # t => thread'[u] = thread[u]
    BY <1>4, <2>1, IdleFits DEF Push, Check, Hash, Post, Sudo, Goto, PushRow
  <2>3. UNCHANGED <<tmp, final>>
    BY <1>4 DEF Push, Check, Hash, Post, Sudo, server
  <2> QED
    BY <1>1, <2>2, <2>3, SamePackage
<1>5. CASE StopManager \/ Reboot
  <2>1. \A t \in Threads : thread'[t] = Idle \/ thread'[t] = thread[t]
    BY <1>5 DEF StopManager, Reboot
  <2>2. UNCHANGED <<tmp, final>>
    BY <1>5 DEF StopManager, Reboot, server
  <2> QED
    BY <1>1, <2>1, <2>2, IdleFits, SamePackage
<1>6. CASE \/ Merge \/ DeleteRow \/ InstallFails \/ Start \/ Heartbeat \/ UNCHANGED vars
           \/ Begin \/ Download \/ Verify \/ Tar \/ WriteEnv \/ InstallModules
           \/ InstallManager \/ RestartManager \/ Done
  <2>1. UNCHANGED <<thread, tmp, final>>
    BY <1>6 DEF Merge, DeleteRow, InstallFails, Start, Heartbeat, vars, server, Begin, Download,
                Verify, Tar, WriteEnv, InstallModules, InstallManager, RestartManager, Done
  <2> QED
    BY <1>1, <2>1, SamePackage
<1> QED
  BY <1>2, <1>3, <1>4, <1>5, <1>6 DEF Next, PushStep, ScriptStep

\* A package that stays in the cache is whole, however many threads build, fail, are killed
\* and rename, as long as no two of them wrote one file (update_service.py:120).
THEOREM PackagesAreWhole == PartsSpec => []PackageIsWhole
<1>1. PartsInit => UpdateInv /\ (~shared => Package)
  <2> SUFFICES ASSUME Init
               PROVE  UpdateInv /\ Package
    BY DEF PartsInit
  <2>1. /\ \A t \in Threads : thread[t] = Idle
        /\ \A v \in Versions : final[v].is = "none"
    BY DEF Init, NoFile
  <2>2. Package
    BY <2>1, IdleFits DEF Package, OneBuilder, WritesItsFile, RenamesWhole, CacheIsWhole, Building
  <2> QED
    BY <2>2, UpdateInvInit
<1>2. UpdateInv /\ (~shared => Package) /\ [PartsNext]_allVars
          => (UpdateInv /\ (~shared => Package))'
  BY UpdateOrNot, UpdateInvStep, PackageStep
<1>3. (~shared => Package) => PackageIsWhole
  BY DEF Package, CacheIsWhole, PackageIsWhole
<1> QED
  BY <1>1, <1>2, <1>3, PTL DEF PartsSpec, allVars
-----------------------------------------------------------------------------
(* The update: the status file tells the truth.                              *)

\* From the installation of the modules on, the code in place is the script's commit.
CodeIsIts == unit.pc \in {"code", "restart", "end"} => code = unit.ref

StatusInv == StatusIsTrue /\ CodeIsIts

\* A step of the server, or of the manager's row, leaves the script and its files alone.
LEMMA SameStatus ==
    ASSUME StatusInv, UNCHANGED <<status, code, unit>>, cut' = cut
    PROVE  StatusInv'
BY DEF StatusInv, StatusIsTrue, CodeIsIts

\* The script moves from one step to a later one of the same phase.
LEMMA ScriptMoves ==
    ASSUME UpdateInv, StatusInv, UNCHANGED <<status, cut>>, NEW from, NEW to, Script(from, to),
           \/ from = "download" /\ to = "verify"
           \/ from \notin {"none", "begin", "download", "verify"}
              /\ to \notin {"none", "begin", "download", "verify"},
           code' = code, to \in {"code", "restart", "end"} => code = unit.ref
    PROVE  StatusInv'
<1>1. unit.pc = from /\ unit'.pc = to /\ unit'.ref = unit.ref
  BY DEF Script, UpdateInv, UpdateTypes, UnitRow
<1> QED
  BY <1>1 DEF StatusInv, StatusIsTrue, CodeIsIts

\* The script ends with a word that is true of the code.
LEMMA ScriptEnds ==
    ASSUME StatusInv, Ends, NEW s, Says(s), s \notin Running, s = "done" => code = unit.ref,
           code' = code
    PROVE  StatusInv'
<1>1. unit'.pc = "none" /\ status'.is = s /\ status'.ref = unit.ref
  BY IdleFits DEF Ends, Says
<1> QED
  BY <1>1 DEF StatusInv, StatusIsTrue, CodeIsIts

LEMMA StatusStep ==
    ASSUME UpdateInv, StatusInv, [Next]_vars
    PROVE  StatusInv'
<1> USE DEF Running
<1>1. unit \in UnitRow /\ cut \in BOOLEAN
  BY DEF UpdateInv, UpdateTypes
<1>2. CASE \/ Merge \/ ServerRestart \/ DeleteRow \/ Start \/ Heartbeat \/ UNCHANGED vars
           \/ \E t \in Threads : Push(t) \/ Check(t) \/ Open(t) \/ Write(t) \/ Rename(t)
                                    \/ Hash(t) \/ Post(t) \/ BuildFails(t)
  <2>1. UNCHANGED <<status, code, unit, cut>>
    BY <1>2 DEF Merge, ServerRestart, DeleteRow, Start, Heartbeat, vars, Push, Check, Open, Write,
                Rename, Hash, Post, BuildFails, board
  <2> QED
    BY <2>1, SameStatus
\* A new unit begins, and only where none is.
<1>3. ASSUME NEW t \in Threads, Sudo(t)
      PROVE  StatusInv'
  <2>1. UNCHANGED <<status, code, cut>>
    BY <1>3 DEF Sudo
  <2>2. CASE unit' = unit
    BY <2>1, <2>2, SameStatus
  <2>3. CASE unit.pc = "none" /\ unit'.pc = "begin"
    BY <2>1, <2>3 DEF StatusInv, StatusIsTrue, CodeIsIts
  <2> QED
    BY <1>3, <2>2, <2>3 DEF Sudo
<1>4. CASE Begin
  <2>1. CASE Script("begin", "download") /\ Says("downloading")
    <3>1. unit'.pc = "download" /\ unit'.ref = unit.ref
      BY <1>1, <2>1 DEF Script, UnitRow
    <3>2. status' = [is |-> "downloading", ref |-> unit.ref]
      BY <2>1 DEF Says
    <3> QED
      BY <3>1, <3>2 DEF StatusInv, StatusIsTrue, CodeIsIts
  <2>2. CASE Says("failed_no_env") /\ Ends
    BY <1>4, <2>2, ScriptEnds DEF Begin
  <2> QED
    BY <1>4, <2>1, <2>2 DEF Begin
<1>5. CASE Download
  <2>1. CASE unit' = [unit EXCEPT !.pc = "verify", !.got = final[unit.ref].is] /\ UNCHANGED status
    <3>1. unit.pc = "download" /\ unit'.pc = "verify" /\ unit'.ref = unit.ref
      BY <1>1, <1>5, <2>1 DEF Download, UnitRow
    <3>2. UNCHANGED <<status, code, cut>>
      BY <1>5, <2>1 DEF Download
    <3> QED
      BY <3>1, <3>2 DEF StatusInv, StatusIsTrue, CodeIsIts
  <2>2. CASE Says("failed_download") /\ Ends
    BY <1>5, <2>2, ScriptEnds DEF Download
  <2> QED
    BY <1>5, <2>1, <2>2 DEF Download
<1>6. CASE Verify
  <2>1. CASE Says("installing") /\ unit' = [unit EXCEPT !.pc = "tar"]
    <3>1. unit'.pc = "tar" /\ unit'.ref = unit.ref
      BY <1>1, <2>1 DEF UnitRow
    <3>2. status' = [is |-> "installing", ref |-> unit.ref]
      BY <2>1 DEF Says
    <3> QED
      BY <3>1, <3>2 DEF StatusInv, StatusIsTrue, CodeIsIts
  <2>2. CASE Says("failed_checksum") /\ Ends
    BY <1>6, <2>2, ScriptEnds DEF Verify
  <2> QED
    BY <1>6, <2>1, <2>2 DEF Verify
\* The one end without a last word: the script was cut off.
<1>7. CASE Tar
  <2>1. CASE unit' = [unit EXCEPT !.pc = "stop"] /\ UNCHANGED cut
    <3>1. Script("tar", "stop") /\ UNCHANGED <<status, code, cut>>
      BY <1>7, <2>1 DEF Tar, Script
    <3> QED
      BY <3>1, ScriptMoves
  <2>2. CASE Ends /\ cut' = TRUE
    <3>1. unit'.pc = "none" /\ UNCHANGED <<status, code>>
      BY <1>7, <2>2, IdleFits DEF Tar, Ends
    <3> QED
      BY <2>2, <3>1 DEF StatusInv, StatusIsTrue, CodeIsIts
  <2> QED
    BY <1>7, <2>1, <2>2 DEF Tar
<1>8. CASE StopManager
  BY <1>8, ScriptMoves DEF StopManager
<1>9. CASE WriteEnv
  BY <1>9, ScriptMoves DEF WriteEnv
<1>10. CASE InstallModules
  <2>1. unit.pc = "modules" /\ unit'.pc = "code" /\ unit'.ref = unit.ref /\ code' = unit.ref
    BY <1>1, <1>10 DEF InstallModules, Script, UnitRow
  <2>2. UNCHANGED <<status, cut>>
    BY <1>10 DEF InstallModules
  <2> QED
    BY <2>1, <2>2 DEF StatusInv, StatusIsTrue, CodeIsIts
<1>11. CASE InstallManager
  <2>1. unit.pc = "code"
    BY <1>11 DEF InstallManager, Script
  <2> QED
    BY <1>11, <2>1, ScriptMoves DEF InstallManager, StatusInv, CodeIsIts
<1>12. CASE RestartManager
  <2>1. unit.pc = "restart"
    BY <1>12 DEF RestartManager, Script
  <2> QED
    BY <1>12, <2>1, ScriptMoves DEF RestartManager, StatusInv, CodeIsIts
<1>13. CASE Done
  BY <1>13, ScriptEnds DEF Done, StatusInv, CodeIsIts
<1>14. CASE InstallFails
  BY <1>14, ScriptEnds DEF InstallFails
<1>15. CASE Reboot
  <2>1. unit'.pc = "none" /\ code' = code
    BY <1>15, IdleFits DEF Reboot
  <2>2. CASE status' = [is |-> "idle", ref |-> None]
    BY <2>1, <2>2 DEF StatusInv, StatusIsTrue, CodeIsIts
  <2>3. CASE UNCHANGED status /\ cut' = (cut \/ status.is \in Running)
    BY <2>1, <2>3 DEF StatusInv, StatusIsTrue, CodeIsIts
  <2> QED
    BY <1>15, <2>2, <2>3 DEF Reboot
<1> QED
  BY <1>2, <1>3, <1>4, <1>5, <1>6, <1>7, <1>8, <1>9, <1>10, <1>11, <1>12, <1>13, <1>14, <1>15
  DEF Next, PushStep, ScriptStep

\* The status file says that an update runs only while its script does, unless the script was
\* cut off, and "done" only with that commit's code in place (apply_update.sh:73).
THEOREM StatusTellsTheTruth == PartsSpec => []StatusIsTrue
<1>1. PartsInit => UpdateInv /\ StatusInv
  <2> SUFFICES ASSUME Init
               PROVE  UpdateInv /\ StatusInv
    BY DEF PartsInit
  <2>1. status.is = "idle" /\ unit.pc = "none"
    BY IdleFits DEF Init
  <2> QED
    BY <2>1, UpdateInvInit DEF StatusInv, StatusIsTrue, CodeIsIts, Running
<1>2. UpdateInv /\ StatusInv /\ [PartsNext]_allVars => (UpdateInv /\ StatusInv)'
  BY UpdateOrNot, UpdateInvStep, StatusStep
<1>3. StatusInv => StatusIsTrue
  BY DEF StatusInv
<1> QED
  BY <1>1, <1>2, <1>3, PTL DEF PartsSpec, allVars
-----------------------------------------------------------------------------
(* Vision: every worker that runs can be stopped.                            *)

WorkerStates == {"none", "load", "look", "open", "rest", "grab", "post", "dead"}
WorkerRow == [at : WorkerStates, capability : Capabilities \cup {None}, stopped : BOOLEAN,
              open : BOOLEAN]
FlaskRow == [at : {"idle", "switch", "pop"}, worker : Vis!Workers \cup {None},
             capability : Capabilities \cup {None}]

\* What was started, or is about to be, was asked for.
AskedFor ==
    /\ \A w \in Vis!Workers : worker[w].at # "none" => worker[w].capability \in Capabilities
    /\ \A r \in Requests : request[r].at = "switch" => request[r].capability \in Capabilities

\* Who switches holds the lock, and has told the worker that is registered to stop.
SwitchHoldsLock ==
    \A r \in Requests : request[r].at = "switch" =>
        lock = r /\ (registered # None => ~Vis!Alive(registered) \/ worker[registered].stopped)

VisionInv == Vis!TypeOK /\ AskedFor /\ SwitchHoldsLock /\ Vis!NoOrphan

LEMMA VisionFields ==
    Vis!TypeOK <=> /\ worker \in [Vis!Workers -> WorkerRow]
                   /\ registered \in Vis!Workers \cup {None}
                   /\ request \in [Requests -> FlaskRow]
                   /\ lock \in Requests \cup {None}
                   /\ stream \in BOOLEAN
                   /\ late \subseteq Capabilities /\ latest \in Capabilities \cup {None}
                   /\ started \in 0..MaxWorkers /\ visionFaults \in 0..MaxVisionFaults
BY DEF Vis!TypeOK, WorkerRow, WorkerStates, FlaskRow

LEMMA FaultsCount ==
    ASSUME visionFaults \in 0..MaxVisionFaults, Vis!Fault
    PROVE  visionFaults' \in 0..MaxVisionFaults
BY ServicesBounds DEF Vis!VisionAssumption, Vis!Fault

LEMMA NewWorker ==
    ASSUME VisionInv, NEW c \in Capabilities, Vis!Spawn(c, worker)
    PROVE  /\ started' \in 0..MaxWorkers /\ registered' \in Vis!Workers
           /\ worker' \in [Vis!Workers -> WorkerRow]
           /\ worker'[registered'].capability = c
           /\ \A w \in Vis!Workers : w # registered' => worker'[w] = worker[w]
<1> DEFINE row1 == [Vis!Fresh EXCEPT !.at = "load", !.capability = c]
<1>1. row1 \in WorkerRow /\ row1.capability = c
  BY DEF Vis!Fresh, WorkerRow, WorkerStates
<1>2. started \in 0..MaxWorkers /\ worker \in [Vis!Workers -> WorkerRow]
  BY VisionFields DEF VisionInv
<1>3. started' \in 0..MaxWorkers /\ registered' \in 1..MaxWorkers /\ registered' = started + 1
  BY <1>2, ServicesBounds DEF Vis!Spawn, Vis!VisionAssumption
<1>4. worker' = [worker EXCEPT ![registered'] = row1]
  BY <1>3 DEF Vis!Spawn
<1> HIDE DEF row1
<1> QED
  BY <1>1, <1>2, <1>3, <1>4 DEF Vis!Workers

\* A step of a worker's thread changes that worker alone, and wakes none.
OneWorker(w) ==
    /\ worker' \in [Vis!Workers -> WorkerRow]
    /\ \A x \in Vis!Workers : x # w => worker'[x] = worker[x]
    /\ Vis!Alive(w)
    /\ worker'[w].capability = worker[w].capability
    /\ worker'[w].stopped = worker[w].stopped

LEMMA WorkerChange ==
    ASSUME VisionInv, NEW w \in Vis!Workers, NEW at \in WorkerStates, NEW open \in BOOLEAN,
           worker[w].at \notin {"none", "dead"},
           worker' = [worker EXCEPT ![w] = [worker[w] EXCEPT !.at = at, !.open = open]]
    PROVE  OneWorker(w)
<1>1. worker \in [Vis!Workers -> WorkerRow] /\ worker[w] \in WorkerRow
  BY VisionFields DEF VisionInv
<1> DEFINE new == [worker[w] EXCEPT !.at = at, !.open = open]
<1>2. /\ new \in WorkerRow /\ new.capability = worker[w].capability
      /\ new.stopped = worker[w].stopped
  BY <1>1 DEF WorkerRow
<1> HIDE DEF new
<1>3. worker' = [worker EXCEPT ![w] = new]
  BY DEF new
<1> QED
  BY <1>1, <1>2, <1>3 DEF OneWorker, Vis!Alive

LEMMA WorkerMoves ==
    ASSUME VisionInv, NEW w \in Vis!Workers, NEW from \in WorkerStates, NEW to \in WorkerStates,
           from \notin {"none", "dead"}, Vis!Moves(w, from, to)
    PROVE  OneWorker(w)
<1>1. worker \in [Vis!Workers -> WorkerRow] /\ worker[w] \in WorkerRow
  BY VisionFields DEF VisionInv
<1>2. worker' = [worker EXCEPT ![w] = [worker[w] EXCEPT !.at = to]] /\ worker[w].at = from
  BY <1>1 DEF Vis!Moves
<1>3. [worker[w] EXCEPT !.at = to] = [worker[w] EXCEPT !.at = to, !.open = worker[w].open]
  BY <1>1 DEF WorkerRow
<1>4. worker[w].open \in BOOLEAN
  BY <1>1 DEF WorkerRow
<1> QED
  BY <1>2, <1>3, <1>4, WorkerChange

\* Every step of the worker's thread.
LEMMA WorkerSteps ==
    ASSUME VisionInv, NEW w \in Vis!Workers,
           \/ Vis!Works(w) \/ Vis!LoadFails(w) \/ Vis!Grab(w) \/ Vis!Skip(w)
           \/ Vis!PostTimesOut(w)
    PROVE  /\ OneWorker(w) /\ UNCHANGED <<registered, request, lock, stream, started>>
           /\ late' \subseteq Capabilities /\ latest' \in Capabilities \cup {None}
           /\ visionFaults' \in 0..MaxVisionFaults
<1>1. /\ worker \in [Vis!Workers -> WorkerRow] /\ worker[w] \in WorkerRow
      /\ late \subseteq Capabilities /\ latest \in Capabilities \cup {None}
      /\ visionFaults \in 0..MaxVisionFaults /\ stream \in BOOLEAN
  BY VisionFields DEF VisionInv
<1>2. CASE Vis!Load(w) \/ Vis!Rest(w) \/ Vis!Grab(w) \/ Vis!Skip(w)
  <2>1. OneWorker(w)
    BY <1>2, WorkerMoves DEF Vis!Load, Vis!Rest, Vis!Grab, Vis!Skip, WorkerStates
  <2> QED
    BY <1>1, <1>2, <2>1 DEF Vis!Load, Vis!Rest, Vis!Grab, Vis!Skip
<1>3. CASE Vis!LoadFails(w)
  <2>1. OneWorker(w)
    BY <1>3, WorkerMoves DEF Vis!LoadFails, WorkerStates
  <2>2. visionFaults' \in 0..MaxVisionFaults
    BY <1>1, <1>3, FaultsCount DEF Vis!LoadFails
  <2> QED
    BY <1>1, <1>3, <2>1, <2>2 DEF Vis!LoadFails
<1>4. CASE Vis!Look(w)
  <2> DEFINE at == IF worker[w].stopped THEN "dead" ELSE IF worker[w].open THEN "grab" ELSE "open"
             open == worker[w].open /\ ~worker[w].stopped
  <2>1. worker' = [worker EXCEPT ![w] = [worker[w] EXCEPT !.at = at, !.open = open]]
    BY <1>1, <1>4 DEF Vis!Look
  <2>2. at \in WorkerStates
    BY DEF WorkerStates
  <2>3. open \in BOOLEAN
    OBVIOUS
  <2>4. worker[w].at \notin {"none", "dead"}
    BY <1>4 DEF Vis!Look
  <2> HIDE DEF at, open
  <2>5. OneWorker(w)
    BY <2>1, <2>2, <2>3, <2>4, WorkerChange
  <2> QED
    BY <1>1, <1>4, <2>5 DEF Vis!Look
<1>5. CASE Vis!Open(w)
  <2> DEFINE at == IF stream THEN "grab" ELSE "rest"
  <2>1. worker' = [worker EXCEPT ![w] = [worker[w] EXCEPT !.at = at, !.open = stream]]
    BY <1>1, <1>5 DEF Vis!Open
  <2>2. at \in WorkerStates
    BY DEF WorkerStates
  <2>3. worker[w].at \notin {"none", "dead"}
    BY <1>5 DEF Vis!Open
  <2> HIDE DEF at
  <2>4. OneWorker(w)
    BY <1>1, <2>1, <2>2, <2>3, WorkerChange
  <2> QED
    BY <1>1, <1>5, <2>4 DEF Vis!Open
<1>6. CASE Vis!GrabFails(w)
  <2>1. worker' = [worker EXCEPT ![w] = [worker[w] EXCEPT !.at = "rest", !.open = FALSE]]
    BY <1>1, <1>6 DEF Vis!GrabFails
  <2>2. worker[w].at \notin {"none", "dead"}
    BY <1>6 DEF Vis!GrabFails
  <2>3. OneWorker(w)
    BY <2>1, <2>2, WorkerChange DEF WorkerStates
  <2> QED
    BY <1>1, <1>6, <2>3 DEF Vis!GrabFails
<1>7. CASE Vis!Post(w)
  <2>1. OneWorker(w)
    BY <1>7, WorkerMoves DEF Vis!Post, WorkerStates
  <2>2. worker[w].capability \in Capabilities \cup {None}
    BY <1>1 DEF WorkerRow
  <2> QED
    BY <1>1, <1>7, <2>1, <2>2 DEF Vis!Post
<1>8. CASE Vis!PostTimesOut(w)
  <2>1. OneWorker(w)
    BY <1>8, WorkerMoves DEF Vis!PostTimesOut, WorkerStates
  <2>2. worker[w].capability \in Capabilities
    BY <1>8 DEF Vis!PostTimesOut, Vis!Moves, VisionInv, AskedFor
  <2>3. visionFaults' \in 0..MaxVisionFaults
    BY <1>1, <1>8, FaultsCount DEF Vis!PostTimesOut
  <2> QED
    BY <1>1, <1>8, <2>1, <2>2, <2>3 DEF Vis!PostTimesOut
<1> QED
  BY <1>2, <1>3, <1>4, <1>5, <1>6, <1>7, <1>8 DEF Vis!Works
\* A step of a worker keeps what is known of the workers and of the requests.
LEMMA WorkerKeeps ==
    ASSUME VisionInv, NEW w \in Vis!Workers, OneWorker(w),
           UNCHANGED <<registered, request, lock>>
    PROVE  AskedFor' /\ SwitchHoldsLock' /\ Vis!NoOrphan'
<1>1. registered \in Vis!Workers \cup {None}
  BY VisionFields DEF VisionInv
<1>2. \A x \in Vis!Workers :
         /\ worker'[x].capability = worker[x].capability /\ worker'[x].stopped = worker[x].stopped
         /\ Vis!Alive(x)' => Vis!Alive(x)
         /\ worker'[x].at # "none" => worker[x].at # "none"
  BY DEF OneWorker, Vis!Alive
<1>3. AskedFor'
  BY <1>2 DEF VisionInv, AskedFor
<1>4. SwitchHoldsLock'
  <2> SUFFICES ASSUME NEW r \in Requests, request'[r].at = "switch"
               PROVE  /\ lock' = r
                      /\ registered' # None =>
                            ~Vis!Alive(registered)' \/ worker'[registered'].stopped
    BY DEF SwitchHoldsLock
  <2>1. lock = r
    BY DEF VisionInv, SwitchHoldsLock
  <2>2. CASE registered # None
    <3>1. ~Vis!Alive(registered) \/ worker[registered].stopped
      BY <2>2 DEF VisionInv, SwitchHoldsLock
    <3>2. registered \in Vis!Workers
      BY <1>1, <2>2
    <3> QED
      BY <1>2, <2>1, <3>1, <3>2 DEF Vis!Alive
  <2> QED
    BY <2>1, <2>2
<1>5. Vis!NoOrphan'
  BY <1>2 DEF VisionInv, Vis!NoOrphan
<1> QED
  BY <1>3, <1>4, <1>5

\* A new worker takes the place of one that is gone, dead or told to stop.
LEMMA SpawnKeeps ==
    ASSUME VisionInv, NEW c \in Capabilities, Vis!Spawn(c, worker),
           \A r \in Requests : /\ request'[r].at # "switch"
                               /\ request[r].at = "pop" => request'[r] = request[r],
           registered # None => ~Vis!Alive(registered) \/ worker[registered].stopped
    PROVE  AskedFor' /\ SwitchHoldsLock' /\ Vis!NoOrphan'
<1>1. /\ registered' \in Vis!Workers /\ worker'[registered'].capability = c
      /\ \A w \in Vis!Workers : w # registered' => worker'[w] = worker[w]
  BY NewWorker
<1>2. AskedFor' /\ SwitchHoldsLock'
  BY <1>1 DEF VisionInv, AskedFor, SwitchHoldsLock
<1>3. Vis!NoOrphan'
  <2> SUFFICES ASSUME NEW w \in Vis!Workers, Vis!Alive(w)', ~worker'[w].stopped, registered' # w
               PROVE  \E r \in Requests : request'[r].at = "pop" /\ request'[r].worker = w
    BY DEF Vis!NoOrphan
  <2>1. Vis!Alive(w) /\ ~worker[w].stopped
    BY <1>1 DEF Vis!Alive
  <2>2. registered # w
    BY <2>1, ServicesBounds DEF Vis!VisionAssumption, Vis!Workers
  <2>3. PICK r \in Requests : request[r].at = "pop" /\ request[r].worker = w
    BY <2>1, <2>2 DEF VisionInv, Vis!NoOrphan
  <2> QED
    BY <2>3
<1> QED
  BY <1>2, <1>3

LEMMA NoneIsNew == None \notin Vis!Workers /\ None \notin Capabilities \cup Requests
BY ServicesBounds DEF Vis!VisionAssumption, Vis!Workers

LEMMA RequestFits ==
    ASSUME VisionInv, NEW r \in Requests, NEW q \in FlaskRow,
           request' = [request EXCEPT ![r] = q]
    PROVE  /\ request' \in [Requests -> FlaskRow] /\ request'[r] = q
           /\ \A x \in Requests : x # r => request'[x] = request[x]
BY VisionFields DEF VisionInv

LEMMA FlaskRows ==
    /\ Vis!Idle \in FlaskRow /\ Vis!Idle.at = "idle"
    /\ \A w \in Vis!Workers : \A c \in Capabilities :
          [at |-> "switch", worker |-> w, capability |-> c] \in FlaskRow
    /\ \A w \in Vis!Workers : /\ [Vis!Idle EXCEPT !.at = "pop", !.worker = w] \in FlaskRow
                              /\ [Vis!Idle EXCEPT !.at = "pop", !.worker = w].at = "pop"
                              /\ [Vis!Idle EXCEPT !.at = "pop", !.worker = w].worker = w
BY DEF Vis!Idle, FlaskRow

\* The worker of a stop or of a switch is told to stop.
LEMMA ToldToStop ==
    ASSUME VisionInv, NEW w \in Vis!Workers \cup {None},
           worker' = [worker EXCEPT ![w].stopped = TRUE]
    PROVE  /\ worker' \in [Vis!Workers -> WorkerRow]
           /\ w \in Vis!Workers => worker'[w].stopped
           /\ \A x \in Vis!Workers : /\ worker'[x].at = worker[x].at
                                     /\ worker'[x].capability = worker[x].capability
                                     /\ worker[x].stopped => worker'[x].stopped
                                     /\ x # w => worker'[x] = worker[x]
<1>1. worker \in [Vis!Workers -> WorkerRow]
  BY VisionFields DEF VisionInv
<1>2. CASE w = None
  BY <1>1, <1>2, NoneIsNew
<1>3. CASE w \in Vis!Workers
  <2> DEFINE new == [worker[w] EXCEPT !.stopped = TRUE]
  <2>1. worker[w] \in WorkerRow
    BY <1>1, <1>3
  <2>2. /\ new \in WorkerRow /\ new.stopped = TRUE /\ new.at = worker[w].at
        /\ new.capability = worker[w].capability
    BY <2>1 DEF WorkerRow
  <2>3. worker' = [worker EXCEPT ![w] = new]
    BY <1>1, <1>3
  <2> HIDE DEF new
  <2> QED
    BY <1>1, <1>3, <2>2, <2>3
<1> QED
  BY <1>2, <1>3

LEMMA VisionStep ==
    ASSUME VisionInv, [Vis!Next]_vision
    PROVE  VisionInv'
<1> USE NoneIsNew
<1>0. /\ worker \in [Vis!Workers -> WorkerRow] /\ registered \in Vis!Workers \cup {None}
      /\ request \in [Requests -> FlaskRow] /\ lock \in Requests \cup {None}
      /\ stream \in BOOLEAN /\ late \subseteq Capabilities
      /\ latest \in Capabilities \cup {None}
      /\ started \in 0..MaxWorkers /\ visionFaults \in 0..MaxVisionFaults
  BY VisionFields DEF VisionInv
<1>1. CASE UNCHANGED vision
  BY <1>1, VisionFields
  DEF vision, VisionInv, AskedFor, SwitchHoldsLock, Vis!NoOrphan, Vis!Alive, Vis!TypeOK
<1>2. ASSUME NEW w \in Vis!Workers,
             \/ Vis!Works(w) \/ Vis!LoadFails(w) \/ Vis!Grab(w) \/ Vis!Skip(w)
             \/ Vis!PostTimesOut(w)
      PROVE  VisionInv'
  <2>1. /\ OneWorker(w) /\ UNCHANGED <<registered, request, lock, stream, started>>
        /\ late' \subseteq Capabilities /\ latest' \in Capabilities \cup {None}
        /\ visionFaults' \in 0..MaxVisionFaults
    BY <1>2, WorkerSteps
  <2>2. Vis!TypeOK'
    BY <1>0, <2>1 DEF OneWorker, Vis!TypeOK, WorkerRow, WorkerStates, FlaskRow
  <2> QED
    BY <2>1, <2>2, WorkerKeeps DEF VisionInv
<1>3. ASSUME NEW r \in Requests, NEW c \in Capabilities, Vis!StartSwitches(r, c)
      PROVE  VisionInv'
  <2> DEFINE q == [at |-> "switch", worker |-> registered, capability |-> c]
  <2>1. registered \in Vis!Workers /\ q \in FlaskRow /\ q.at = "switch" /\ q.capability = c
    BY <1>0, <1>3, FlaskRows DEF Vis!StartSwitches
  <2>2. request' = [request EXCEPT ![r] = q]
    BY <1>3 DEF Vis!StartSwitches
  <2> HIDE DEF q
  <2>3. /\ request' \in [Requests -> FlaskRow] /\ request'[r] = q
        /\ \A x \in Requests : x # r => request'[x] = request[x]
    BY <2>1, <2>2, RequestFits
  <2>4. /\ worker' \in [Vis!Workers -> WorkerRow] /\ worker'[registered].stopped
        /\ \A x \in Vis!Workers : /\ worker'[x].at = worker[x].at
                                  /\ worker'[x].capability = worker[x].capability
                                  /\ x # registered => worker'[x] = worker[x]
    BY <1>3, <2>1, ToldToStop DEF Vis!StartSwitches
  <2>5. /\ lock = None /\ request[r].at = "idle" /\ lock' = r
        /\ UNCHANGED <<registered, stream, late, latest, started, visionFaults>>
    BY <1>3 DEF Vis!StartSwitches
  <2>6. Vis!TypeOK'
    BY <1>0, <2>3, <2>4, <2>5 DEF Vis!TypeOK, WorkerRow, WorkerStates, FlaskRow
  <2>7. AskedFor'
    BY <2>1, <2>3, <2>4 DEF VisionInv, AskedFor
  <2>8. SwitchHoldsLock'
    BY <2>3, <2>4, <2>5 DEF VisionInv, SwitchHoldsLock
  <2>9. Vis!NoOrphan'
    BY <2>3, <2>4, <2>5 DEF VisionInv, Vis!NoOrphan, Vis!Alive
  <2> QED
    BY <2>6, <2>7, <2>8, <2>9 DEF VisionInv
<1>4. ASSUME NEW r \in Requests, NEW c \in Capabilities, Vis!Start(r, c)
      PROVE  VisionInv'
  <2>1. \A x \in Requests : request[x].at # "switch"
    BY <1>4 DEF Vis!Start, VisionInv, SwitchHoldsLock
  <2>2. UNCHANGED <<request, lock, stream, late, latest, visionFaults>> /\ Vis!Spawn(c, worker)
    BY <1>4 DEF Vis!Start
  <2>3. AskedFor' /\ SwitchHoldsLock' /\ Vis!NoOrphan'
    BY <1>4, <2>1, <2>2, SpawnKeeps DEF Vis!Start
  <2>4. Vis!TypeOK'
    BY <1>0, <2>2, NewWorker DEF Vis!TypeOK, WorkerRow, WorkerStates, FlaskRow
  <2> QED
    BY <2>3, <2>4 DEF VisionInv
<1>5. ASSUME NEW r \in Requests, Vis!Switch(r)
      PROVE  VisionInv'
  <2>1. /\ request[r].at = "switch" /\ request[r].capability \in Capabilities /\ lock = r
        /\ registered # None => ~Vis!Alive(registered) \/ worker[registered].stopped
    BY <1>5 DEF Vis!Switch, VisionInv, AskedFor, SwitchHoldsLock
  <2>2. /\ UNCHANGED <<stream, late, latest, visionFaults>> /\ lock' = None
        /\ Vis!Spawn(request[r].capability, worker)
        /\ request' = [request EXCEPT ![r] = Vis!Idle]
    BY <1>5 DEF Vis!Switch
  <2>3. /\ request' \in [Requests -> FlaskRow] /\ request'[r] = Vis!Idle
        /\ \A x \in Requests : x # r => request'[x] = request[x]
    BY <2>2, FlaskRows, RequestFits
  <2>4. \A x \in Requests : /\ request'[x].at # "switch"
                            /\ request[x].at = "pop" => request'[x] = request[x]
    <3> SUFFICES ASSUME NEW x \in Requests
                 PROVE  /\ request'[x].at # "switch"
                        /\ request[x].at = "pop" => request'[x] = request[x]
      OBVIOUS
    <3>1. request[x].at = "switch" => lock = x
      BY DEF VisionInv, SwitchHoldsLock
    <3>2. CASE x = r
      BY <2>1, <2>3, <3>2, FlaskRows
    <3>3. CASE x # r
      BY <2>1, <2>3, <3>1, <3>3
    <3> QED
      BY <3>2, <3>3
  <2>5. AskedFor' /\ SwitchHoldsLock' /\ Vis!NoOrphan'
    BY <2>1, <2>2, <2>4, SpawnKeeps
  <2>6. Vis!TypeOK'
    BY <1>0, <2>1, <2>2, <2>3, NewWorker DEF Vis!TypeOK, WorkerRow, WorkerStates, FlaskRow
  <2> QED
    BY <2>5, <2>6 DEF VisionInv
<1>6. ASSUME NEW r \in Requests, Vis!Stop(r)
      PROVE  VisionInv'
  <2> DEFINE q == [Vis!Idle EXCEPT !.at = "pop", !.worker = registered]
  <2>1. registered \in Vis!Workers
    BY <1>0, <1>6 DEF Vis!Stop
  <2>2. q \in FlaskRow /\ q.at = "pop" /\ q.worker = registered
    BY <2>1, FlaskRows
  <2>3. request' = [request EXCEPT ![r] = q]
    BY <1>6 DEF Vis!Stop
  <2> HIDE DEF q
  <2>4. /\ request' \in [Requests -> FlaskRow] /\ request'[r] = q
        /\ \A x \in Requests : x # r => request'[x] = request[x]
    BY <2>2, <2>3, RequestFits
  <2>5. /\ registered' = None /\ request[r].at = "idle"
        /\ UNCHANGED <<worker, lock, stream, late, latest, started, visionFaults>>
    BY <1>6 DEF Vis!Stop
  <2>6. Vis!TypeOK'
    BY <1>0, <2>4, <2>5 DEF Vis!TypeOK, WorkerRow, WorkerStates, FlaskRow
  <2>7. AskedFor' /\ SwitchHoldsLock'
    BY <2>2, <2>4, <2>5 DEF VisionInv, AskedFor, SwitchHoldsLock
  <2>8. Vis!NoOrphan'
    BY <2>2, <2>4, <2>5 DEF VisionInv, Vis!NoOrphan, Vis!Alive
  <2> QED
    BY <2>6, <2>7, <2>8 DEF VisionInv
<1>7. ASSUME NEW r \in Requests, Vis!StopWorker(r)
      PROVE  VisionInv'
  <2> DEFINE v == request[r].worker
  <2>1. v \in Vis!Workers \cup {None}
    BY <1>0 DEF FlaskRow
  <2>2. /\ worker' = [worker EXCEPT ![v].stopped = TRUE]
        /\ request' = [request EXCEPT ![r] = Vis!Idle] /\ request[r].at = "pop"
        /\ UNCHANGED <<registered, lock, stream, late, latest, started, visionFaults>>
    BY <1>7 DEF Vis!StopWorker
  <2>3. /\ request' \in [Requests -> FlaskRow] /\ request'[r] = Vis!Idle
        /\ \A x \in Requests : x # r => request'[x] = request[x]
    BY <2>2, FlaskRows, RequestFits
  <2>4. /\ worker' \in [Vis!Workers -> WorkerRow]
        /\ v \in Vis!Workers => worker'[v].stopped
        /\ \A x \in Vis!Workers : /\ worker'[x].at = worker[x].at
                                  /\ worker'[x].capability = worker[x].capability
                                  /\ worker[x].stopped => worker'[x].stopped
                                  /\ x # v => worker'[x] = worker[x]
    BY <2>1, <2>2, ToldToStop
  <2>5. Vis!TypeOK'
    BY <1>0, <2>2, <2>3, <2>4 DEF Vis!TypeOK, WorkerRow, WorkerStates, FlaskRow
  <2>6. AskedFor'
    BY <2>3, <2>4, FlaskRows DEF VisionInv, AskedFor
  <2>7. SwitchHoldsLock'
    <3> SUFFICES ASSUME NEW x \in Requests, request'[x].at = "switch"
                 PROVE  /\ lock' = x
                        /\ registered' # None =>
                              ~Vis!Alive(registered)' \/ worker'[registered'].stopped
      BY DEF SwitchHoldsLock
    <3>1. request[x].at = "switch"
      BY <2>3, FlaskRows
    <3>2. lock = x /\ (registered # None =>
                          ~Vis!Alive(registered) \/ worker[registered].stopped)
      BY <3>1 DEF VisionInv, SwitchHoldsLock
    <3> QED
      BY <1>0, <2>2, <2>4, <3>2 DEF Vis!Alive
  <2>8. Vis!NoOrphan'
    <3> SUFFICES ASSUME NEW w \in Vis!Workers, Vis!Alive(w)', ~worker'[w].stopped,
                        registered' # w
                 PROVE  \E x \in Requests : request'[x].at = "pop" /\ request'[x].worker = w
      BY DEF Vis!NoOrphan
    <3>1. Vis!Alive(w) /\ ~worker[w].stopped /\ w # v /\ registered # w
      BY <2>2, <2>4 DEF Vis!Alive
    <3>2. PICK x \in Requests : request[x].at = "pop" /\ request[x].worker = w
      BY <3>1 DEF VisionInv, Vis!NoOrphan
    <3> QED
      BY <2>3, <3>1, <3>2
  <2> QED
    BY <2>5, <2>6, <2>7, <2>8 DEF VisionInv
<1>8. ASSUME NEW c \in Capabilities, Vis!Arrive(c)
      PROVE  VisionInv'
  <2>1. Vis!TypeOK'
    BY <1>0, <1>8 DEF Vis!Arrive, Vis!TypeOK, WorkerRow, WorkerStates, FlaskRow
  <2> QED
    BY <1>8, <2>1
    DEF Vis!Arrive, VisionInv, AskedFor, SwitchHoldsLock, Vis!NoOrphan, Vis!Alive
<1>9. CASE Vis!StreamChanges
  <2>1. stream' \in BOOLEAN /\ visionFaults' \in 0..MaxVisionFaults
    BY <1>0, <1>9, FaultsCount DEF Vis!StreamChanges
  <2>2. UNCHANGED <<worker, registered, request, lock, late, latest, started>>
    BY <1>9 DEF Vis!StreamChanges
  <2>3. Vis!TypeOK'
    BY <1>0, <2>1, <2>2 DEF Vis!TypeOK, WorkerRow, WorkerStates, FlaskRow
  <2> QED
    BY <2>2, <2>3 DEF VisionInv, AskedFor, SwitchHoldsLock, Vis!NoOrphan, Vis!Alive
<1>10. CASE Vis!Restart
  <2>1. \A w \in Vis!Workers : /\ worker'[w] \in WorkerRow /\ ~Vis!Alive(w)'
                               /\ worker'[w].capability = worker[w].capability
                               /\ worker'[w].at # "none" => worker[w].at # "none"
    <3> SUFFICES ASSUME NEW w \in Vis!Workers
                 PROVE  /\ worker'[w] \in WorkerRow /\ ~Vis!Alive(w)'
                        /\ worker'[w].capability = worker[w].capability
                        /\ worker'[w].at # "none" => worker[w].at # "none"
      OBVIOUS
    <3>1. worker[w] \in WorkerRow
      BY <1>0
    <3>2. worker'[w] = IF Vis!Alive(w) THEN [worker[w] EXCEPT !.at = "dead"] ELSE worker[w]
      BY <1>10 DEF Vis!Restart
    <3> QED
      BY <3>1, <3>2 DEF Vis!Alive, WorkerRow, WorkerStates
  <2>2. worker' = [w \in Vis!Workers |-> worker'[w]]
    BY <1>10 DEF Vis!Restart
  <2>3. visionFaults' \in 0..MaxVisionFaults
    BY <1>0, <1>10, FaultsCount DEF Vis!Restart
  <2>4. /\ registered' = None /\ lock' = None /\ request' = [r \in Requests |-> Vis!Idle]
        /\ UNCHANGED <<stream, late, latest, started>>
    BY <1>10 DEF Vis!Restart
  <2>5. worker' \in [Vis!Workers -> WorkerRow] /\ request' \in [Requests -> FlaskRow]
    BY <2>1, <2>2, <2>4, FlaskRows
  <2>6. Vis!TypeOK'
    BY <1>0, <2>3, <2>4, <2>5 DEF Vis!TypeOK, WorkerRow, WorkerStates, FlaskRow
  <2>7. AskedFor' /\ SwitchHoldsLock' /\ Vis!NoOrphan'
    BY <2>1, <2>4, FlaskRows DEF VisionInv, AskedFor, SwitchHoldsLock, Vis!NoOrphan
  <2> QED
    BY <2>6, <2>7 DEF VisionInv
<1> QED
  BY <1>1, <1>2, <1>3, <1>4, <1>5, <1>6, <1>7, <1>8, <1>9, <1>10 DEF Vis!Next
LEMMA VisionInvInit ==
    ASSUME Vis!Init
    PROVE  VisionInv
<1>1. Vis!Fresh \in WorkerRow /\ Vis!Fresh.at = "none"
  BY DEF Vis!Fresh, WorkerRow, WorkerStates
<1>2. /\ \A w \in Vis!Workers : worker[w] = Vis!Fresh
      /\ \A r \in Requests : request[r] = Vis!Idle
  BY DEF Vis!Init
<1>3. worker \in [Vis!Workers -> WorkerRow] /\ request \in [Requests -> FlaskRow]
  BY <1>1, FlaskRows DEF Vis!Init
<1>4. Vis!TypeOK
  BY <1>3, ServicesBounds, VisionFields DEF Vis!Init, Vis!VisionAssumption
<1> QED
  BY <1>1, <1>2, <1>4, FlaskRows
  DEF VisionInv, AskedFor, SwitchHoldsLock, Vis!NoOrphan, Vis!Alive

\* The workers, the Flask threads and what the server was told keep their types.
THEOREM VisionTypeCorrect == PartsSpec => []Vis!TypeOK
<1>1. PartsInit => VisionInv
  BY VisionInvInit DEF PartsInit
<1>2. VisionInv /\ [PartsNext]_allVars => VisionInv'
  BY VisionOrNot, VisionStep
<1>3. VisionInv => Vis!TypeOK
  BY DEF VisionInv
<1> QED
  BY <1>1, <1>2, <1>3, PTL DEF PartsSpec, allVars

-----------------------------------------------------------------------------
(* Recordings: an ffmpeg that runs can be stopped, and its file is kept.     *)

RecordingRow == [board : Boards \cup {None}, file : Rec!Files \cup {<<None, 0>>},
                 process : {"none", "runs", "ended"}]
HttpRow == [at : {"idle", "settle", "end"}, recording : Rec!Recordings \cup {None}]

\* What has not begun is blank; what has, has a board and a file.
Begun ==
    \A r \in Rec!Recordings :
        IF r <= recorded THEN recording[r].board \in Boards /\ recording[r].file \in Rec!Files
                         ELSE recording[r] = Rec!Fresh

\* A thread that is not idle has a recording in hand, an idle one has none.
InHand ==
    \A t \in Requests :
        IF recordRequest[t].at = "idle" THEN recordRequest[t] = Rec!Idle
                                        ELSE recordRequest[t].recording \in 1..recorded

\* The thread that waits for its ffmpeg holds the lock, and its board records nothing.
SettlesAlone ==
    \A t \in Requests : recordRequest[t].at = "settle" =>
        /\ recordLock = t
        /\ ~Rec!Active(recording[recordRequest[t].recording].board)

\* A board's entry is a recording of that board.
EntriesMatch ==
    \A b \in Boards : entry[b] # None => entry[b] <= recorded /\ recording[entry[b]].board = b

RecorderInv ==
    /\ Rec!TypeOK /\ Begun /\ InHand /\ SettlesAlone /\ EntriesMatch
    /\ owed \subseteq 1..recorded
    /\ Rec!NoStrayRecording /\ Rec!RecordingsAreKept
LEMMA RecorderFields ==
    Rec!TypeOK <=> /\ entry \in [Boards -> Rec!Recordings \cup {None}]
                   /\ recording \in [Rec!Recordings -> RecordingRow]
                   /\ recordLock \in Requests \cup {None}
                   /\ recordRequest \in [Requests -> HttpRow]
                   /\ files \subseteq Rec!Files /\ owed \subseteq Rec!Recordings
                   /\ second \in 0..MaxSecond /\ recorded \in 0..MaxRecordings
                   /\ recordFaults \in 0..MaxRecordFaults
BY DEF Rec!TypeOK, RecordingRow, HttpRow

LEMMA RecordNone ==
    /\ None \notin Rec!Recordings /\ None \notin Boards /\ None \notin Requests
    /\ MaxSecond \in Nat /\ MaxRecordings \in Nat /\ MaxRecordFaults \in Nat
    /\ Rec!Idle \in HttpRow /\ Rec!Idle.at = "idle" /\ Rec!Idle.recording = None
    /\ Rec!Fresh \in RecordingRow /\ Rec!Fresh.process = "none"
BY ServicesBounds
DEF Rec!RecorderAssumption, Rec!Recordings, Rec!Idle, HttpRow, Rec!Fresh, RecordingRow

LEMMA RecordFaultsCount ==
    ASSUME recordFaults \in 0..MaxRecordFaults, Rec!Fault
    PROVE  recordFaults' \in 0..MaxRecordFaults
BY RecordNone DEF Rec!Fault

\* The name of a file is a stream's, and a stream's is a board's.
LEMMA NamesAFile ==
    ASSUME NEW b \in Boards, NEW published \in SUBSET Rec!Streams, second \in 0..MaxSecond
    PROVE  <<Rec!StreamName(b, published), second>> \in Rec!Files
<1> DEFINE only == CHOOSE s \in published : TRUE
<1>1. Cardinality(published) = 1 => published # {}
  BY FS_EmptySet
<1>2. published # {} => only \in published
  OBVIOUS
<1>3. Rec!StreamName(b, published)
         = IF b \notin published /\ Cardinality(published) = 1 THEN only ELSE b
  <2>1. Rec!Cardinality(published) = Cardinality(published)
    BY DEF Rec!Cardinality, Cardinality
  <2> QED
    BY <2>1 DEF Rec!StreamName
<1> HIDE DEF only
<1>4. Rec!StreamName(b, published) \in Boards
  BY <1>1, <1>2, <1>3 DEF Rec!Streams
<1> QED
  BY <1>4 DEF Rec!Files, Rec!Streams

LEMMA NoFileIsBlank == Rec!Fresh.file \notin Rec!Files
BY RecordNone DEF Rec!Fresh, Rec!Files, Rec!Streams

\* A step that starts nothing: processes may end, boards and files stay.
EndsSome ==
    /\ recording' \in [Rec!Recordings -> RecordingRow]
    /\ \A r \in Rec!Recordings :
          /\ recording'[r].board = recording[r].board /\ recording'[r].file = recording[r].file
          /\ Rec!Runs(r)' => Rec!Runs(r)
          /\ recording[r] = Rec!Fresh => recording'[r] = Rec!Fresh

LEMMA NobodyEnds ==
    ASSUME RecorderInv, recording' = recording
    PROVE  EndsSome
BY RecorderFields DEF EndsSome, Rec!Runs, RecorderInv

LEMMA OneEnds ==
    ASSUME RecorderInv, NEW r \in 1..recorded,
           recording' = [recording EXCEPT ![r].process = "ended"]
    PROVE  EndsSome /\ ~Rec!Runs(r)'
<1>1. /\ recording \in [Rec!Recordings -> RecordingRow] /\ r \in Rec!Recordings /\ r <= recorded
  BY RecorderFields, RecordNone DEF RecorderInv, Rec!Recordings
<1> DEFINE row1 == [recording[r] EXCEPT !.process = "ended"]
<1>2. /\ row1 \in RecordingRow /\ row1.board = recording[r].board /\ row1.file = recording[r].file
      /\ row1.process = "ended"
  BY <1>1 DEF RecordingRow
<1>3. recording[r].file # Rec!Fresh.file
  BY <1>1, NoFileIsBlank DEF RecorderInv, Begun
<1>4. recording' = [recording EXCEPT ![r] = row1]
  BY <1>1
<1> HIDE DEF row1
<1> QED
  BY <1>1, <1>2, <1>3, <1>4 DEF EndsSome, Rec!Runs

\* While nothing is started, what has begun stays begun, and what is owed is kept.
LEMMA KeptOn ==
    ASSUME RecorderInv, EndsSome, recorded' = recorded, owed' \subseteq owed,
           \A q \in owed' : recording[q].file \in files =>
                                recording[q].file \in files' \/ Rec!Clash(q)
    PROVE  Begun' /\ owed' \subseteq 1..recorded' /\ Rec!RecordingsAreKept'
<1>1. Begun'
  BY DEF RecorderInv, Begun, EndsSome
<1>2. owed' \subseteq 1..recorded'
  BY DEF RecorderInv
<1>3. \A q \in owed' : q \in Rec!Recordings
  BY RecorderFields DEF RecorderInv
<1>4. \A q \in owed' : recording[q].file \in files' \/ Rec!Clash(q)
  BY DEF RecorderInv, Rec!RecordingsAreKept
<1>5. \A q \in owed' : recording'[q].file \in files' \/ Rec!Clash(q)'
  BY <1>3, <1>4 DEF EndsSome, Rec!Clash
<1> QED
  BY <1>1, <1>2, <1>5 DEF Rec!RecordingsAreKept

\* What is in a thread's hand has begun.
LEMMA HeldHasBegun ==
    ASSUME RecorderInv, NEW t \in Requests, recordRequest[t].at # "idle"
    PROVE  /\ recordRequest[t].recording \in 1..recorded
           /\ recordRequest[t].recording \in Rec!Recordings
           /\ recording[recordRequest[t].recording].board \in Boards
<1>1. recordRequest[t].recording \in 1..recorded /\ recorded \in 0..MaxRecordings
  BY RecorderFields DEF RecorderInv, InHand
<1>2. recordRequest[t].recording \in Rec!Recordings /\ recordRequest[t].recording <= recorded
  BY <1>1, RecordNone DEF Rec!Recordings
<1> QED
  BY <1>1, <1>2 DEF RecorderInv, Begun

\* A thread has done its work.
LEMMA HandEmpty ==
    ASSUME RecorderInv, NEW t \in Requests, recordRequest' = [recordRequest EXCEPT ![t] = Rec!Idle],
           recorded' = recorded
    PROVE  /\ recordRequest' \in [Requests -> HttpRow] /\ InHand'
           /\ recordRequest'[t] = Rec!Idle
           /\ \A u \in Requests : u # t => recordRequest'[u] = recordRequest[u]
<1>1. /\ recordRequest' \in [Requests -> HttpRow] /\ recordRequest'[t] = Rec!Idle
      /\ \A u \in Requests : u # t => recordRequest'[u] = recordRequest[u]
  BY RecorderFields, RecordNone DEF RecorderInv
<1> QED
  BY <1>1, RecordNone DEF RecorderInv, InHand
\* The thread's hand holds a recording that is not idle's.
LEMMA HandTakes ==
    ASSUME RecorderInv, NEW t \in Requests, NEW at \in {"settle", "end"},
           NEW r \in Rec!Recordings, r <= recorded', recorded <= recorded',
           recorded \in Nat, recorded' \in Nat,
           recordRequest' = [recordRequest EXCEPT ![t] = [at |-> at, recording |-> r]]
    PROVE  /\ recordRequest' \in [Requests -> HttpRow] /\ InHand'
           /\ recordRequest'[t].at = at /\ recordRequest'[t].recording = r
           /\ \A u \in Requests : u # t => recordRequest'[u] = recordRequest[u]
<1> DEFINE q == [at |-> at, recording |-> r]
<1>1. q \in HttpRow /\ q.at = at /\ q.recording = r
  BY DEF HttpRow
<1>2. recordRequest' = [recordRequest EXCEPT ![t] = q]
  OBVIOUS
<1> HIDE DEF q
<1>3. /\ recordRequest' \in [Requests -> HttpRow] /\ recordRequest'[t] = q
      /\ \A u \in Requests : u # t => recordRequest'[u] = recordRequest[u]
  BY <1>1, <1>2, RecorderFields DEF RecorderInv
<1>4. r \in 1..recorded'
  BY RecordNone DEF Rec!Recordings
<1>5. ASSUME NEW u \in Requests
      PROVE  IF recordRequest'[u].at = "idle" THEN recordRequest'[u] = Rec!Idle
                                              ELSE recordRequest'[u].recording \in 1..recorded'
  <2>1. CASE u = t
    BY <1>1, <1>3, <1>4, <2>1
  <2>2. CASE u # t
    <3>1. recordRequest'[u] = recordRequest[u]
      BY <1>3, <2>2
    <3>2. CASE recordRequest[u].at = "idle"
      BY <3>1, <3>2 DEF RecorderInv, InHand
    <3>3. CASE recordRequest[u].at # "idle"
      <4>1. recordRequest[u].recording \in 1..recorded
        BY <3>3 DEF RecorderInv, InHand
      <4>2. recordRequest[u].recording \in 1..recorded'
        BY <4>1
      <4> QED
        BY <3>1, <3>3, <4>2
    <3> QED
      BY <3>2, <3>3
  <2> QED
    BY <2>1, <2>2
<1>6. InHand'
  BY <1>5 DEF InHand
<1> QED
  BY <1>1, <1>3, <1>6

LEMMA RecorderStart ==
    ASSUME RecorderInv, NEW t \in Requests, NEW b \in Boards, Rec!Start(t, b)
    PROVE  RecorderInv'
<1> USE RecordNone
<1>0. /\ entry \in [Boards -> Rec!Recordings \cup {None}]
      /\ recording \in [Rec!Recordings -> RecordingRow]
      /\ files \subseteq Rec!Files /\ owed \subseteq Rec!Recordings
      /\ second \in 0..MaxSecond /\ recorded \in 0..MaxRecordings
      /\ recordFaults \in 0..MaxRecordFaults
  BY RecorderFields DEF RecorderInv
<1> DEFINE n == recorded + 1
<1>1. n \in Rec!Recordings /\ recorded' = n /\ n \in 0..MaxRecordings
  BY <1>0 DEF Rec!Start, Rec!Recordings
<1>2. PICK published \in SUBSET Rec!Streams :
         LET file == <<Rec!StreamName(b, published), second>> IN
         \/ /\ file \notin files /\ files' = files \cup {file}
            /\ recording' = [recording EXCEPT ![n] =
                                 [board |-> b, file |-> file, process |-> "runs"]]
            /\ owed' = owed \cup {n}
            /\ UNCHANGED recordFaults
         \/ /\ recording' = [recording EXCEPT ![n] =
                                 [board |-> b, file |-> file, process |-> "ended"]]
            /\ (file \in files /\ UNCHANGED recordFaults) \/ Rec!Fault
            /\ UNCHANGED <<files, owed>>
  BY <1>1 DEF Rec!Start
<1> DEFINE file == <<Rec!StreamName(b, published), second>>
<1>3. file \in Rec!Files
  BY <1>0, NamesAFile
<1> HIDE DEF file
<1>4. recordFaults' \in 0..MaxRecordFaults
  BY <1>0, <1>2, RecordFaultsCount
<1>5. /\ files' \subseteq Rec!Files /\ files \subseteq files'
      /\ owed' \subseteq Rec!Recordings /\ owed' \subseteq owed \cup {n}
  <2>1. CASE files' = files \cup {file} /\ owed' = owed \cup {n}
    BY <1>0, <1>1, <1>3, <2>1
  <2>2. CASE files' = files /\ owed' = owed
    BY <1>0, <2>2
  <2> QED
    BY <1>2, <2>1, <2>2 DEF file
<1>6. PICK p \in {"runs", "ended"} :
         recording' = [recording EXCEPT ![n] = [board |-> b, file |-> file, process |-> p]]
  BY <1>2 DEF file
<1>7. /\ recording' \in [Rec!Recordings -> RecordingRow]
      /\ recording'[n].board = b /\ recording'[n].file = file
      /\ \A r \in Rec!Recordings : r # n => recording'[r] = recording[r]
  <2> DEFINE row1 == [board |-> b, file |-> file, process |-> p]
  <2>1. row1 \in RecordingRow /\ row1.board = b /\ row1.file = file
    BY <1>3 DEF RecordingRow
  <2> HIDE DEF row1
  <2> QED
    BY <1>0, <1>1, <1>6, <2>1 DEF row1
<1>8. n \in owed' => file \in files'
  <2>1. n \notin owed
    BY <1>0 DEF RecorderInv
  <2> QED
    BY <1>2, <2>1 DEF file
<1>9. /\ entry' = entry /\ second' = second /\ recordLock' = t /\ recordLock = None
      /\ recordRequest[t] = Rec!Idle /\ ~Rec!Active(b)
      /\ recordRequest' = [recordRequest EXCEPT ![t] = [at |-> "settle", recording |-> n]]
  BY <1>1 DEF Rec!Start, Rec!Free
<1>10. /\ recordRequest' \in [Requests -> HttpRow] /\ InHand'
       /\ recordRequest'[t].at = "settle" /\ recordRequest'[t].recording = n
       /\ \A u \in Requests : u # t => recordRequest'[u] = recordRequest[u]
  <2>1. recorded \in Nat /\ recorded' \in Nat /\ n <= recorded' /\ recorded <= recorded'
    BY <1>0, <1>1
  <2> HIDE DEF n
  <2> QED
    BY <1>1, <1>9, <2>1, HandTakes
<1>11. Rec!TypeOK'
  BY <1>0, <1>1, <1>4, <1>5, <1>7, <1>9, <1>10 DEF Rec!TypeOK, RecordingRow, HttpRow
<1>12. Begun'
  <2> SUFFICES ASSUME NEW r \in Rec!Recordings
               PROVE  IF r <= n
                      THEN recording'[r].board \in Boards /\ recording'[r].file \in Rec!Files
                      ELSE recording'[r] = Rec!Fresh
    BY <1>1 DEF Begun
  <2>1. CASE r = n
    BY <1>0, <1>3, <1>7, <2>1
  <2>2. CASE r # n
    <3>1. recording'[r] = recording[r] /\ (r <= n <=> r <= recorded)
      BY <1>0, <1>7, <2>2 DEF Rec!Recordings
    <3>2. IF r <= recorded THEN recording[r].board \in Boards /\ recording[r].file \in Rec!Files
                           ELSE recording[r] = Rec!Fresh
      BY DEF RecorderInv, Begun
    <3> QED
      BY <3>1, <3>2
  <2> QED
    BY <2>1, <2>2
\* No entry knows the new recording, and what the entries know has not changed.
<1>13. ASSUME NEW c \in Boards, entry[c] # None
       PROVE  /\ entry[c] \in Rec!Recordings /\ entry[c] # n /\ entry[c] <= n
              /\ recording'[entry[c]] = recording[entry[c]] /\ recording[entry[c]].board = c
  <2>1. entry[c] \in Rec!Recordings /\ entry[c] <= recorded /\ recording[entry[c]].board = c
    BY <1>0, <1>13 DEF RecorderInv, EntriesMatch
  <2>2. entry[c] # n /\ entry[c] <= n
    BY <1>0, <2>1 DEF Rec!Recordings
  <2> QED
    BY <1>7, <2>1, <2>2
<1>14. EntriesMatch'
  BY <1>1, <1>9, <1>13 DEF EntriesMatch
<1>15. SettlesAlone'
  <2> SUFFICES ASSUME NEW u \in Requests, recordRequest'[u].at = "settle"
               PROVE  /\ recordLock' = u
                      /\ ~Rec!Active(recording[recordRequest[u].recording].board)'
    BY DEF SettlesAlone
  <2>1. u = t
    BY <1>9, <1>10 DEF RecorderInv, SettlesAlone
  <2>2. recording'[recordRequest'[u].recording].board = b
    BY <1>7, <1>10, <2>1
  <2>3. ~(entry'[b] # None /\ recording'[entry'[b]].process = "runs")
    BY <1>9, <1>13 DEF Rec!Active, Rec!Runs
  <2> QED
    BY <1>9, <2>1, <2>2, <2>3 DEF Rec!Active, Rec!Runs
<1>16. owed' \subseteq 1..recorded'
  BY <1>0, <1>1, <1>5 DEF RecorderInv
<1>17. Rec!NoStrayRecording'
  <2> SUFFICES ASSUME NEW r \in Rec!Recordings, Rec!Runs(r)'
               PROVE  \/ entry'[recording'[r].board] = r
                      \/ \E u \in Requests : recordRequest'[u].recording = r
    BY DEF Rec!NoStrayRecording
  <2>1. CASE r = n
    BY <1>10, <2>1
  <2>2. CASE r # n
    <3>1. recording'[r] = recording[r] /\ Rec!Runs(r)
      BY <1>7, <2>2 DEF Rec!Runs
    <3>2. CASE entry[recording[r].board] = r
      BY <1>9, <3>1, <3>2
    <3>3. ASSUME NEW u \in Requests, recordRequest[u].recording = r
          PROVE  recordRequest'[u].recording = r
      BY <1>9, <1>10, <3>3
    <3> QED
      BY <3>1, <3>2, <3>3 DEF RecorderInv, Rec!NoStrayRecording
  <2> QED
    BY <2>1, <2>2
<1>18. Rec!RecordingsAreKept'
  <2> SUFFICES ASSUME NEW q \in owed'
               PROVE  recording'[q].file \in files' \/ Rec!Clash(q)'
    BY DEF Rec!RecordingsAreKept
  <2>1. CASE q = n
    BY <1>7, <1>8, <2>1
  <2>2. CASE q # n
    <3>1. q \in owed /\ q \in Rec!Recordings /\ q <= recorded
      BY <1>0, <1>5, <2>2 DEF RecorderInv
    <3>2. recording'[q] = recording[q]
      BY <1>7, <2>2, <3>1
    <3>3. CASE recording[q].file \in files
      BY <1>5, <3>2, <3>3
    <3>4. CASE Rec!Clash(q)
      <4>1. PICK x \in Rec!Recordings : x # q /\ recording[x].file = recording[q].file
        BY <3>4 DEF Rec!Clash
      <4>2. recording[q].file \in Rec!Files
        BY <3>1 DEF RecorderInv, Begun
      <4>3. x # n
        <5> SUFFICES ASSUME x = n
                     PROVE  FALSE
          OBVIOUS
        <5>1. ~(x <= recorded)
          BY <1>0
        <5>2. recording[x] = Rec!Fresh
          BY <5>1 DEF RecorderInv, Begun
        <5> QED
          BY <4>1, <4>2, <5>2, NoFileIsBlank
      <4>4. recording'[x] = recording[x]
        BY <1>7, <4>3
      <4> QED
        BY <3>2, <4>1, <4>4 DEF Rec!Clash
    <3> QED
      BY <3>1, <3>3, <3>4 DEF RecorderInv, Rec!RecordingsAreKept
  <2> QED
    BY <2>1, <2>2
<1> QED
  BY <1>10, <1>11, <1>12, <1>14, <1>15, <1>16, <1>17, <1>18 DEF RecorderInv
\* Other threads' hands, when one is emptied: an ffmpeg that runs stays in reach, if the one
\* that was let go of is its board's entry or does not run.
LEMMA StaysInReach ==
    ASSUME RecorderInv, EndsSome, NEW t \in Requests,
           \A u \in Requests : u # t => recordRequest'[u] = recordRequest[u],
           \A r \in Rec!Recordings :
               Rec!Runs(r)' /\ (entry[recording[r].board] = r \/ recordRequest[t].recording = r) =>
                   \/ entry'[recording[r].board] = r
                   \/ \E u \in Requests : recordRequest'[u].recording = r
    PROVE  Rec!NoStrayRecording'
<1> SUFFICES ASSUME NEW r \in Rec!Recordings, Rec!Runs(r)'
             PROVE  \/ entry'[recording'[r].board] = r
                    \/ \E u \in Requests : recordRequest'[u].recording = r
  BY DEF Rec!NoStrayRecording
<1>1. Rec!Runs(r) /\ recording'[r].board = recording[r].board
  BY DEF EndsSome
<1>2. CASE entry[recording[r].board] = r
  BY <1>1, <1>2
<1>3. ASSUME NEW u \in Requests, recordRequest[u].recording = r
      PROVE  \/ entry'[recording[r].board] = r
             \/ \E v \in Requests : recordRequest'[v].recording = r
  BY <1>3
<1> QED
  BY <1>1, <1>2, <1>3 DEF RecorderInv, Rec!NoStrayRecording

\* A step that registers nothing and lets no thread settle keeps the boards of those who do.
LEMMA StillSettles ==
    ASSUME RecorderInv, EndsSome, recorded' = recorded,
           \A b \in Boards : entry'[b] = entry[b] \/ entry'[b] = None,
           \A u \in Requests : recordRequest'[u].at = "settle" =>
                                   recordRequest'[u] = recordRequest[u] /\ recordLock' = recordLock
    PROVE  SettlesAlone' /\ EntriesMatch'
<1>1. \A b \in Boards : entry[b] \in Rec!Recordings \cup {None}
  BY RecorderFields DEF RecorderInv
<1>2. ASSUME NEW b \in Boards, Rec!Active(b)'
      PROVE  Rec!Active(b)
  <2> DEFINE r == entry[b]
  <2>1. entry'[b] # None /\ recording'[entry'[b]].process = "runs"
    BY <1>2 DEF Rec!Active, Rec!Runs
  <2>2. entry'[b] = r /\ r \in Rec!Recordings
    BY <1>1, <2>1
  <2> HIDE DEF r
  <2>3. recording'[r].process = "runs" => recording[r].process = "runs"
    BY <2>2 DEF EndsSome, Rec!Runs
  <2> QED
    BY <2>1, <2>2, <2>3 DEF Rec!Active, Rec!Runs, r
<1>3. ASSUME NEW u \in Requests, recordRequest'[u].at = "settle"
      PROVE  /\ recordLock' = u
             /\ ~Rec!Active(recording[recordRequest[u].recording].board)'
  <2> DEFINE r == recordRequest[u].recording
  <2>1. recordRequest[u].at = "settle" /\ recordRequest'[u].recording = r
    BY <1>3
  <2>2. recordLock = u /\ ~Rec!Active(recording[r].board)
    BY <2>1 DEF RecorderInv, SettlesAlone
  <2>3. r \in Rec!Recordings /\ recording[r].board \in Boards
    BY <2>1, HeldHasBegun
  <2>4. recording'[r].board = recording[r].board
    BY <2>3 DEF EndsSome
  <2>5. ~Rec!Active(recording[r].board)'
    <3> DEFINE b == recording[r].board
    <3>1. b \in Boards /\ ~Rec!Active(b) /\ recording'[recordRequest'[u].recording].board = b
      BY <2>1, <2>2, <2>3, <2>4
    <3>2. ~(entry'[b] # None /\ recording'[entry'[b]].process = "runs")
      <4> HIDE DEF b
      <4> QED
        BY <1>2, <3>1 DEF Rec!Active, Rec!Runs
    <3> QED
      BY <2>1, <3>1, <3>2 DEF Rec!Active, Rec!Runs
  <2> QED
    BY <1>3, <2>2, <2>5
<1>4. SettlesAlone'
  BY <1>3 DEF SettlesAlone
<1>5. EntriesMatch'
  BY <1>1 DEF RecorderInv, EntriesMatch, EndsSome
<1> QED
  BY <1>4, <1>5

LEMMA RecorderStep ==
    ASSUME RecorderInv, [Rec!Next]_records
    PROVE  RecorderInv'
<1> USE RecordNone
<1>0. /\ entry \in [Boards -> Rec!Recordings \cup {None}]
      /\ recording \in [Rec!Recordings -> RecordingRow]
      /\ recordLock \in Requests \cup {None} /\ recordRequest \in [Requests -> HttpRow]
      /\ files \subseteq Rec!Files /\ owed \subseteq Rec!Recordings
      /\ second \in 0..MaxSecond /\ recorded \in 0..MaxRecordings
      /\ recordFaults \in 0..MaxRecordFaults
  BY RecorderFields DEF RecorderInv
<1>1. ASSUME NEW t \in Requests, NEW b \in Boards, Rec!Start(t, b)
      PROVE  RecorderInv'
  BY <1>1, RecorderStart
\* The file of the start that failed goes; a recording that loses it had a name in common.
<1>2. ASSUME NEW t \in Requests, Rec!StartFails(t)
      PROVE  RecorderInv'
  <2> DEFINE r == recordRequest[t].recording
  <2>1. /\ recordRequest[t].at = "settle" /\ ~Rec!Runs(r) /\ files' = files \ {recording[r].file}
        /\ owed' = owed \ {r} /\ recordLock' = None
        /\ recordRequest' = [recordRequest EXCEPT ![t] = Rec!Idle]
        /\ UNCHANGED <<entry, recording, second, recorded, recordFaults>>
    BY <1>2 DEF Rec!StartFails
  <2>2. r \in Rec!Recordings
    BY <2>1, HeldHasBegun
  <2>3. EndsSome
    BY <2>1, NobodyEnds
  <2>4. /\ recordRequest' \in [Requests -> HttpRow] /\ InHand' /\ recordRequest'[t] = Rec!Idle
        /\ \A u \in Requests : u # t => recordRequest'[u] = recordRequest[u]
    BY <2>1, HandEmpty
  <2> HIDE DEF r
  <2>5. Rec!TypeOK'
    BY <1>0, <2>1, <2>4 DEF Rec!TypeOK, RecordingRow, HttpRow
  <2>6. Begun' /\ owed' \subseteq 1..recorded' /\ Rec!RecordingsAreKept'
    <3>1. \A q \in owed' : recording[q].file \in files =>
                               recording[q].file \in files' \/ Rec!Clash(q)
      BY <2>1, <2>2 DEF Rec!Clash
    <3> QED
      BY <2>1, <2>3, <3>1, KeptOn
  <2>7. SettlesAlone' /\ EntriesMatch'
    <3>1. \A u \in Requests : recordRequest'[u].at # "settle"
      BY <2>1, <2>4 DEF RecorderInv, SettlesAlone
    <3> QED
      BY <2>1, <2>3, <3>1, StillSettles
  <2>8. Rec!NoStrayRecording'
    <3>1. \A q \in Rec!Recordings : Rec!Runs(q)' => q # r
      BY <2>1 DEF Rec!Runs
    <3> QED
      BY <2>1, <2>3, <2>4, <3>1, StaysInReach DEF r
  <2> QED
    BY <2>4, <2>5, <2>6, <2>7, <2>8 DEF RecorderInv
\* The thread hands its ffmpeg over to the board's entry, where none runs.
<1>3. ASSUME NEW t \in Requests, Rec!Started(t)
      PROVE  RecorderInv'
  <2> DEFINE r == recordRequest[t].recording
             b == recording[r].board
  <2>1. /\ recordRequest[t].at = "settle" /\ Rec!Runs(r) /\ entry' = [entry EXCEPT ![b] = r]
        /\ recordLock' = None /\ recordRequest' = [recordRequest EXCEPT ![t] = Rec!Idle]
        /\ UNCHANGED <<recording, files, owed, second, recorded, recordFaults>>
    BY <1>3 DEF Rec!Started
  <2>2. r \in Rec!Recordings /\ r \in 1..recorded /\ b \in Boards
    BY <2>1, HeldHasBegun
  <2>3. EndsSome
    BY <2>1, NobodyEnds
  <2>4. /\ recordRequest' \in [Requests -> HttpRow] /\ InHand' /\ recordRequest'[t] = Rec!Idle
        /\ \A u \in Requests : u # t => recordRequest'[u] = recordRequest[u]
    BY <2>1, HandEmpty
  <2>5. ~Rec!Active(b)
    BY <2>1 DEF RecorderInv, SettlesAlone
  <2>6. /\ entry' \in [Boards -> Rec!Recordings \cup {None}] /\ entry'[b] = r
        /\ \A c \in Boards : c # b => entry'[c] = entry[c]
    <3> HIDE DEF r, b
    <3> QED
      BY <1>0, <2>1, <2>2
  <2>7. Rec!TypeOK'
    BY <1>0, <2>1, <2>4, <2>6 DEF Rec!TypeOK, RecordingRow, HttpRow
  <2>8. Begun' /\ owed' \subseteq 1..recorded' /\ Rec!RecordingsAreKept'
    BY <2>1, <2>3, KeptOn
  <2>9. SettlesAlone'
    <3>1. \A u \in Requests : recordRequest'[u].at # "settle"
      BY <2>1, <2>4 DEF RecorderInv, SettlesAlone
    <3> QED
      BY <3>1 DEF SettlesAlone
  <2>10. EntriesMatch'
    <3> SUFFICES ASSUME NEW c \in Boards, entry'[c] # None
                 PROVE  entry'[c] <= recorded /\ recording[entry'[c]].board = c
      BY <2>1 DEF EntriesMatch
    <3>1. CASE c = b
      BY <1>0, <2>2, <2>6, <3>1
    <3>2. CASE c # b
      BY <2>6, <3>2 DEF RecorderInv, EntriesMatch
    <3> QED
      BY <3>1, <3>2
  <2>11. Rec!NoStrayRecording'
    <3>1. ASSUME NEW q \in Rec!Recordings, Rec!Runs(q)',
                 entry[recording[q].board] = q \/ recordRequest[t].recording = q
          PROVE  entry'[recording[q].board] = q
      <4>1. CASE q = r
        BY <2>6, <4>1
      <4>2. CASE q # r
        <5>1. entry[recording[q].board] = q /\ Rec!Runs(q)
          BY <2>1, <3>1, <4>2 DEF Rec!Runs
        <5>2. recording[q].board \in Boards
          <6>1. q <= recorded
            <7> SUFFICES ASSUME ~(q <= recorded)
                         PROVE  FALSE
              OBVIOUS
            <7>1. recording[q] = Rec!Fresh
              BY DEF RecorderInv, Begun
            <7> QED
              BY <5>1, <7>1 DEF Rec!Runs
          <6> QED
            BY <6>1 DEF RecorderInv, Begun
        <5>3. recording[q].board # b
          <6> SUFFICES ASSUME recording[q].board = b
                       PROVE  FALSE
            OBVIOUS
          <6>1. entry[b] = q /\ q # None
            BY <5>1
          <6> QED
            BY <2>5, <5>1, <6>1 DEF Rec!Active
        <5> QED
          BY <2>6, <5>1, <5>2, <5>3
      <4> QED
        BY <4>1, <4>2
    <3> QED
      BY <2>3, <2>4, <3>1, StaysInReach
  <2> QED
    BY <2>4, <2>7, <2>8, <2>9, <2>10, <2>11 DEF RecorderInv
<1>4. ASSUME NEW t \in Requests, NEW b \in Boards, Rec!Stop(t, b)
      PROVE  RecorderInv'
  <2>1. /\ recordRequest[t] = Rec!Idle /\ recordLock = None /\ entry[b] # None
        /\ entry' = [entry EXCEPT ![b] = None]
        /\ recordRequest' = [recordRequest EXCEPT ![t] = [at |-> "end", recording |-> entry[b]]]
        /\ UNCHANGED <<recording, recordLock, files, owed, second, recorded, recordFaults>>
    BY <1>4 DEF Rec!Stop, Rec!Free
  <2>2. entry[b] \in Rec!Recordings /\ entry[b] <= recorded /\ recorded \in Nat
    BY <1>0, <2>1 DEF RecorderInv, EntriesMatch
  <2>3. EndsSome
    BY <2>1, NobodyEnds
  <2>4. /\ recordRequest' \in [Requests -> HttpRow] /\ InHand'
        /\ recordRequest'[t].at = "end" /\ recordRequest'[t].recording = entry[b]
        /\ \A u \in Requests : u # t => recordRequest'[u] = recordRequest[u]
    <3>1. recorded' = recorded /\ recorded <= recorded'
      BY <2>1, <2>2
    <3> DEFINE r == entry[b]
    <3>2. /\ r \in Rec!Recordings /\ r <= recorded' /\ recorded' \in Nat
          /\ recordRequest' = [recordRequest EXCEPT ![t] = [at |-> "end", recording |-> r]]
      BY <2>1, <2>2, <3>1
    <3> HIDE DEF r
    <3>3. /\ recordRequest' \in [Requests -> HttpRow] /\ InHand'
          /\ recordRequest'[t].at = "end" /\ recordRequest'[t].recording = r
          /\ \A u \in Requests : u # t => recordRequest'[u] = recordRequest[u]
      BY <2>2, <3>1, <3>2, HandTakes
    <3> QED
      BY <3>3 DEF r
  <2>5. /\ entry' \in [Boards -> Rec!Recordings \cup {None}]
        /\ \A c \in Boards : c # b => entry'[c] = entry[c]
        /\ entry'[b] = None
    BY <1>0, <2>1
  <2>6. Rec!TypeOK'
    BY <1>0, <2>1, <2>4, <2>5 DEF Rec!TypeOK, RecordingRow, HttpRow
  <2>7. Begun' /\ owed' \subseteq 1..recorded' /\ Rec!RecordingsAreKept'
    BY <2>1, <2>3, KeptOn
  <2>8. SettlesAlone' /\ EntriesMatch'
    <3>1. \A u \in Requests : recordRequest'[u].at # "settle"
      BY <2>1, <2>4 DEF RecorderInv, SettlesAlone
    <3>2. \A c \in Boards : entry'[c] = entry[c] \/ entry'[c] = None
      BY <2>5
    <3> QED
      BY <2>1, <2>3, <3>1, <3>2, StillSettles
  <2>9. Rec!NoStrayRecording'
    <3>1. ASSUME NEW r \in Rec!Recordings,
                 entry[recording[r].board] = r \/ recordRequest[t].recording = r
          PROVE  \/ entry'[recording[r].board] = r
                 \/ \E u \in Requests : recordRequest'[u].recording = r
      <4>1. recordRequest[t].recording # r
        BY <2>1
      <4>2. entry[recording[r].board] = r
        BY <3>1, <4>1
      <4>3. CASE r = entry[b]
        BY <2>4, <4>3
      <4>4. CASE r # entry[b]
        <5>1. recording[r].board # b
          BY <4>2, <4>4
        <5> QED
          BY <1>0, <2>1, <4>2, <5>1
      <4> QED
        BY <4>3, <4>4
    <3> QED
      BY <2>3, <2>4, <3>1, StaysInReach
  <2> QED
    BY <2>4, <2>6, <2>7, <2>8, <2>9 DEF RecorderInv
<1>5. ASSUME NEW t \in Requests, Rec!Stopped(t)
      PROVE  RecorderInv'
  <2> DEFINE r == recordRequest[t].recording
  <2>1. /\ recordRequest[t].at = "end" /\ recording' = [recording EXCEPT ![r].process = "ended"]
        /\ recordRequest' = [recordRequest EXCEPT ![t] = Rec!Idle]
        /\ UNCHANGED <<entry, recordLock, files, owed, second, recorded, recordFaults>>
    BY <1>5 DEF Rec!Stopped
  <2>2. r \in 1..recorded
    BY <2>1, HeldHasBegun
  <2> HIDE DEF r
  <2>3. EndsSome /\ recording'[r].process # "runs"
    <3>1. PICK x \in 1..recorded : x = r
      BY <2>2
    <3> QED
      BY <2>1, <3>1, OneEnds DEF Rec!Runs
  <2>4. /\ recordRequest' \in [Requests -> HttpRow] /\ InHand' /\ recordRequest'[t] = Rec!Idle
        /\ \A u \in Requests : u # t => recordRequest'[u] = recordRequest[u]
    BY <2>1, HandEmpty
  <2>5. Rec!TypeOK'
    BY <1>0, <2>1, <2>3, <2>4 DEF EndsSome, Rec!TypeOK, RecordingRow, HttpRow
  <2>6. Begun' /\ owed' \subseteq 1..recorded' /\ Rec!RecordingsAreKept'
    BY <2>1, <2>3, KeptOn
  <2>7. SettlesAlone' /\ EntriesMatch'
    <3>1. \A u \in Requests : recordRequest'[u].at = "settle" =>
                                  recordRequest'[u] = recordRequest[u] /\ recordLock' = recordLock
      BY <2>1, <2>4
    <3> QED
      BY <2>1, <2>3, <3>1, StillSettles
  <2>8. Rec!NoStrayRecording'
    <3>1. \A q \in Rec!Recordings : Rec!Runs(q)' => q # r
      BY <2>3 DEF Rec!Runs
    <3> QED
      BY <2>1, <2>3, <2>4, <3>1, StaysInReach DEF r
  <2> QED
    BY <2>4, <2>5, <2>6, <2>7, <2>8 DEF RecorderInv
<1>6. ASSUME NEW t \in Requests, NEW b \in Boards, Rec!Status(t, b)
      PROVE  RecorderInv'
  <2>1. /\ recordLock = None /\ entry[b] # None /\ ~Rec!Runs(entry[b])
        /\ entry' = [entry EXCEPT ![b] = None]
        /\ UNCHANGED <<recording, recordLock, recordRequest, files, owed, second, recorded,
                       recordFaults>>
    BY <1>6 DEF Rec!Status, Rec!Free
  <2>2. EndsSome
    BY <2>1, NobodyEnds
  <2>3. /\ entry' \in [Boards -> Rec!Recordings \cup {None}]
        /\ \A c \in Boards : c # b => entry'[c] = entry[c]
        /\ entry'[b] = None
    BY <1>0, <2>1
  <2>4. Rec!TypeOK'
    BY <1>0, <2>1, <2>3 DEF Rec!TypeOK, RecordingRow, HttpRow
  <2>5. Begun' /\ owed' \subseteq 1..recorded' /\ Rec!RecordingsAreKept'
    BY <2>1, <2>2, KeptOn
  <2>6. SettlesAlone' /\ EntriesMatch'
    <3>1. \A c \in Boards : entry'[c] = entry[c] \/ entry'[c] = None
      BY <2>3
    <3> QED
      BY <2>1, <2>2, <3>1, StillSettles
  <2>7. InHand'
    BY <2>1 DEF RecorderInv, InHand
  <2>8. Rec!NoStrayRecording'
    <3> SUFFICES ASSUME NEW r \in Rec!Recordings, Rec!Runs(r)'
                 PROVE  \/ entry'[recording'[r].board] = r
                        \/ \E u \in Requests : recordRequest'[u].recording = r
      BY DEF Rec!NoStrayRecording
    <3>1. Rec!Runs(r)
      BY <2>1 DEF Rec!Runs
    <3>2. CASE entry[recording[r].board] = r
      <4>1. recording[r].board # b
        BY <2>1, <3>1, <3>2
      <4> QED
        BY <1>0, <2>1, <3>2, <4>1
    <3>3. CASE \E u \in Requests : recordRequest[u].recording = r
      BY <2>1, <3>3
    <3> QED
      BY <3>1, <3>2, <3>3 DEF RecorderInv, Rec!NoStrayRecording
  <2> QED
    BY <2>4, <2>5, <2>6, <2>7, <2>8 DEF RecorderInv
\* What ends, breaks off, is deleted or goes by: entries and hands stay as they are.
<1>7. ASSUME EndsSome, files' \subseteq Rec!Files, owed' \subseteq owed,
             UNCHANGED <<entry, recordLock, recordRequest, recorded>>,
             second' \in 0..MaxSecond, recordFaults' \in 0..MaxRecordFaults,
             \A q \in owed' : recording[q].file \in files => recording[q].file \in files'
      PROVE  RecorderInv'
  <2>1. owed' \subseteq Rec!Recordings
    BY <1>0, <1>7
  <2>2. Rec!TypeOK'
    BY <1>0, <1>7, <2>1 DEF EndsSome, Rec!TypeOK, RecordingRow, HttpRow
  <2>3. Begun' /\ owed' \subseteq 1..recorded' /\ Rec!RecordingsAreKept'
    BY <1>7, KeptOn
  <2>4. SettlesAlone' /\ EntriesMatch'
    BY <1>7, StillSettles
  <2>5. InHand'
    BY <1>7 DEF RecorderInv, InHand
  <2>6. Rec!NoStrayRecording'
    BY <1>7 DEF EndsSome, RecorderInv, Rec!NoStrayRecording
  <2> QED
    BY <2>2, <2>3, <2>4, <2>5, <2>6 DEF RecorderInv
<1>8. ASSUME NEW r \in Rec!Recordings, Rec!Dies(r)
      PROVE  RecorderInv'
  <2>1. r \in 1..recorded
    <3> SUFFICES ASSUME ~(r <= recorded)
                 PROVE  FALSE
      BY DEF Rec!Recordings
    <3>1. recording[r] = Rec!Fresh
      BY DEF RecorderInv, Begun
    <3> QED
      BY <1>8, <3>1 DEF Rec!Dies, Rec!Runs
  <2>2. EndsSome
    BY <1>8, <2>1, OneEnds DEF Rec!Dies
  <2>3. recordFaults' \in 0..MaxRecordFaults
    BY <1>0, <1>8, RecordFaultsCount DEF Rec!Dies
  <2> QED
    BY <1>0, <1>7, <1>8, <2>2, <2>3 DEF Rec!Dies
<1>9. ASSUME NEW b \in Boards, Rec!DeleteBoard(b)
      PROVE  RecorderInv'
  <2>1. EndsSome
    BY <1>9, NobodyEnds DEF Rec!DeleteBoard
  <2>2. recordFaults' \in 0..MaxRecordFaults
    BY <1>0, <1>9, RecordFaultsCount DEF Rec!DeleteBoard
  <2>3. /\ files' \subseteq Rec!Files /\ owed' \subseteq owed
        /\ \A q \in owed' : recording[q].file \in files => recording[q].file \in files'
    BY <1>0, <1>9 DEF Rec!DeleteBoard
  <2> QED
    BY <1>0, <1>7, <1>9, <2>1, <2>2, <2>3 DEF Rec!DeleteBoard
<1>10. CASE Rec!Restart
  <2>1. /\ recording' = [r \in Rec!Recordings |-> IF Rec!Runs(r)
                            THEN [recording[r] EXCEPT !.process = "ended"] ELSE recording[r]]
        /\ entry' = [b \in Boards |-> None] /\ recordLock' = None
        /\ recordRequest' = [t \in Requests |-> Rec!Idle]
        /\ UNCHANGED <<files, owed, second, recorded>>
    BY <1>10 DEF Rec!Restart
  <2>2. ASSUME NEW r \in Rec!Recordings
        PROVE  /\ recording'[r] \in RecordingRow /\ ~Rec!Runs(r)'
               /\ recording'[r].board = recording[r].board
               /\ recording'[r].file = recording[r].file
               /\ recording[r] = Rec!Fresh => recording'[r] = Rec!Fresh
    <3>1. recording[r] \in RecordingRow
      BY <1>0
    <3>2. CASE Rec!Runs(r)
      <4>1. recording'[r] = [recording[r] EXCEPT !.process = "ended"]
        BY <2>1, <3>2
      <4> QED
        BY <3>1, <3>2, <4>1 DEF Rec!Runs, RecordingRow
    <3>3. CASE ~Rec!Runs(r)
      <4>1. recording'[r] = recording[r]
        BY <2>1, <3>3
      <4> QED
        BY <3>1, <3>3, <4>1 DEF Rec!Runs
    <3> QED
      BY <3>2, <3>3
  <2>3. recording' = [r \in Rec!Recordings |-> recording'[r]]
    BY <2>1
  <2>4. EndsSome
    BY <2>2, <2>3 DEF EndsSome
  <2>5. recordFaults' \in 0..MaxRecordFaults
    BY <1>0, <1>10, RecordFaultsCount DEF Rec!Restart
  <2>6. /\ entry' \in [Boards -> Rec!Recordings \cup {None}]
        /\ recordRequest' \in [Requests -> HttpRow]
        /\ \A t \in Requests : recordRequest'[t] = Rec!Idle
    BY <2>1
  <2>7. Rec!TypeOK'
    BY <1>0, <2>1, <2>4, <2>5, <2>6 DEF EndsSome, Rec!TypeOK, RecordingRow, HttpRow
  <2>8. Begun' /\ owed' \subseteq 1..recorded' /\ Rec!RecordingsAreKept'
    BY <2>1, <2>4, KeptOn
  <2>9. SettlesAlone' /\ EntriesMatch' /\ InHand'
    BY <2>1, <2>6 DEF SettlesAlone, EntriesMatch, InHand
  <2>10. Rec!NoStrayRecording'
    BY <2>2 DEF Rec!NoStrayRecording
  <2> QED
    BY <2>7, <2>8, <2>9, <2>10 DEF RecorderInv
<1>11. CASE Rec!Tick \/ UNCHANGED records
  <2>1. recording' = recording
    BY <1>11 DEF Rec!Tick, records
  <2>2. EndsSome
    BY <2>1, NobodyEnds
  <2>3. second' \in 0..MaxSecond
    BY <1>0, <1>11 DEF Rec!Tick, records
  <2>4. UNCHANGED <<entry, recordLock, recordRequest, recorded, files, owed, recordFaults>>
    BY <1>11 DEF Rec!Tick, records
  <2> QED
    BY <1>0, <1>7, <2>2, <2>3, <2>4
<1> QED
  BY <1>1, <1>2, <1>3, <1>4, <1>5, <1>6, <1>8, <1>9, <1>10, <1>11 DEF Rec!Next

LEMMA RecorderInvInit ==
    ASSUME Rec!Init
    PROVE  RecorderInv
<1> USE RecordNone
<1>1. /\ entry \in [Boards -> Rec!Recordings \cup {None}] /\ \A b \in Boards : entry[b] = None
      /\ recording \in [Rec!Recordings -> RecordingRow]
      /\ \A r \in Rec!Recordings : recording[r] = Rec!Fresh
      /\ recordLock = None /\ recordRequest \in [Requests -> HttpRow]
      /\ \A t \in Requests : recordRequest[t] = Rec!Idle
      /\ files = {} /\ owed = {} /\ second = 0 /\ recorded = 0 /\ recordFaults = 0
  BY DEF Rec!Init
<1>2. Rec!TypeOK
  BY <1>1, RecorderFields
<1>3. Begun
  BY <1>1 DEF Begun, Rec!Recordings
<1>4. InHand /\ SettlesAlone /\ EntriesMatch /\ owed \subseteq 1..recorded
  BY <1>1 DEF InHand, SettlesAlone, EntriesMatch
<1>5. Rec!NoStrayRecording /\ Rec!RecordingsAreKept
  BY <1>1 DEF Rec!NoStrayRecording, Rec!RecordingsAreKept, Rec!Runs
<1> QED
  BY <1>2, <1>3, <1>4, <1>5 DEF RecorderInv

\* A recording that has begun keeps its file, whatever is started, stopped, asked about or
\* breaks off meanwhile, but for another of its name (recording_service.py:66).
THEOREM FilesAreKept == PartsSpec => []RecordingsAreKept
<1>1. PartsInit => RecorderInv
  BY RecorderInvInit DEF PartsInit
<1>2. RecorderInv /\ [PartsNext]_allVars => RecorderInv'
  BY RecorderOrNot, RecorderStep
<1>3. RecorderInv => RecordingsAreKept
  BY DEF RecorderInv, RecordingsAreKept
<1> QED
  BY <1>1, <1>2, <1>3, PTL DEF PartsSpec, allVars

\* No vision worker reads the stream, and no ffmpeg records, out of reach of stop().
THEOREM NothingOutOfReach == PartsSpec => []NoOrphan
<1>1. PartsInit => VisionInv /\ RecorderInv
  BY VisionInvInit, RecorderInvInit DEF PartsInit
<1>2. VisionInv /\ RecorderInv /\ [PartsNext]_allVars => (VisionInv /\ RecorderInv)'
  BY VisionOrNot, VisionStep, RecorderOrNot, RecorderStep
<1>3. VisionInv /\ RecorderInv => NoOrphan
  BY DEF VisionInv, RecorderInv, NoOrphan
<1> QED
  BY <1>1, <1>2, <1>3, PTL DEF PartsSpec, allVars
=============================================================================
