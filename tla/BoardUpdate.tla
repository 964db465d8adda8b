------------------------------ MODULE BoardUpdate ----------------------------
(***************************************************************************)
(* Updating a board: request threads of the admin server build a package    *)
(* (git archive into a cache) and post it to the board's manager; the       *)
(* manager starts a transient unit whose script downloads, checks and       *)
(* installs the package; the installation stops and restarts the manager,   *)
(* which registers again and reports its version.                           *)
(*                                                                          *)
(* A file that is being written is followed through its path and through    *)
(* the handles of its writers: a rename moves it under them, and a second   *)
(* writer that opens the same path truncates it.  All writers of a package  *)
(* write the same bytes, so it is whole once the last to open it is done.   *)
(***************************************************************************)
EXTENDS Naturals

CONSTANTS
    Threads,    \* request threads of the admin server
    LastVersion, \* bound: commits are numbered, a board starts with the oldest
    None,
    MaxPushes,  \* bound: requests to update the board
    MaxFaults   \* bound: failures of git, of the network, of an installer; reboots

ASSUME BoardUpdateAssumption ==
    /\ LastVersion \in Nat \ {0}
    /\ None \notin Nat \cup Threads
    /\ MaxPushes \in Nat /\ MaxFaults \in Nat

VARIABLES
    main,     \* origin/main
    tmp,      \* <ref>.tar.tmp in the cache: its content, and who opened it last
    final,    \* <ref>.tar.gz
    thread,   \* a push_update: its step, the commit, the hash, where its handle leads
    manager,  \* sirena-manager: "down", "starting" or "up", its version, registered
    row,      \* the version in the server's row of the board, None: no row
    status,   \* sirena_update_status.json
    unit,     \* sirena-update: the script's step, its arguments, what it downloaded
    env,      \* SIRENA_VERSION in /opt/sirena/.env
    code,     \* the version of the code in place
    cut,      \* history: a script ended without writing a last status
    shared,   \* history: two threads wrote one file
    pushes, faults

server == <<main, tmp, final, shared>>
board == <<status, unit, env, code, cut>>
vars == <<server, thread, manager, row, board, pushes, faults>>

Versions == 1..LastVersion
Running == {"downloading", "installing"}
Failed == {"failed_no_env", "failed_download", "failed_checksum", "failed_install"}
Installing == {"stop", "env", "modules", "code", "restart"}  \* install_rpi.sh runs
Idle == [pc |-> "idle", ref |-> None, sha |-> "none", to |-> "gone"]
NoUnit == [pc |-> "none", ref |-> None, sha |-> "none", got |-> "none"]
Content == {"none", "broken", "whole"}
NoFile == [is |-> "none", by |-> None]

TypeOK ==
    /\ main \in Versions /\ env \in Versions /\ code \in Versions
    /\ tmp \in [Versions -> [is : Content, by : Threads \cup {None}]]
    /\ final \in [Versions -> [is : Content, by : Threads \cup {None}]]
    /\ thread \in [Threads ->
           [pc : {"idle", "check", "open", "write", "rename", "hash", "post", "sudo"},
            ref : Versions \cup {None}, sha : Content, to : {"tmp", "final", "gone"}]]
    /\ manager \in [is : {"down", "starting", "up"}, version : Versions, registered : BOOLEAN]
    /\ row \in Versions \cup {None}
    /\ status \in [is : Running \cup Failed \cup {"idle", "done"}, ref : Versions \cup {None}]
    /\ unit \in [pc : {"none", "begin", "download", "verify", "tar", "stop", "env", "modules",
                       "code", "restart", "end"},
                 ref : Versions \cup {None}, sha : Content, got : Content]
    /\ cut \in BOOLEAN /\ shared \in BOOLEAN
    /\ pushes \in 0..MaxPushes /\ faults \in 0..MaxFaults

Init ==
    /\ main = 1
    /\ tmp = [v \in Versions |-> NoFile] /\ final = [v \in Versions |-> NoFile]
    /\ thread = [t \in Threads |-> Idle]
    /\ manager = [is |-> "starting", version |-> 1, registered |-> FALSE]
    /\ row = None
    /\ status = [is |-> "idle", ref |-> None] /\ unit = NoUnit
    /\ env = 1 /\ code = 1
    /\ cut = FALSE /\ shared = FALSE
    /\ pushes = 0 /\ faults = 0

Fault == faults < MaxFaults /\ faults' = faults + 1

-----------------------------------------------------------------------------
(* The server: one push_update, step by step *)

(* Someone merges. *)
Merge ==
    /\ main + 1 \in Versions /\ main' = main + 1
    /\ UNCHANGED <<tmp, final, shared, thread, manager, row, board, pushes, faults>>

(* _latest_ref: origin/main, or the server's own checkout when git fails. *)
Push(t) ==
    /\ thread[t].pc = "idle" /\ pushes < MaxPushes /\ pushes' = pushes + 1
    /\ \/ thread' = [thread EXCEPT ![t].pc = "check", ![t].ref = main] /\ UNCHANGED faults
       \/ Fault /\ thread' = [thread EXCEPT ![t].pc = "check", ![t].ref = 1]
    /\ UNCHANGED <<server, manager, row, board>>

Goto(t, pc) == thread' = [thread EXCEPT ![t].pc = pc]

(* A cached package is taken as it is. *)
Check(t) ==
    /\ thread[t].pc = "check"
    /\ Goto(t, IF final[thread[t].ref].is = "none" THEN "open" ELSE "hash")
    /\ UNCHANGED <<server, manager, row, board, pushes, faults>>

(* Slip: the archive is written under its own name. *)
SlipOpen(t) ==
    LET r == thread[t].ref
    IN  /\ thread[t].pc = "open"
        /\ thread' = [thread EXCEPT ![t].pc = "write", ![t].to = "final"]
        /\ final' = [final EXCEPT ![r] = [is |-> "broken", by |-> t]]
        /\ tmp' = [tmp EXCEPT ![r] = [is |-> "broken", by |-> t]]
        /\ UNCHANGED <<main, shared, manager, row, board, pushes, faults>>

(* open(tmp_path, "wb") truncates what another thread is writing. *)
Open(t) ==
    LET r == thread[t].ref
    IN  /\ thread[t].pc = "open"
        /\ thread' = [thread EXCEPT ![t].pc = "write", ![t].to = "tmp"]
        /\ tmp' = [tmp EXCEPT ![r] = [is |-> "broken", by |-> t]]
        /\ shared' = (shared \/ \E u \in Threads :
                                    thread[u].pc \in {"write", "rename"} /\ thread[u].ref = r)
        /\ UNCHANGED <<main, final, manager, row, board, pushes, faults>>

Written(file, t) == IF file.by = t THEN [is |-> "whole", by |-> None] ELSE file

Write(t) ==
    LET r == thread[t].ref
    IN  /\ thread[t].pc = "write"
        /\ Goto(t, "rename")
        /\ tmp' = IF thread[t].to = "tmp" THEN [tmp EXCEPT ![r] = Written(@, t)] ELSE tmp
        /\ final' = IF thread[t].to = "final" THEN [final EXCEPT ![r] = Written(@, t)] ELSE final
        /\ UNCHANGED <<main, shared, manager, row, board, pushes, faults>>

(* Where the handles of r lead after the file at tmp has moved or gone. *)
Moved(r, where) ==
    [u \in Threads |->
        IF thread[u].ref # r \/ thread[u].pc # "write" THEN thread[u]
        ELSE [thread[u] EXCEPT !.to = CASE @ = "tmp" -> where
                                        [] @ = "final" /\ where = "final" -> "gone"
                                        [] OTHER -> @]]

(* The rename takes whatever the path holds; without a file the push fails. *)
Rename(t) ==
    LET r == thread[t].ref
    IN  /\ thread[t].pc = "rename"
        /\ IF tmp[r].is = "none"
           THEN /\ thread' = [thread EXCEPT ![t] = Idle]
                /\ UNCHANGED <<tmp, final>>
           ELSE /\ final' = [final EXCEPT ![r] = tmp[r]]
                /\ tmp' = [tmp EXCEPT ![r] = NoFile]
                /\ thread' = [Moved(r, "final") EXCEPT ![t].pc = "hash"]
        /\ UNCHANGED <<main, shared, manager, row, board, pushes, faults>>

Left(file, t) == IF file.by = t THEN [file EXCEPT !.by = None] ELSE file

(* git fails or takes longer than a minute: the file at tmp is removed. *)
BuildFails(t) ==
    LET r == thread[t].ref
    IN  /\ thread[t].pc = "write" /\ Fault
        /\ tmp' = [tmp EXCEPT ![r] = NoFile]
        /\ final' = [final EXCEPT ![r] = Left(@, t)]
        /\ thread' = [Moved(r, "gone") EXCEPT ![t] = Idle]
        /\ UNCHANGED <<main, shared, manager, row, board, pushes>>

(* The server restarts; what was being written stays as it is. *)
ServerRestart ==
    /\ Fault
    /\ thread' = [t \in Threads |-> Idle]
    /\ tmp' = [v \in Versions |-> [tmp[v] EXCEPT !.by = None]]
    /\ final' = [v \in Versions |-> [final[v] EXCEPT !.by = None]]
    /\ UNCHANGED <<main, shared, manager, row, board, pushes>>

Hash(t) ==
    /\ thread[t].pc = "hash"
    /\ thread' = [thread EXCEPT ![t].pc = "post", ![t].sha = final[thread[t].ref].is]
    /\ UNCHANGED <<server, manager, row, board, pushes, faults>>

(* The board's start_update: refused while the status file says that one is
   running; the post fails while nobody listens.                             *)
Post(t) ==
    /\ thread[t].pc = "post"
    /\ thread' = IF manager.is = "up" /\ status.is \notin Running
                 THEN [thread EXCEPT ![t].pc = "sudo"] ELSE [thread EXCEPT ![t] = Idle]
    /\ UNCHANGED <<server, manager, row, board, pushes, faults>>

(* start_update.sh: systemd refuses a second unit of the name.  A lost answer
   makes the server post to the board's next address.                        *)
Sudo(t) ==
    /\ thread[t].pc = "sudo"
    /\ unit' = IF unit.pc = "none" /\ manager.is = "up"
               THEN [pc |-> "begin", ref |-> thread[t].ref, sha |-> thread[t].sha, got |-> "none"]
               ELSE unit
    /\ \/ thread' = [thread EXCEPT ![t] = Idle] /\ UNCHANGED faults
       \/ Fault /\ Goto(t, "post")
    /\ UNCHANGED <<server, manager, row, status, env, code, cut, pushes>>

-----------------------------------------------------------------------------
(* apply_update.sh and install_rpi.sh on the board *)

Says(s) == status' = [is |-> s, ref |-> unit.ref]
Ends == unit' = NoUnit
Script(from, to) == unit.pc = from /\ unit' = [unit EXCEPT !.pc = to]

(* Bad arguments, no .env, or no server in it: the script says so, and ends. *)
Begin ==
    /\ unit.pc = "begin"
    /\ \/ Script("begin", "download") /\ Says("downloading") /\ UNCHANGED faults
       \/ Fault /\ Says("failed_no_env") /\ Ends
    /\ UNCHANGED <<server, thread, manager, row, env, code, cut, pushes>>

Download ==
    /\ unit.pc = "download"
    /\ \/ /\ final[unit.ref].is # "none"
          /\ unit' = [unit EXCEPT !.pc = "verify", !.got = final[unit.ref].is]
          /\ UNCHANGED <<status, faults>>
       \/ Fault /\ Says("failed_download") /\ Ends
    /\ UNCHANGED <<server, thread, manager, row, env, code, cut, pushes>>

(* Two broken packages may or may not be the same bytes. *)
Verify ==
    /\ unit.pc = "verify"
    /\ \/ unit.got = unit.sha /\ Says("installing") /\ unit' = [unit EXCEPT !.pc = "tar"]
       \/ (unit.got # unit.sha \/ unit.got = "broken") /\ Says("failed_checksum") /\ Ends
    /\ UNCHANGED <<server, thread, manager, row, env, code, cut, pushes, faults>>

(* A failing tar ends the script (set -e) with the status it has. *)
Tar ==
    /\ unit.pc = "tar"
    /\ IF unit.got = "whole"
       THEN unit' = [unit EXCEPT !.pc = "stop"] /\ UNCHANGED cut
       ELSE Ends /\ cut' = TRUE
    /\ UNCHANGED <<server, thread, manager, row, status, env, code, pushes, faults>>

(* Requests the manager was serving end with it. *)
StopManager ==
    /\ Script("stop", "env")
    /\ manager' = [manager EXCEPT !.is = "down"]
    /\ thread' = [t \in Threads |-> IF thread[t].pc = "sudo" THEN Idle ELSE thread[t]]
    /\ UNCHANGED <<server, row, status, env, code, cut, pushes, faults>>

WriteEnv ==
    /\ Script("env", "modules") /\ env' = unit.ref
    /\ UNCHANGED <<server, thread, manager, row, status, code, cut, pushes, faults>>

(* The modules' installers, then the manager's own files and packages. *)
InstallModules ==
    /\ Script("modules", "code") /\ code' = unit.ref
    /\ UNCHANGED <<server, thread, manager, row, status, env, cut, pushes, faults>>

(* Slip: set -e ends the script where the installer failed. *)
SlipInstallFails ==
    /\ unit.pc \in Installing /\ Fault
    /\ Ends
    /\ UNCHANGED <<server, thread, manager, row, status, env, code, cut, pushes>>

(* install_rpi.sh fails at any of its steps, before it stops the manager or
   after, and the script says so; a manager that was stopped stays so.       *)
InstallFails ==
    /\ unit.pc \in Installing /\ Fault
    /\ Says("failed_install") /\ Ends
    /\ UNCHANGED <<server, thread, manager, row, env, code, cut, pushes>>

InstallManager ==
    /\ Script("code", "restart")
    /\ UNCHANGED <<server, thread, manager, row, status, env, code, cut, pushes, faults>>

(* When the boot configuration changed, nothing is restarted (NO_REBOOT). *)
RestartManager ==
    /\ Script("restart", "end")
    /\ \/ /\ manager' = [is |-> "starting", version |-> env, registered |-> FALSE]
          /\ UNCHANGED faults
       \/ Fault /\ UNCHANGED manager
    /\ UNCHANGED <<server, thread, row, status, env, code, cut, pushes>>

Done ==
    /\ unit.pc = "end" /\ Says("done") /\ Ends
    /\ UNCHANGED <<server, thread, manager, row, env, code, cut, pushes, faults>>

(* The board loses power: what is on its disk stays, /tmp may be emptied. *)
Reboot ==
    /\ Fault
    /\ manager' = [is |-> "starting", version |-> env, registered |-> FALSE]
    /\ thread' = [t \in Threads |-> IF thread[t].pc = "sudo" THEN Idle ELSE thread[t]]
    /\ unit' = NoUnit
    /\ \/ status' = [is |-> "idle", ref |-> None] /\ cut' = FALSE
       \/ UNCHANGED status /\ cut' = (cut \/ status.is \in Running)
    /\ UNCHANGED <<server, row, env, code, pushes>>

-----------------------------------------------------------------------------
(* The manager and its row on the server *)

(* ensure_registered: the row is made, or its version renewed. *)
Registers == /\ row' = manager.version
             /\ manager' = [manager EXCEPT !.registered = TRUE,
                                           !.is = "up"]

(* main: one attempt to register, the boot sequence, then the server is up. *)
Start ==
    /\ manager.is = "starting"
    /\ \/ Registers /\ UNCHANGED faults
       \/ Fault /\ manager' = [manager EXCEPT !.is = "up"] /\ UNCHANGED row
    /\ UNCHANGED <<server, thread, board, pushes>>

(* Slip: a board registers once, as it starts. *)
SlipHeartbeat ==
    /\ manager.is = "up" /\ ~manager.registered
    /\ Registers
    /\ UNCHANGED <<server, thread, board, pushes, faults>>

(* _heartbeat_loop: registers when it has to, else reports itself; a board the
   server does not know, or one that cannot reach it, registers again.        *)
Heartbeat ==
    /\ manager.is = "up"
    /\ IF manager.registered
       THEN /\ (row = None /\ UNCHANGED faults) \/ Fault
            /\ manager' = [manager EXCEPT !.registered = FALSE]
            /\ UNCHANGED row
       ELSE Registers /\ UNCHANGED faults
    /\ UNCHANGED <<server, thread, board, pushes>>

(* The administrator deletes the board. *)
DeleteRow ==
    /\ row # None /\ Fault /\ row' = None
    /\ UNCHANGED <<server, thread, manager, board, pushes>>

-----------------------------------------------------------------------------
PushStep(t) == \/ Check(t) \/ Open(t) \/ Write(t) \/ Rename(t) \/ Hash(t) \/ Post(t) \/ Sudo(t)

ScriptStep == \/ Begin \/ Download \/ Verify \/ Tar \/ StopManager \/ WriteEnv
              \/ InstallModules \/ InstallManager \/ RestartManager \/ Done

Next ==
    \/ Merge \/ ServerRestart \/ Reboot \/ DeleteRow \/ InstallFails
    \/ \E t \in Threads : Push(t) \/ PushStep(t) \/ BuildFails(t)
    \/ ScriptStep \/ Start \/ Heartbeat

Fairness ==
    /\ \A t \in Threads : WF_vars(PushStep(t))
    /\ WF_vars(ScriptStep) /\ WF_vars(Start) /\ WF_vars(Heartbeat)

Spec == Init /\ [][Next]_vars /\ Fairness

-----------------------------------------------------------------------------
(***************************************************************************)
(* A package that stays in the cache is whole, however its builders were    *)
(* killed, unless two of them wrote one file (update_service.py:120): then  *)
(* the one that opened it last may fail after the other's rename.           *)
(***************************************************************************)
PackageIsWhole ==
    ~shared => \A v \in Versions : final[v].is # "broken"

(***************************************************************************)
(* The status file tells the truth: it says that an update runs only while  *)
(* the script does, unless the script was cut off (apply_update.sh:73), and *)
(* it says "done" only with that commit's code in place.                    *)
(***************************************************************************)
StatusIsTrue ==
    /\ status.is \in Running => unit.pc # "none" \/ cut
    /\ status.is = "done" => code = status.ref
    /\ unit.pc \notin {"none", "begin"} => status = [is |-> IF unit.pc \in {"download", "verify"}
                                                            THEN "downloading" ELSE "installing",
                                                     ref |-> unit.ref]

(***************************************************************************)
(* Whatever was installed, deleted or lost, a board whose manager runs ends *)
(* with its version in the server's table (main.py:11-29), the table that   *)
(* says which boards need an update.                                        *)
(***************************************************************************)
VersionIsReported == <>[](manager.is = "up") => <>[](row = env)

(***************************************************************************)
(* "install_rpi.sh restarts sirena-manager.service itself at its end"       *)
(* (updater.py:9): a manager the update stopped comes back.  It does not    *)
(* when an installer fails, or when the boot configuration changed: then    *)
(* nobody starts it, and the board cannot be reached until it is rebooted.  *)
(***************************************************************************)
ManagerComesBack == [](manager.is = "down" => <>(manager.is = "up"))
=============================================================================
