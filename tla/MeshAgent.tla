------------------------------ MODULE MeshAgent ------------------------------
(***************************************************************************)
(* sirena-mesh-agent on a board, with the systemd unit sirena-mesh it       *)
(* drives.  The admin server is reduced to the configuration it wants this  *)
(* board to have.  A pass of the agent's loop is: look for the adapter,     *)
(* perhaps sync, write what changed to three files, reconcile the unit; the *)
(* agent may be killed between any two of these, systemd starts it again.   *)
(*                                                                          *)
(* A network is a group at one config_version with its mesh_id, frequency   *)
(* and key: whatever of these differs, the boards do not hear each other.   *)
(* Networks are numbered as this board gets them.  None comes back: a board *)
(* that leaves a group makes the admin replace the group's key.             *)
(***************************************************************************)
EXTENDS Naturals

CONSTANTS
    LastNet,      \* bound: networks the admin assigns, one after the other
    Names,        \* names people give to groups
    None,         \* no configuration, no file, nothing read
    StopsInOnePass, \* mesh-down.sh ends within LOOP_INTERVAL_SEC
    MaxChanges,   \* bound: changes made by the admin
    MaxFlips,     \* bound: times the adapter is plugged or unplugged, or a start fails with it
    MaxCrashes    \* bound: times the agent is killed

AgentAssumption ==
    /\ None \notin Nat
    /\ LastNet \in Nat \ {0}
    /\ StopsInOnePass \in BOOLEAN
    /\ {MaxChanges, MaxFlips, MaxCrashes} \subseteq Nat

Nets == 1..LastNet
Fallback == 0   \* what mesh-up.sh uses where a file is missing

VARIABLES
    want,      \* the admin's configuration for this board
    newest,    \* the last network assigned
    adapter,   \* the USB adapter is plugged in
    pc,        \* where the agent's loop is
    config,    \* MeshAgent.config
    answer,    \* the configuration being written
    restart,   \* what sync() returned
    recent,    \* adapter seen in this run less than ADAPTER_GONE_SEC ago
    idle30,    \* last_start is START_RETRY_SEC ago or more
    key, env, json,  \* files mesh.key, mesh.env, config.json
    unit,      \* ActiveState of sirena-mesh
    again,     \* a start job waits for the stop in progress
    run,       \* what the running mesh-up.sh has read
    owed,      \* history: killed after config.json changed (or was removed) and before the
               \* unit was told, and no start or restart of the unit since
    changes, flips, crashes

admin == <<want, newest, changes>>
usb == <<adapter, flips>>
files == <<key, env, json>>
agent == <<pc, config, answer, restart, recent, idle30>>
systemd == <<unit, again, run>>
vars == <<admin, usb, files, agent, systemd, owed, crashes>>

Configs == [net : Nets, name : Names, enabled : BOOLEAN]
Unread == [env |-> None, key |-> None]

Init ==
    /\ want = None /\ newest = 1 /\ changes = 0
    /\ adapter \in BOOLEAN /\ flips = 0
    /\ key = None /\ env = None /\ json = None
    /\ pc = "detect" /\ config = None /\ answer = None /\ restart = FALSE
    /\ recent = FALSE /\ idle30 = TRUE
    /\ unit = "inactive" /\ again = FALSE /\ run = Unread
    /\ owed = FALSE /\ crashes = 0

-----------------------------------------------------------------------------
(* The surroundings. *)

AdminChanges ==
    /\ changes < MaxChanges
    /\ newest' \in {newest, newest + 1} \cap Nets
    /\ want' \in {None} \cup {c \in Configs : c.net = newest'}
    /\ want' # want
    /\ changes' = changes + 1
    /\ UNCHANGED <<usb, files, agent, systemd, owed, crashes>>

AdapterFlips ==
    /\ flips < MaxFlips
    /\ adapter' = ~adapter
    /\ flips' = flips + 1
    /\ UNCHANGED <<admin, files, agent, systemd, owed, crashes>>

\* monotonic() - adapter_seen reaches ADAPTER_GONE_SEC.
AdapterForgotten ==
    /\ recent /\ ~adapter
    /\ recent' = FALSE
    /\ UNCHANGED <<admin, usb, files, pc, config, answer, restart, idle30,
                   systemd, owed, crashes>>

RetryDue ==
    /\ ~idle30
    /\ idle30' = TRUE
    /\ UNCHANGED <<admin, usb, files, pc, config, answer, restart, recent,
                   systemd, owed, crashes>>

-----------------------------------------------------------------------------
(* The unit: EnvironmentFile is read when ExecStart is run, the key file by  *)
(* the script, up to MESH_IFACE_WAIT_SEC later.                              *)

UnitReadEnv ==
    /\ unit = "activating" /\ run = Unread
    /\ run' = [run EXCEPT !.env = IF env = None THEN Fallback ELSE env]
    /\ UNCHANGED <<admin, usb, files, agent, unit, again, owed, crashes>>

UnitReadKey ==
    /\ unit = "activating" /\ run.env # None /\ run.key = None
    /\ adapter
    /\ run' = [run EXCEPT !.key = IF key = None THEN Fallback ELSE key]
    /\ UNCHANGED <<admin, usb, files, agent, unit, again, owed, crashes>>

UnitUp ==
    /\ unit = "activating" /\ run.key # None
    /\ unit' = "active"
    /\ UNCHANGED <<admin, usb, files, agent, again, run, owed, crashes>>

\* mesh-up.sh exits 1, and Restart=on-failure runs it again: no adapter, or, with it, a frequency
\* the region forbids, a key too short, no SAE in time, a start that takes too long.  (A board
\* where each start fails is not considered: there is no mesh to have.)
UnitFail ==
    /\ unit = "activating" /\ run # Unread
    /\ \/ ~adapter /\ UNCHANGED flips
       \/ flips < MaxFlips /\ flips' = flips + 1
    /\ run' = Unread
    /\ UNCHANGED <<admin, adapter, files, agent, unit, again, owed, crashes>>

UnitStopped ==
    /\ unit = "deactivating"
    /\ unit' = IF again THEN "activating" ELSE "inactive"
    /\ again' = FALSE
    /\ run' = Unread
    /\ UNCHANGED <<admin, usb, files, agent, owed, crashes>>

-----------------------------------------------------------------------------
(* One pass of MeshAgent.run. *)

\* Sync is due on a change of adapter, or SYNC_INTERVAL_SEC after the last.
Detect ==
    /\ pc = "detect"
    /\ StopsInOnePass => unit # "deactivating"
    /\ recent' = (recent \/ adapter)
    /\ restart' = FALSE
    /\ pc' \in {"sync", "reconcile"}
    /\ UNCHANGED <<admin, usb, files, config, answer, idle30, systemd, owed, crashes>>

\* Offline, an HTTP error, an invalid configuration: go on with the cache.
SyncFails ==
    /\ pc = "sync"
    /\ pc' = "reconcile"
    /\ UNCHANGED <<admin, usb, files, config, answer, restart, recent, idle30,
                   systemd, owed, crashes>>

SyncAnswered ==
    /\ pc = "sync"
    /\ answer' = want
    /\ pc' = IF want = config THEN "reconcile"
             ELSE IF want = None THEN "unlink.json" ELSE "save.key"
    /\ UNCHANGED <<admin, usb, files, config, restart, recent, idle30,
                   systemd, owed, crashes>>

SaveKey ==
    /\ pc = "save.key"
    /\ key' = answer.net
    /\ pc' = "save.env"
    /\ UNCHANGED <<admin, usb, env, json, config, answer, restart, recent, idle30,
                   systemd, owed, crashes>>

SaveEnv ==
    /\ pc = "save.env"
    /\ env' = answer.net
    /\ pc' = "save.json"
    /\ UNCHANGED <<admin, usb, key, json, config, answer, restart, recent, idle30,
                   systemd, owed, crashes>>

\* Slip: no restart, the next start will read the files.
NeedsNoRestart(old, new) == FALSE

\* {**old, "enabled": None} != {**new, "enabled": None}; False if there was none.
NeedsRestart(old, new) ==
    old # None /\ <<old.net, old.name>> # <<new.net, new.name>>

SaveJson ==
    /\ pc = "save.json"
    /\ json' = answer
    /\ restart' = NeedsRestart(config, answer)
    /\ config' = answer
    /\ pc' = "reconcile"
    /\ UNCHANGED <<admin, usb, key, env, answer, recent, idle30, systemd, owed, crashes>>

UnlinkJson ==
    /\ pc = "unlink.json"
    /\ json' = None
    /\ pc' = "unlink.env"
    /\ UNCHANGED <<admin, usb, key, env, config, answer, restart, recent, idle30,
                   systemd, owed, crashes>>

UnlinkEnv ==
    /\ pc = "unlink.env"
    /\ env' = None
    /\ pc' = "unlink.key"
    /\ UNCHANGED <<admin, usb, key, json, config, answer, restart, recent, idle30,
                   systemd, owed, crashes>>

UnlinkKey ==
    /\ pc = "unlink.key"
    /\ key' = None
    /\ config' = None
    /\ pc' = "reconcile"
    /\ UNCHANGED <<admin, usb, env, json, answer, restart, recent, idle30,
                   systemd, owed, crashes>>

\* Slip: a disabled board is not held back.
WantMeshDisabledToo == config # None /\ recent

WantMesh == config # None /\ config.enabled /\ recent

\* systemctl start: a no-op on a unit already up, queued behind a stop.
StartUnit ==
    /\ unit' = IF unit = "deactivating" THEN unit ELSE "activating"
    /\ again' = (unit = "deactivating")
    /\ run' = IF unit = "deactivating" THEN run ELSE Unread

StopUnit(then) == unit' = "deactivating" /\ again' = then /\ UNCHANGED run

Reconcile ==
    /\ pc = "reconcile"
    /\ pc' = "detect"
    /\ IF WantMesh /\ unit \in {"active", "activating"}
       THEN IF restart
            THEN StopUnit(TRUE) /\ idle30' = FALSE /\ owed' = FALSE
            ELSE UNCHANGED <<systemd, idle30, owed>>
       ELSE IF WantMesh
       THEN IF restart \/ idle30
            THEN StartUnit /\ idle30' = FALSE /\ owed' = FALSE
            ELSE UNCHANGED <<systemd, idle30, owed>>
       ELSE IF unit \in {"active", "activating"}
       THEN StopUnit(FALSE) /\ UNCHANGED <<idle30, owed>>
       ELSE UNCHANGED <<systemd, idle30, owed>>
    /\ UNCHANGED <<admin, usb, files, config, answer, restart, recent, crashes>>

\* Killed anywhere (an unexpected exception, an update, the OOM killer) and
\* started again by systemd: __init__ reads the cache, the rest is forgotten.
Crash ==
    /\ crashes < MaxCrashes
    /\ crashes' = crashes + 1
    /\ owed' = (\/ owed
                \/ pc \in {"unlink.env", "unlink.key"}
                \/ pc = "reconcile" /\ (restart \/ config = None))
    /\ pc' = "detect" /\ config' = json /\ answer' = None /\ restart' = FALSE
    /\ recent' = FALSE /\ idle30' = TRUE
    /\ UNCHANGED <<admin, usb, files, systemd>>

-----------------------------------------------------------------------------
Loop == \/ Detect \/ SyncFails \/ SyncAnswered
        \/ SaveKey \/ SaveEnv \/ SaveJson
        \/ UnlinkJson \/ UnlinkEnv \/ UnlinkKey
        \/ Reconcile
Unit == UnitReadEnv \/ UnitReadKey \/ UnitUp \/ UnitFail \/ UnitStopped

Next == \/ AdminChanges \/ AdapterFlips \/ AdapterForgotten \/ RetryDue
        \/ Loop \/ Unit \/ Crash

\* The loop never stops, systemd runs its jobs, time passes, and the admin is
\* reached again and again if the agent keeps asking.
Fairness ==
    /\ WF_vars(Loop) /\ WF_vars(Unit)
    /\ WF_vars(AdapterForgotten) /\ WF_vars(RetryDue)
    /\ SF_vars(Detect /\ pc' = "sync") /\ SF_vars(SyncAnswered)

Spec == Init /\ [][Next]_vars /\ Fairness

-----------------------------------------------------------------------------
(* Properties. *)

Files == Nets \cup {None}
TypeOK ==
    /\ want \in Configs \cup {None} /\ newest \in Nets
    /\ pc \in {"detect", "sync", "save.key", "save.env", "save.json",
               "unlink.json", "unlink.env", "unlink.key", "reconcile"}
    /\ {config, answer, json} \subseteq Configs \cup {None}
    /\ {key, env} \subseteq Files
    /\ {adapter, restart, recent, idle30, again, owed} \subseteq BOOLEAN
    /\ unit \in {"inactive", "activating", "active", "deactivating"}
    /\ run \in [env : Files \cup {Fallback}, key : Files \cup {Fallback}]
    /\ changes \in 0..MaxChanges /\ flips \in 0..MaxFlips /\ crashes \in 0..MaxCrashes

\* While the agent sleeps, a mesh that is up and wanted runs one network, the
\* one of the agent's configuration: never the mesh_id of one group with the key
\* of another, never the key from before a rotation.  (A killed agent is the
\* subject of Converges.)
RunsOneNetwork ==
    crashes = 0 /\ pc = "detect" /\ unit = "active" /\ WantMesh =>
        run = [env |-> config.net, key |-> config.net]

\* What the admin asked for: the mesh up on that network, or down, and no key
\* left on the disk of a board that is in no group (an agent killed in the
\* middle of writing or removing the three files may leave one).
Applied ==
    IF want # None /\ want.enabled /\ adapter
    THEN unit = "active" /\ run = [env |-> want.net, key |-> want.net]
    ELSE unit = "inactive" /\ (want = None => key = None \/ crashes > 0)

\* Once the admin and the adapter come to rest, the board ends where the admin
\* wants it and stays there, failed starts and a killed agent notwithstanding,
\* unless the agent was killed after config.json changed and before it reconciled
\* the unit, whether or not the unit had anything to be told, and has not started
\* or restarted it since.
Converges == <>[](Applied \/ owed)

\* (Refuted by TLC.) Renaming a group is for people: a mesh that already runs the network the
\* admin wants is not taken down while it is wanted.
RenameIsQuiet ==
    [][unit = "active" /\ unit' = "deactivating" /\ WantMesh =>
         run # [env |-> config.net, key |-> config.net]]_vars
=============================================================================
