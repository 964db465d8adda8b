----------------------------- MODULE MeshGroups -----------------------------
(***************************************************************************)
(* The admin server's side of the mesh groups: which boards back each      *)
(* other's Starlink up, and which group key each board has been given.     *)
(*                                                                         *)
(* The server is one gunicorn process with many threads.  A handler is a   *)
(* sequence of SQLite transactions (one `with get_db()` each); between two *)
(* of them any other handler may run.  So a request is a record per thread *)
(* whose pc names the next transaction, and every action below is exactly  *)
(* one transaction with the Python that follows it.                        *)
(*                                                                         *)
(* The key of a group is drawn afresh each time config_version grows, in   *)
(* the same UPDATE, so <<group, version>> stands for the key.              *)
(***************************************************************************)
EXTENDS Naturals, FiniteSets

CONSTANTS
    Threads,     \* gunicorn threads serving requests at the same time
    Devices,     \* boards that may register
    Users,       \* accounts
    Admins,      \* those of Users with role admin
    GroupIds,    \* ids AUTOINCREMENT can hand out, each once
    ClaimIds,    \* rows of device_claims, each once
    Codes,       \* claim codes
    None,        \* SQL NULL
    MaxDevices,  \* SIRENA_MESH_GROUP_MAX_DEVICES
    MaxVersion,  \* bound of the exploration: config_version stops here
    Ops          \* the requests this instance explores

ASSUME GroupsAssumption ==
    /\ IsFiniteSet(Devices)
    /\ Admins \subseteq Users
    /\ MaxDevices \in Nat
    /\ MaxVersion \in Nat \ {0}
    /\ None \notin Devices \cup Users \cup GroupIds \cup ClaimIds \cup Codes

VARIABLES
    device,      \* table devices, by device_id
    group,       \* table mesh_groups, by id
    claim,       \* table device_claims, by id
    req,         \* the request each thread is serving
    known        \* history: every group key each board was ever sent

vars == <<device, group, claim, req, known>>

Keys == GroupIds \X (1..MaxVersion)

NoRow == [reg |-> FALSE, owner |-> None, group |-> None, valid |-> FALSE,
          disabled |-> FALSE, code |-> None]
DeviceRow == [reg : BOOLEAN, owner : Users \cup {None},
              group : GroupIds \cup {None}, valid : BOOLEAN,
              disabled : BOOLEAN, code : Codes \cup {None}]

GroupRow == [state : {"free", "live", "gone"}, owner : Users \cup {None},
             version : 1..MaxVersion]
ClaimRow == [device : Devices \cup {None}, user : Users \cup {None},
             status : {"none", "pending", "approved", "rejected"}]

Labels == {"idle", "add.device", "add.update", "remove.device",
           "detach.clear", "detach.rotate", "owner.set", "owner.device",
           "owner.group", "claim.code", "claim.approve", "claim.decide",
           "reject.decide", "submit.insert", "code.set", "disabled.set",
           "delete.device", "delete.row", "register.create",
           "group.delete", "sync.report", "sync.group"}

Idle == [pc |-> "idle", dev |-> None, grp |-> None, usr |-> None,
         clm |-> None, next |-> "idle"]
Request == [pc : Labels, dev : Devices \cup {None},
            grp : GroupIds \cup {None}, usr : Users \cup {None},
            clm : ClaimIds \cup {None}, next : Labels]

Members(g) == {d \in Devices : device[d].group = g}
Live(g) == g # None /\ group[g].state = "live"
Quiet == \A t \in Threads : req[t] = Idle

Init ==
    /\ device = [d \in Devices |-> NoRow]
    /\ group = [g \in GroupIds |-> [state |-> "free", owner |-> None, version |-> 1]]
    /\ claim = [c \in ClaimIds |-> [device |-> None, user |-> None, status |-> "none"]]
    /\ req = [t \in Threads |-> Idle]
    /\ known = [d \in Devices |-> {}]

-----------------------------------------------------------------------------
(* The life of a request. *)

\* A thread takes request op; its later transactions find r in req[t].
Begin(t, op, r) ==
    /\ op \in Ops
    /\ req[t] = Idle
    /\ req' = [req EXCEPT ![t] = r]

\* A request served in one transaction: no other can fall inside it.
Serve(t, op) == Begin(t, op, Idle)

At(t, label) == req[t].pc = label
Finish(t) == req' = [req EXCEPT ![t] = Idle]
Goto(t, label) ==
    IF label = "idle" THEN Finish(t) ELSE req' = [req EXCEPT ![t].pc = label]

-----------------------------------------------------------------------------
(* Groups. *)

CanManage(u, g) == u \in Admins \/ group[g].owner = u

\* A client creates a group for itself; an admin for anyone.
CreateGroup(t) ==
    /\ Serve(t, "create_group")
    /\ \E g \in GroupIds, u \in Users :
        /\ group[g].state = "free"
        /\ group' = [group EXCEPT ![g] = [state |-> "live", owner |-> u, version |-> 1]]
    /\ UNCHANGED <<device, claim, known>>

DeleteGroup(t) ==
    /\ \E g \in GroupIds, u \in Users :
        /\ Live(g) /\ CanManage(u, g)
        /\ Begin(t, "delete_group", [Idle EXCEPT !.pc = "group.delete", !.grp = g])
    /\ UNCHANGED <<device, group, claim, known>>

\* Slip: the row goes, its members keep the mesh_group_id.
DeleteGroupRowOnly(t) ==
    /\ At(t, "group.delete")
    /\ group' = [group EXCEPT ![req[t].grp].state = "gone"]
    /\ Finish(t)
    /\ UNCHANGED <<device, claim, known>>

\* Members and the row go in one transaction; deleting twice finds no row.
DeleteGroupRows(t) ==
    /\ At(t, "group.delete")
    /\ LET g == req[t].grp IN
        /\ device' = [d \in Devices |->
                        IF device[d].group = g THEN [device[d] EXCEPT !.group = None]
                                               ELSE device[d]]
        /\ group' = [group EXCEPT ![g].state = "gone"]
    /\ Finish(t)
    /\ UNCHANGED <<claim, known>>

\* _get_group_for; the group row read here is the one whose owner is compared.
AddDevice(t) ==
    /\ \E g \in GroupIds, u \in Users, d \in Devices :
        /\ Live(g) /\ CanManage(u, g)
        /\ Begin(t, "add_device", [Idle EXCEPT !.pc = "add.device", !.grp = g,
                                               !.dev = d, !.usr = group[g].owner])
    /\ UNCHANGED <<device, group, claim, known>>

AddCheckDevice(t) ==
    /\ At(t, "add.device")
    /\ LET row == device[req[t].dev] IN
        IF row.reg /\ row.owner = req[t].usr /\ row.group = None
        THEN Goto(t, "add.update")
        ELSE Finish(t)          \* unknown, another owner's, already in a group
    /\ UNCHANGED <<device, group, claim, known>>

\* Slip: the limit is compared in Python, before the UPDATE, and not again in it.
AddUpdateLimitElsewhere(t) ==
    /\ At(t, "add.update")
    /\ LET d == req[t].dev IN
        device' = IF device[d].reg /\ device[d].group = None /\ Live(req[t].grp)
                  THEN [device EXCEPT ![d].group = req[t].grp]
                  ELSE device
    /\ Finish(t)
    /\ UNCHANGED <<group, claim, known>>

\* The single UPDATE of add_device_to_mesh_group: WHERE re-checks membership and
\* the limit, and the foreign key refuses a group deleted meanwhile.
AddUpdate(t) ==
    /\ At(t, "add.update")
    /\ LET d == req[t].dev
           g == req[t].grp IN
        device' = IF /\ device[d].reg /\ device[d].group = None
                     /\ Cardinality(Members(g)) < MaxDevices
                     /\ Live(g)
                  THEN [device EXCEPT ![d].group = g]
                  ELSE device
    /\ Finish(t)
    /\ UNCHANGED <<group, claim, known>>

RemoveDevice(t) ==
    /\ \E g \in GroupIds, u \in Users, d \in Devices :
        /\ Live(g) /\ CanManage(u, g)
        /\ Begin(t, "remove_device", [Idle EXCEPT !.pc = "remove.device", !.grp = g, !.dev = d])
    /\ UNCHANGED <<device, group, claim, known>>

RemoveCheckDevice(t) ==
    /\ At(t, "remove.device")
    /\ LET row == device[req[t].dev] IN
        IF row.reg /\ row.group = req[t].grp THEN Goto(t, "detach.clear") ELSE Finish(t)
    /\ UNCHANGED <<device, group, claim, known>>

(* _detach, also inlined in the owner change and the deletion: req[t].next
   says where its caller goes on. *)

\* UPDATE devices SET mesh_group_id=NULL, whatever group the row is in by now.
DetachClear(t) ==
    /\ At(t, "detach.clear")
    /\ device' = [device EXCEPT ![req[t].dev].group = None]
    /\ Goto(t, "detach.rotate")
    /\ UNCHANGED <<group, claim, known>>

\* Slip: a group left empty is not worth a new key.
DetachRotateUnlessEmpty(t) ==
    /\ At(t, "detach.rotate")
    /\ LET g == req[t].grp IN
        IF Live(g) /\ Members(g) # {}
        THEN /\ group[g].version < MaxVersion
             /\ group' = [group EXCEPT ![g].version = @ + 1]
        ELSE UNCHANGED group
    /\ Goto(t, req[t].next)
    /\ UNCHANGED <<device, claim, known>>

\* New key and config_version + 1 in one UPDATE; a deleted group has no row.
DetachRotate(t) ==
    /\ At(t, "detach.rotate")
    /\ LET g == req[t].grp IN
        IF Live(g)
        THEN /\ group[g].version < MaxVersion
             /\ group' = [group EXCEPT ![g].version = @ + 1]
        ELSE UNCHANGED group
    /\ Goto(t, req[t].next)
    /\ UNCHANGED <<device, claim, known>>

SetDisabled(t) ==
    /\ \E d \in Devices :
        /\ device[d].reg
        /\ Begin(t, "set_disabled", [Idle EXCEPT !.pc = "disabled.set", !.dev = d])
    /\ UNCHANGED <<device, group, claim, known>>

SetDisabledRow(t) ==
    /\ At(t, "disabled.set")
    /\ \E b \in BOOLEAN :
        device' = IF device[req[t].dev].reg
                  THEN [device EXCEPT ![req[t].dev].disabled = b] ELSE device
    /\ Finish(t)
    /\ UNCHANGED <<group, claim, known>>

-----------------------------------------------------------------------------
(* Devices. *)

RegisterDevice(t) ==
    /\ \E d \in Devices :
        /\ ~device[d].reg
        /\ Begin(t, "register", [Idle EXCEPT !.pc = "register.create", !.dev = d])
    /\ UNCHANGED <<device, group, claim, known>>

\* Slip: valid_from and valid_to are left out of the INSERT.
RegisterCreateNull(t) ==
    /\ At(t, "register.create")
    /\ device' = IF device[req[t].dev].reg THEN device
                 ELSE [device EXCEPT ![req[t].dev] = [NoRow EXCEPT !.reg = TRUE, !.valid = None]]
    /\ Finish(t)
    /\ UNCHANGED <<group, claim, known>>

\* INSERT; a row created meanwhile breaks the primary key and the request fails.
RegisterCreate(t) ==
    /\ At(t, "register.create")
    /\ device' = IF device[req[t].dev].reg THEN device
                 ELSE [device EXCEPT ![req[t].dev] = [NoRow EXCEPT !.reg = TRUE]]
    /\ Finish(t)
    /\ UNCHANGED <<group, claim, known>>

\* approve_device, revoke_now, set_validity, and the validity running out.
SetValidity(t) ==
    /\ Serve(t, "validity")
    /\ \E d \in Devices, v \in BOOLEAN :
        /\ device[d].reg /\ device[d].valid # v
        /\ device' = [device EXCEPT ![d].valid = v]
    /\ UNCHANGED <<group, claim, known>>

\* delete_device: the row is read, the recordings are removed from the disk.
DeleteDevice(t) ==
    /\ \E d \in Devices :
        /\ device[d].reg
        /\ Begin(t, "delete_device", [Idle EXCEPT !.pc = "delete.device", !.dev = d,
                                                  !.next = "delete.row"])
    /\ UNCHANGED <<device, group, claim, known>>

\* on_device_deleted reads the row again.
DeleteCheckGroup(t) ==
    /\ At(t, "delete.device")
    /\ LET row == device[req[t].dev] IN
        IF row.reg /\ row.group # None
        THEN req' = [req EXCEPT ![t] = [@ EXCEPT !.grp = row.group, !.pc = "detach.clear"]]
        ELSE Goto(t, "delete.row")
    /\ UNCHANGED <<device, group, claim, known>>

\* device_claims still references a claimed device and repository.delete_device
\* does not clear it: the foreign key rolls the whole transaction back.
Claimed(d) == \E c \in ClaimIds : claim[c].device = d

DeleteRow(t) ==
    /\ At(t, "delete.row")
    /\ device' = IF Claimed(req[t].dev) THEN device
                 ELSE [device EXCEPT ![req[t].dev] = NoRow]
    /\ Finish(t)
    /\ UNCHANGED <<group, claim, known>>

-----------------------------------------------------------------------------
(* Ownership: claim codes, claims, reassignment. *)

GenerateCode(t) ==
    /\ \E d \in Devices :
        /\ device[d].reg
        /\ Begin(t, "claim_code", [Idle EXCEPT !.pc = "code.set", !.dev = d])
    /\ UNCHANGED <<device, group, claim, known>>

\* Drawn again while the UNIQUE index refuses it; after five refusals it fails.
SetCode(t) ==
    /\ At(t, "code.set")
    /\ \/ \E k \in Codes :
            /\ \A e \in Devices \ {req[t].dev} : device[e].code # k
            /\ device' = IF device[req[t].dev].reg
                         THEN [device EXCEPT ![req[t].dev].code = k] ELSE device
       \/ UNCHANGED device
    /\ Finish(t)
    /\ UNCHANGED <<group, claim, known>>

SubmitClaim(t) ==
    /\ \E d \in Devices, u \in Users :
        /\ device[d].code # None
        /\ Begin(t, "submit_claim", [Idle EXCEPT !.pc = "submit.insert", !.dev = d, !.usr = u])
    /\ UNCHANGED <<device, group, claim, known>>

Pending(d) == \E c \in ClaimIds : claim[c].device = d /\ claim[c].status = "pending"

\* The partial UNIQUE index (one pending claim per device) and the foreign key
\* on device_id turn the INSERT into an error.
SubmitInsert(t) ==
    /\ At(t, "submit.insert")
    /\ LET d == req[t].dev IN
        IF Pending(d) \/ ~device[d].reg
        THEN UNCHANGED claim
        ELSE \E c \in ClaimIds :
            /\ claim[c].status = "none"
            /\ claim' = [claim EXCEPT ![c] = [device |-> d, user |-> req[t].usr,
                                              status |-> "pending"]]
    /\ Finish(t)
    /\ UNCHANGED <<device, group, known>>

ApproveClaim(t) ==
    /\ \E c \in ClaimIds :
        /\ claim[c].status = "pending"
        /\ Begin(t, "approve_claim",
                 [pc |-> "owner.set", dev |-> claim[c].device, grp |-> None,
                  usr |-> claim[c].user, clm |-> c, next |-> "claim.code"])
    /\ UNCHANGED <<device, group, claim, known>>

\* reassign_owner: to any user, or to nobody.
ReassignOwner(t) ==
    /\ \E d \in Devices, u \in Users \cup {None} :
        /\ device[d].reg
        /\ Begin(t, "reassign", [Idle EXCEPT !.pc = "owner.set", !.dev = d, !.usr = u])
    /\ UNCHANGED <<device, group, claim, known>>

\* Slip: the hook on_device_owner_changed is not called.
SetOwnerNoHook(t) ==
    /\ At(t, "owner.set")
    /\ device' = IF device[req[t].dev].reg
                 THEN [device EXCEPT ![req[t].dev].owner = req[t].usr] ELSE device
    /\ Goto(t, req[t].next)
    /\ UNCHANGED <<group, claim, known>>

SetOwner(t) ==
    /\ At(t, "owner.set")
    /\ device' = IF device[req[t].dev].reg
                 THEN [device EXCEPT ![req[t].dev].owner = req[t].usr] ELSE device
    /\ Goto(t, "owner.device")
    /\ UNCHANGED <<group, claim, known>>

\* on_device_owner_changed: the row ...
OwnerCheckDevice(t) ==
    /\ At(t, "owner.device")
    /\ LET row == device[req[t].dev] IN
        IF ~row.reg \/ row.group = None
        THEN Goto(t, req[t].next)
        ELSE req' = [req EXCEPT ![t] = [@ EXCEPT !.pc = "owner.group", !.grp = row.group,
                                               !.usr = row.owner]]
    /\ UNCHANGED <<device, group, claim, known>>

\* ... then its group, compared with the owner in the row read before.
OwnerCheckGroup(t) ==
    /\ At(t, "owner.group")
    /\ LET g == req[t].grp IN
        IF ~Live(g) \/ group[g].owner # req[t].usr
        THEN Goto(t, "detach.clear")
        ELSE Goto(t, req[t].next)
    /\ UNCHANGED <<device, group, claim, known>>

ClaimClearCode(t) ==
    /\ At(t, "claim.code")
    /\ device' = [device EXCEPT ![req[t].dev].code = None]
    /\ Goto(t, "claim.approve")
    /\ UNCHANGED <<group, claim, known>>

ClaimApproveDevice(t) ==
    /\ At(t, "claim.approve")
    /\ device' = IF device[req[t].dev].reg
                 THEN [device EXCEPT ![req[t].dev].valid = TRUE] ELSE device
    /\ Goto(t, "claim.decide")
    /\ UNCHANGED <<group, claim, known>>

\* decide_claim: the UPDATE does not ask what the status is by now.
ClaimDecide(t) ==
    /\ At(t, "claim.decide")
    /\ claim' = [claim EXCEPT ![req[t].clm].status = "approved"]
    /\ Finish(t)
    /\ UNCHANGED <<device, group, known>>

RejectClaim(t) ==
    /\ \E c \in ClaimIds :
        /\ claim[c].status = "pending"
        /\ Begin(t, "reject_claim", [Idle EXCEPT !.pc = "reject.decide", !.clm = c])
    /\ UNCHANGED <<device, group, claim, known>>

RejectDecide(t) ==
    /\ At(t, "reject.decide")
    /\ claim' = [claim EXCEPT ![req[t].clm].status = "rejected"]
    /\ Finish(t)
    /\ UNCHANGED <<device, group, known>>

-----------------------------------------------------------------------------
(* /api/mesh/sync: the row decides the group and the validity, the group row
   is read two transactions later and supplies the key. *)

Sync(t) ==
    /\ \E d \in Devices :
        /\ device[d].reg
        /\ Begin(t, "sync", [Idle EXCEPT !.pc = "sync.report", !.dev = d,
                             !.grp = IF device[d].valid THEN device[d].group ELSE None])
    /\ UNCHANGED <<device, group, claim, known>>

SyncReport(t) ==
    /\ At(t, "sync.report")
    /\ IF req[t].grp = None THEN Finish(t) ELSE Goto(t, "sync.group")
    /\ UNCHANGED <<device, group, claim, known>>

SyncAnswer(t) ==
    /\ At(t, "sync.group")
    /\ LET g == req[t].grp IN
        known' = IF Live(g) THEN [known EXCEPT ![req[t].dev] = @ \cup {<<g, group[g].version>>}]
                 ELSE known
    /\ Finish(t)
    /\ UNCHANGED <<device, group, claim>>

-----------------------------------------------------------------------------
Step(t) ==
    \/ CreateGroup(t) \/ DeleteGroup(t) \/ DeleteGroupRows(t)
    \/ AddDevice(t) \/ AddCheckDevice(t) \/ AddUpdate(t)
    \/ RemoveDevice(t) \/ RemoveCheckDevice(t)
    \/ DetachClear(t) \/ DetachRotate(t)
    \/ SetDisabled(t) \/ SetDisabledRow(t)
    \/ RegisterDevice(t) \/ RegisterCreate(t) \/ SetValidity(t)
    \/ DeleteDevice(t) \/ DeleteCheckGroup(t) \/ DeleteRow(t)
    \/ GenerateCode(t) \/ SetCode(t) \/ SubmitClaim(t) \/ SubmitInsert(t)
    \/ ApproveClaim(t) \/ ReassignOwner(t) \/ SetOwner(t)
    \/ OwnerCheckDevice(t) \/ OwnerCheckGroup(t)
    \/ ClaimClearCode(t) \/ ClaimApproveDevice(t) \/ ClaimDecide(t)
    \/ RejectClaim(t) \/ RejectDecide(t)
    \/ Sync(t) \/ SyncReport(t) \/ SyncAnswer(t)

Next == \E t \in Threads : Step(t)

Spec == Init /\ [][Next]_vars

-----------------------------------------------------------------------------
(* Properties. *)

TypeOK ==
    /\ device \in [Devices -> DeviceRow]
    /\ group \in [GroupIds -> GroupRow]
    /\ claim \in [ClaimIds -> ClaimRow]
    /\ req \in [Threads -> Request]
    /\ known \in [Devices -> SUBSET Keys]

\* However the requests interleave, a group never holds more boards than one
\* Starlink can carry: the limit is checked inside the UPDATE, not before it.
GroupWithinLimit == \A g \in GroupIds : Cardinality(Members(g)) <= MaxDevices

\* However the requests interleave, a board in a group is a registered board
\* and its group exists: additions racing the deletion of the group or of the
\* board leave no dangling mesh_group_id.
MembersOfLiveGroups ==
    \A d \in Devices : device[d].group # None => device[d].reg /\ Live(device[d].group)

\* Whenever no request is being served, boards of one group have one owner, and
\* it is the group's: leaving the old owner's group is part of changing hands.
\* Holds while one thread serves; with two, a claim approved between the owner
\* check and the UPDATE of an addition breaks it.
OwnersMatch ==
    Quiet => \A d \in Devices : device[d].group # None =>
                group[device[d].group].owner = device[d].owner

\* Whenever no request is being served, a board holding the current key of a
\* group is in that group: whoever left it (removed, another owner's now,
\* deleted) left the key behind, because the key was replaced.
KeyCustody ==
    Quiet => \A d \in Devices, g \in GroupIds :
        Live(g) /\ <<g, group[g].version>> \in known[d] => device[d].group = g
=============================================================================
