--------------------------- MODULE MeshGroupsProofs ---------------------------
(* What the mesh groups keep whatever the requests and their interleaving,    *)
(* for any number of threads, boards, users, groups and claims.               *)
EXTENDS MC_MeshGroups, FiniteSetTheorems, TLAPS

(* A request at a label that names a board or a group really has one. *)
DeviceLabels == Labels \ {"idle", "group.delete", "reject.decide"}
GroupLabels == {"add.device", "add.update", "remove.device", "detach.clear",
                "detach.rotate", "owner.group", "group.delete", "sync.group"}
GoodRequest ==
    {r \in Request : /\ r.pc \in DeviceLabels => r.dev \in Devices
                     /\ r.pc \in GroupLabels => r.grp \in GroupIds
                     /\ r.next \in {"idle", "delete.row", "claim.code"}}

RequestInv == req \in [Threads -> GoodRequest]
ClaimInv == \A c \in ClaimIds : claim[c].status = "pending" => claim[c].device \in Devices
TypeInv == TypeOK /\ RequestInv /\ ClaimInv

LEMMA IdleGood == Idle \in GoodRequest
  BY DEF Idle, GoodRequest, Request, Labels, DeviceLabels, GroupLabels

LEMMA FinishGood ==
    ASSUME RequestInv, NEW t \in Threads, Finish(t)
    PROVE  RequestInv'
  BY IdleGood DEF RequestInv, Finish

LEMMA BeginGood ==
    ASSUME RequestInv, NEW t \in Threads, NEW op, NEW r \in GoodRequest, Begin(t, op, r)
    PROVE  RequestInv'
  BY DEF RequestInv, Begin

LEMMA GotoGood ==
    ASSUME RequestInv, NEW t \in Threads, NEW label \in Labels, Goto(t, label),
           label \in DeviceLabels => req[t].dev \in Devices,
           label \in GroupLabels => req[t].grp \in GroupIds
    PROVE  RequestInv'
  <1>1. CASE label = "idle"
    BY <1>1, FinishGood DEF Goto
  <1>2. CASE label # "idle"
    <2>1. [req[t] EXCEPT !.pc = label] \in GoodRequest
      BY <1>2 DEF RequestInv, GoodRequest, Request
    <2>2. req' = [req EXCEPT ![t] = [req[t] EXCEPT !.pc = label]]
      BY <1>2 DEF Goto
    <2> QED
      BY <2>1, <2>2 DEF RequestInv
  <1> QED
    BY <1>1, <1>2

(* The requests stay good, whoever steps. *)
LEMMA RequestStep ==
    ASSUME TypeInv, NEW t \in Threads, Step(t)
    PROVE  RequestInv'
  <1> USE DEF TypeInv
  <1>a. req[t] \in GoodRequest /\ req[t] \in Request
    BY DEF RequestInv, GoodRequest
  <1>1. CASE DeleteGroup(t)
    <2>1. PICK g \in GroupIds :
            Begin(t, "delete_group", [Idle EXCEPT !.pc = "group.delete", !.grp = g])
      BY <1>1 DEF DeleteGroup
    <2>2. [Idle EXCEPT !.pc = "group.delete", !.grp = g] \in GoodRequest
      BY <2>1 DEF Idle, GoodRequest, Request, Labels, DeviceLabels, GroupLabels
    <2> QED
      BY <2>1, <2>2, BeginGood
  <1>2. CASE AddDevice(t)
    <2>1. PICK g \in GroupIds, d \in Devices :
            Begin(t, "add_device", [Idle EXCEPT !.pc = "add.device", !.grp = g, !.dev = d, !.usr = group[g].owner])
      BY <1>2 DEF AddDevice
    <2>2. [Idle EXCEPT !.pc = "add.device", !.grp = g, !.dev = d, !.usr = group[g].owner] \in GoodRequest
      BY <2>1 DEF Idle, GoodRequest, Request, Labels, DeviceLabels, GroupLabels, TypeOK, GroupRow
    <2> QED
      BY <2>1, <2>2, BeginGood
  <1>3. CASE RemoveDevice(t)
    <2>1. PICK g \in GroupIds, d \in Devices :
            Begin(t, "remove_device", [Idle EXCEPT !.pc = "remove.device", !.grp = g, !.dev = d])
      BY <1>3 DEF RemoveDevice
    <2>2. [Idle EXCEPT !.pc = "remove.device", !.grp = g, !.dev = d] \in GoodRequest
      BY <2>1 DEF Idle, GoodRequest, Request, Labels, DeviceLabels, GroupLabels
    <2> QED
      BY <2>1, <2>2, BeginGood
  <1>4. CASE SetDisabled(t)
    <2>1. PICK d \in Devices :
            Begin(t, "set_disabled", [Idle EXCEPT !.pc = "disabled.set", !.dev = d])
      BY <1>4 DEF SetDisabled
    <2>2. [Idle EXCEPT !.pc = "disabled.set", !.dev = d] \in GoodRequest
      BY <2>1 DEF Idle, GoodRequest, Request, Labels, DeviceLabels, GroupLabels
    <2> QED
      BY <2>1, <2>2, BeginGood
  <1>5. CASE RegisterDevice(t)
    <2>1. PICK d \in Devices :
            Begin(t, "register", [Idle EXCEPT !.pc = "register.create", !.dev = d])
      BY <1>5 DEF RegisterDevice
    <2>2. [Idle EXCEPT !.pc = "register.create", !.dev = d] \in GoodRequest
      BY <2>1 DEF Idle, GoodRequest, Request, Labels, DeviceLabels, GroupLabels
    <2> QED
      BY <2>1, <2>2, BeginGood
  <1>6. CASE DeleteDevice(t)
    <2>1. PICK d \in Devices :
            Begin(t, "delete_device", [Idle EXCEPT !.pc = "delete.device", !.dev = d, !.next = "delete.row"])
      BY <1>6 DEF DeleteDevice
    <2>2. [Idle EXCEPT !.pc = "delete.device", !.dev = d, !.next = "delete.row"] \in GoodRequest
      BY <2>1 DEF Idle, GoodRequest, Request, Labels, DeviceLabels, GroupLabels
    <2> QED
      BY <2>1, <2>2, BeginGood
  <1>7. CASE GenerateCode(t)
    <2>1. PICK d \in Devices :
            Begin(t, "claim_code", [Idle EXCEPT !.pc = "code.set", !.dev = d])
      BY <1>7 DEF GenerateCode
    <2>2. [Idle EXCEPT !.pc = "code.set", !.dev = d] \in GoodRequest
      BY <2>1 DEF Idle, GoodRequest, Request, Labels, DeviceLabels, GroupLabels
    <2> QED
      BY <2>1, <2>2, BeginGood
  <1>8. CASE SubmitClaim(t)
    <2>1. PICK d \in Devices, u \in Users :
            Begin(t, "submit_claim", [Idle EXCEPT !.pc = "submit.insert", !.dev = d, !.usr = u])
      BY <1>8 DEF SubmitClaim
    <2>2. [Idle EXCEPT !.pc = "submit.insert", !.dev = d, !.usr = u] \in GoodRequest
      BY <2>1 DEF Idle, GoodRequest, Request, Labels, DeviceLabels, GroupLabels
    <2> QED
      BY <2>1, <2>2, BeginGood
  <1>9. CASE ApproveClaim(t)
    <2>1. PICK c \in ClaimIds :
            /\ claim[c].status = "pending"
            /\ Begin(t, "approve_claim",
                     [pc |-> "owner.set", dev |-> claim[c].device, grp |-> None,
                      usr |-> claim[c].user, clm |-> c, next |-> "claim.code"])
      BY <1>9 DEF ApproveClaim
    <2>2. [pc |-> "owner.set", dev |-> claim[c].device, grp |-> None,
           usr |-> claim[c].user, clm |-> c, next |-> "claim.code"] \in GoodRequest
      BY <2>1 DEF Idle, GoodRequest, Request, Labels, DeviceLabels, GroupLabels, ClaimInv,
         TypeOK, ClaimRow
    <2> QED
      BY <2>1, <2>2, BeginGood
  <1>10. CASE ReassignOwner(t)
    <2>1. PICK d \in Devices, u \in Users \cup {None} :
            Begin(t, "reassign", [Idle EXCEPT !.pc = "owner.set", !.dev = d, !.usr = u])
      BY <1>10 DEF ReassignOwner
    <2>2. [Idle EXCEPT !.pc = "owner.set", !.dev = d, !.usr = u] \in GoodRequest
      BY <2>1 DEF Idle, GoodRequest, Request, Labels, DeviceLabels, GroupLabels
    <2> QED
      BY <2>1, <2>2, BeginGood
  <1>11. CASE RejectClaim(t)
    <2>1. PICK c \in ClaimIds :
            Begin(t, "reject_claim", [Idle EXCEPT !.pc = "reject.decide", !.clm = c])
      BY <1>11 DEF RejectClaim
    <2>2. [Idle EXCEPT !.pc = "reject.decide", !.clm = c] \in GoodRequest
      BY <2>1 DEF Idle, GoodRequest, Request, Labels, DeviceLabels, GroupLabels
    <2> QED
      BY <2>1, <2>2, BeginGood
  <1>12. CASE Sync(t)
    <2>1. PICK d \in Devices :
            Begin(t, "sync", [Idle EXCEPT !.pc = "sync.report", !.dev = d,
                               !.grp = IF device[d].valid THEN device[d].group ELSE None])
      BY <1>12 DEF Sync
    <2>2. [Idle EXCEPT !.pc = "sync.report", !.dev = d,
           !.grp = IF device[d].valid THEN device[d].group ELSE None] \in GoodRequest
      BY <2>1 DEF Idle, GoodRequest, Request, Labels, DeviceLabels, GroupLabels, TypeOK, DeviceRow
    <2> QED
      BY <2>1, <2>2, BeginGood
  <1>13. CASE CreateGroup(t)
    BY <1>13, BeginGood, IdleGood DEF CreateGroup, Serve
  <1>14. CASE SetValidity(t)
    BY <1>14, BeginGood, IdleGood DEF SetValidity, Serve
  <1>15. CASE DeleteGroupRows(t)
    BY <1>15, FinishGood DEF DeleteGroupRows
  <1>16. CASE AddUpdate(t)
    BY <1>16, FinishGood DEF AddUpdate
  <1>17. CASE SetDisabledRow(t)
    BY <1>17, FinishGood DEF SetDisabledRow
  <1>18. CASE RegisterCreate(t)
    BY <1>18, FinishGood DEF RegisterCreate
  <1>19. CASE DeleteRow(t)
    BY <1>19, FinishGood DEF DeleteRow
  <1>20. CASE SetCode(t)
    BY <1>20, FinishGood DEF SetCode
  <1>21. CASE SubmitInsert(t)
    BY <1>21, FinishGood DEF SubmitInsert
  <1>22. CASE ClaimDecide(t)
    BY <1>22, FinishGood DEF ClaimDecide
  <1>23. CASE RejectDecide(t)
    BY <1>23, FinishGood DEF RejectDecide
  <1>24. CASE SyncAnswer(t)
    BY <1>24, FinishGood DEF SyncAnswer
  <1>25. CASE AddCheckDevice(t)
    <2>1. Finish(t) \/ Goto(t, "add.update")
      BY <1>25 DEF AddCheckDevice
    <2>2. req[t].dev \in Devices /\ req[t].grp \in GroupIds
      BY <1>25, <1>a DEF AddCheckDevice, At, Labels, DeviceLabels, GroupLabels, GoodRequest
    <2> QED
      BY <2>1, <2>2, FinishGood, GotoGood DEF Labels
  <1>26. CASE RemoveCheckDevice(t)
    <2>1. Finish(t) \/ Goto(t, "detach.clear")
      BY <1>26 DEF RemoveCheckDevice
    <2>2. req[t].dev \in Devices /\ req[t].grp \in GroupIds
      BY <1>26, <1>a DEF RemoveCheckDevice, At, Labels, DeviceLabels, GroupLabels, GoodRequest
    <2> QED
      BY <2>1, <2>2, FinishGood, GotoGood DEF Labels
  <1>27. CASE SyncReport(t)
    <2>1. \/ Finish(t)
          \/ req[t].grp # None /\ Goto(t, "sync.group")
      BY <1>27 DEF SyncReport
    <2>2. req[t].dev \in Devices /\ req[t].grp \in GroupIds \cup {None}
      BY <1>27, <1>a DEF SyncReport, At, Request, Labels, DeviceLabels, GroupLabels, GoodRequest
    <2> QED
      BY <2>1, <2>2, FinishGood, GotoGood DEF Labels
  <1>28. CASE DetachClear(t)
    BY <1>28, <1>a, GotoGood DEF DetachClear, At, Labels, DeviceLabels, GroupLabels, GoodRequest
  <1>29. CASE SetOwner(t)
    BY <1>29, <1>a, GotoGood DEF SetOwner, At, Labels, DeviceLabels, GroupLabels, GoodRequest
  <1>30. CASE ClaimClearCode(t)
    BY <1>30, <1>a, GotoGood DEF ClaimClearCode, At, Labels, DeviceLabels, GroupLabels, GoodRequest
  <1>31. CASE ClaimApproveDevice(t)
    BY <1>31, <1>a, GotoGood DEF ClaimApproveDevice, At, Labels, DeviceLabels, GroupLabels,
       GoodRequest
  <1>32. CASE DetachRotate(t)
    BY <1>32, <1>a, GotoGood DEF DetachRotate, At, Labels, DeviceLabels, GroupLabels, GoodRequest
  <1>33. CASE DeleteCheckGroup(t)
    <2>1. req[t].dev \in Devices
      BY <1>33, <1>a DEF DeleteCheckGroup, At, Labels, DeviceLabels, GroupLabels, GoodRequest
    <2>2. CASE Goto(t, "delete.row")
      BY <2>1, <2>2, GotoGood DEF Labels, GroupLabels
    <2>3. CASE ~Goto(t, "delete.row")
      <3>1. /\ device[req[t].dev].group \in GroupIds
            /\ req' = [req EXCEPT ![t] = [req[t] EXCEPT !.grp = device[req[t].dev].group, !.pc = "detach.clear"]]
        BY <1>33, <2>1, <2>3 DEF DeleteCheckGroup, TypeOK, DeviceRow
      <3> QED
        BY <3>1, <2>1, <1>a DEF RequestInv, Request, Labels, DeviceLabels, GroupLabels, GoodRequest
    <2> QED
      BY <2>2, <2>3
  <1>34. CASE OwnerCheckDevice(t)
    <2>1. req[t].dev \in Devices
      BY <1>34, <1>a DEF OwnerCheckDevice, At, Labels, DeviceLabels, GroupLabels, GoodRequest
    <2>2. CASE Goto(t, req[t].next)
      BY <2>1, <2>2, <1>a, GotoGood DEF Labels, DeviceLabels, GroupLabels, GoodRequest
    <2>3. CASE ~Goto(t, req[t].next)
      <3>1. /\ device[req[t].dev].group \in GroupIds
            /\ device[req[t].dev].owner \in Users \cup {None}
            /\ req' = [req EXCEPT ![t] = [req[t] EXCEPT !.pc = "owner.group", !.grp = device[req[t].dev].group,
                                                        !.usr = device[req[t].dev].owner]]
        BY <1>34, <2>1, <2>3 DEF OwnerCheckDevice, TypeOK, DeviceRow
      <3>2. [req[t] EXCEPT !.pc = "owner.group", !.grp = device[req[t].dev].group,
                           !.usr = device[req[t].dev].owner] \in GoodRequest
        BY <3>1, <2>1, <1>a DEF Request, GoodRequest, Labels
      <3> QED
        BY <3>1, <3>2 DEF RequestInv
    <2> QED
      BY <2>2, <2>3
  <1>35. CASE OwnerCheckGroup(t)
    <2>1. req[t].dev \in Devices /\ req[t].grp \in GroupIds
      BY <1>35, <1>a DEF OwnerCheckGroup, At, Labels, DeviceLabels, GroupLabels, GoodRequest
    <2>2. Goto(t, "detach.clear") \/ Goto(t, req[t].next)
      BY <1>35 DEF OwnerCheckGroup
    <2> QED
      BY <2>1, <2>2, <1>a, GotoGood DEF Labels, DeviceLabels, GroupLabels, GoodRequest
  <1> QED
    BY <1>1, <1>2, <1>3, <1>4, <1>5, <1>6, <1>7, <1>8, <1>9, <1>10, <1>11, <1>12, <1>13, <1>14,
       <1>15, <1>16, <1>17, <1>18, <1>19, <1>20, <1>21, <1>22, <1>23, <1>24, <1>25, <1>26,
       <1>27, <1>28, <1>29, <1>30, <1>31, <1>32, <1>33, <1>34, <1>35 DEF Step
(* The tables stay typed.  Half of the actions only read them. *)
ReadOnly(t) ==
    \/ DeleteGroup(t) \/ AddDevice(t) \/ AddCheckDevice(t) \/ RemoveDevice(t)
    \/ RemoveCheckDevice(t) \/ SetDisabled(t) \/ RegisterDevice(t)
    \/ DeleteDevice(t) \/ DeleteCheckGroup(t) \/ GenerateCode(t)
    \/ SubmitClaim(t) \/ ApproveClaim(t) \/ ReassignOwner(t)
    \/ OwnerCheckDevice(t) \/ OwnerCheckGroup(t) \/ RejectClaim(t) \/ Sync(t)
    \/ SyncReport(t)

LEMMA ReadOnlyFrame ==
    ASSUME NEW t \in Threads, ReadOnly(t)
    PROVE  UNCHANGED <<device, group, claim, known>>
  BY DEF ReadOnly, DeleteGroup, AddDevice, AddCheckDevice, RemoveDevice,
         RemoveCheckDevice, SetDisabled, RegisterDevice, DeleteDevice,
         DeleteCheckGroup, GenerateCode, SubmitClaim, ApproveClaim,
         ReassignOwner, OwnerCheckDevice, OwnerCheckGroup,
         RejectClaim, Sync, SyncReport

(* Writing one column keeps the table typed. *)
LEMMA ColumnTyped ==
    ASSUME device \in [Devices -> DeviceRow], NEW d
    PROVE  /\ \A k \in Codes \cup {None} :
                [device EXCEPT ![d].code = k] \in [Devices -> DeviceRow]
           /\ \A b \in BOOLEAN :
                /\ [device EXCEPT ![d].disabled = b] \in [Devices -> DeviceRow]
                /\ [device EXCEPT ![d].valid = b] \in [Devices -> DeviceRow]
  BY DEF DeviceRow

LEMMA TablesStep ==
    ASSUME TypeInv, NEW t \in Threads, Step(t)
    PROVE  /\ device' \in [Devices -> DeviceRow]
           /\ group' \in [GroupIds -> GroupRow]
           /\ claim' \in [ClaimIds -> ClaimRow] /\ ClaimInv'
           /\ known' \in [Devices -> SUBSET Keys]
  <1> USE GroupsAssumption DEF TypeInv, TypeOK
  <1>a. /\ req[t] \in GoodRequest
        /\ req[t].pc \in DeviceLabels => req[t].dev \in Devices
        /\ req[t].pc \in GroupLabels => req[t].grp \in GroupIds
        /\ req[t].usr \in Users \cup {None}
    BY DEF RequestInv, GoodRequest, Request
  <1>1. CASE ReadOnly(t)
    BY <1>1, ReadOnlyFrame DEF ClaimInv
  <1>2. CASE CreateGroup(t)
    BY <1>2 DEF CreateGroup, GroupRow, ClaimInv
  <1>3. CASE DeleteGroupRows(t)
    <2>1. \A d \in Devices : [device[d] EXCEPT !.group = None] \in DeviceRow
      BY DEF DeviceRow
    <2> QED
      BY <1>3, <2>1 DEF DeleteGroupRows, GroupRow, ClaimInv
  <1>4. CASE AddUpdate(t)
    BY <1>4, <1>a DEF AddUpdate, DeviceRow, ClaimInv, At, DeviceLabels, GroupLabels, Labels
  <1>5. CASE DetachClear(t)
    BY <1>5 DEF DetachClear, DeviceRow, ClaimInv
  <1>6. CASE DetachRotate(t)
    BY <1>6 DEF DetachRotate, GroupRow, ClaimInv
  <1>7. CASE SetDisabledRow(t)
    <2>1. PICK b \in BOOLEAN :
            device' = IF device[req[t].dev].reg
                      THEN [device EXCEPT ![req[t].dev].disabled = b] ELSE device
      BY <1>7 DEF SetDisabledRow
    <2>2. device' \in [Devices -> DeviceRow]
      BY <2>1, ColumnTyped
    <2> QED
      BY <1>7, <2>2 DEF SetDisabledRow, ClaimInv
  <1>8. CASE RegisterCreate(t)
    BY <1>8 DEF RegisterCreate, NoRow, DeviceRow, ClaimInv
  <1>9. CASE SetValidity(t)
    BY <1>9 DEF SetValidity, DeviceRow, ClaimInv
  <1>10. CASE DeleteRow(t)
    BY <1>10 DEF DeleteRow, NoRow, DeviceRow, ClaimInv
  <1>11. CASE SetCode(t)
    <2>1. device' \in [Devices -> DeviceRow]
      <3>1. CASE UNCHANGED device
        BY <3>1
      <3>2. CASE ~UNCHANGED device
        <4>1. PICK k \in Codes :
                device' = IF device[req[t].dev].reg
                          THEN [device EXCEPT ![req[t].dev].code = k] ELSE device
          BY <1>11, <3>2 DEF SetCode
        <4> QED
          BY <4>1, ColumnTyped
      <3> QED
        BY <3>1, <3>2
    <2> QED
      BY <1>11, <2>1 DEF SetCode, ClaimInv
  <1>12. CASE SubmitInsert(t)
    BY <1>12, <1>a DEF SubmitInsert, At, DeviceLabels, Labels, ClaimRow, ClaimInv
  <1>13. CASE SetOwner(t)
    BY <1>13, <1>a DEF SetOwner, DeviceRow, ClaimInv, At, DeviceLabels, GroupLabels, Labels
  <1>14. CASE ClaimClearCode(t)
    <2>1. device' \in [Devices -> DeviceRow]
      BY <1>14, ColumnTyped DEF ClaimClearCode
    <2> QED
      BY <1>14, <2>1 DEF ClaimClearCode, ClaimInv
  <1>15. CASE ClaimApproveDevice(t)
    <2>1. device' \in [Devices -> DeviceRow]
      BY <1>15, ColumnTyped DEF ClaimApproveDevice
    <2> QED
      BY <1>15, <2>1 DEF ClaimApproveDevice, ClaimInv
  <1>16. CASE ClaimDecide(t)
    <2>1. claim' = [claim EXCEPT ![req[t].clm].status = "approved"]
      BY <1>16 DEF ClaimDecide
    <2>2. claim' \in [ClaimIds -> ClaimRow]
      BY <2>1 DEF ClaimRow
    <2>3. ClaimInv'
      BY <2>1 DEF ClaimRow, ClaimInv
    <2> QED
      BY <1>16, <2>2, <2>3 DEF ClaimDecide
  <1>17. CASE RejectDecide(t)
    <2>1. claim' = [claim EXCEPT ![req[t].clm].status = "rejected"]
      BY <1>17 DEF RejectDecide
    <2>2. claim' \in [ClaimIds -> ClaimRow]
      BY <2>1 DEF ClaimRow
    <2>3. ClaimInv'
      BY <2>1 DEF ClaimRow, ClaimInv
    <2> QED
      BY <1>17, <2>2, <2>3 DEF RejectDecide
  <1>18. CASE SyncAnswer(t)
    <2>1. req[t].dev \in Devices /\ req[t].grp \in GroupIds
      BY <1>18, <1>a DEF SyncAnswer, At, DeviceLabels, GroupLabels, Labels
    <2>2. <<req[t].grp, group[req[t].grp].version>> \in Keys
      BY <2>1 DEF GroupRow, Keys
    <2> QED
      BY <1>18, <2>1, <2>2 DEF SyncAnswer, ClaimInv
  <1> QED
    BY <1>1, <1>2, <1>3, <1>4, <1>5, <1>6, <1>7, <1>8, <1>9, <1>10, <1>11,
       <1>12, <1>13, <1>14, <1>15, <1>16, <1>17, <1>18 DEF Step,
       ReadOnly

(* TypeInv is inductive on its own; the invariants below build on it. *)
LEMMA TypeInit ==
    ASSUME Init
    PROVE  TypeInv
  BY GroupsAssumption, IdleGood
     DEF Init, TypeInv, TypeOK, RequestInv, ClaimInv, NoRow, DeviceRow, GroupRow,
         ClaimRow, GoodRequest

LEMMA TypeStep ==
    ASSUME TypeInv, [Next]_vars
    PROVE  TypeInv'
  <1>1. CASE Next
    <2>1. PICK t \in Threads : Step(t)
      BY <1>1 DEF Next
    <2>2. RequestInv'
      BY <2>1, RequestStep
    <2>3. req' \in [Threads -> Request]
      BY <2>2 DEF RequestInv, GoodRequest
    <2> QED
      BY <2>1, <2>2, <2>3, TablesStep DEF TypeInv, TypeOK
  <1>2. CASE UNCHANGED vars
    BY <1>2 DEF vars, TypeInv, TypeOK, RequestInv, ClaimInv
  <1> QED
    BY <1>1, <1>2

LEMMA TypeInvariant == Spec => []TypeInv
  BY TypeInit, TypeStep, PTL DEF Spec

(* The types of the tables and of the requests under way are kept by every   *)
(* request in every interleaving: no handler leaves a row without its owner, *)
(* group or validity in the domain the other handlers read.                  *)
THEOREM TypeCorrect == Spec => []TypeOK
  BY TypeInvariant, PTL DEF TypeInv

-----------------------------------------------------------------------------
(* How a step can move a board between groups: everyone but AddUpdate leaves *)
(* a board where it is, or out of any group.                                 *)
Stays(d) == device'[d].group = device[d].group /\ device'[d].reg = device[d].reg
Leaves(d) == device'[d].group = None

LEMMA MoveStep ==
    ASSUME TypeInv, NEW t \in Threads, Step(t), ~AddUpdate(t)
    PROVE  \A d \in Devices : Stays(d) \/ Leaves(d)
  <1> USE DEF Stays, Leaves, TypeInv, TypeOK
  <1>1. CASE ReadOnly(t)
    BY <1>1, ReadOnlyFrame
  <1>2. CASE CreateGroup(t) \/ DetachRotate(t) \/ SubmitInsert(t) \/ ClaimDecide(t)
             \/ RejectDecide(t) \/ SyncAnswer(t)
    BY <1>2 DEF CreateGroup, DetachRotate, SubmitInsert, ClaimDecide, RejectDecide, SyncAnswer
  <1>3. CASE DeleteGroupRows(t)
    BY <1>3 DEF DeleteGroupRows
  <1>4. CASE DetachClear(t)
    BY <1>4 DEF DetachClear, DeviceRow
  <1>5. CASE SetDisabledRow(t)
    BY <1>5 DEF SetDisabledRow, DeviceRow
  <1>6. CASE RegisterCreate(t)
    BY <1>6 DEF RegisterCreate, NoRow
  <1>7. CASE SetValidity(t)
    BY <1>7 DEF SetValidity, DeviceRow
  <1>8. CASE DeleteRow(t)
    BY <1>8 DEF DeleteRow, NoRow
  <1>9. CASE SetCode(t)
    <2>1. CASE UNCHANGED device
      BY <2>1
    <2>2. CASE ~UNCHANGED device
      <3>1. PICK k \in Codes : device' = [device EXCEPT ![req[t].dev].code = k]
        BY <1>9, <2>2 DEF SetCode
      <3> QED
        BY <3>1 DEF DeviceRow
    <2> QED
      BY <2>1, <2>2
  <1>10. CASE SetOwner(t)
    BY <1>10 DEF SetOwner, DeviceRow
  <1>11. CASE ClaimClearCode(t)
    BY <1>11 DEF ClaimClearCode, DeviceRow
  <1>12. CASE ClaimApproveDevice(t)
    BY <1>12 DEF ClaimApproveDevice, DeviceRow
  <1> QED
    BY <1>1, <1>2, <1>3, <1>4, <1>5, <1>6, <1>7, <1>8, <1>9, <1>10, <1>11, <1>12
       DEF Step, ReadOnly

(* ... and AddUpdate moves one board into a live group with room left. *)
LEMMA AddStep ==
    ASSUME TypeInv, NEW t \in Threads, AddUpdate(t)
    PROVE  /\ UNCHANGED group
           /\ \/ UNCHANGED device
              \/ \E d \in Devices :
                    /\ device[d].reg /\ Live(req[t].grp)
                    /\ Cardinality(Members(req[t].grp)) < MaxDevices
                    /\ device' = [device EXCEPT ![d].group = req[t].grp]
  <1>1. req[t].dev \in Devices
    BY DEF AddUpdate, At, TypeInv, RequestInv, GoodRequest, DeviceLabels, Labels
  <1> QED
    BY <1>1 DEF AddUpdate

(* A live group with a member after the step is still live: a group is       *)
(* deleted with its memberships.                                             *)
LEMMA LiveStep ==
    ASSUME TypeInv, NEW t \in Threads, Step(t), NEW d \in Devices,
           NEW g \in GroupIds, device'[d].group = g, Live(g)
    PROVE  Live(g)'
  <1> USE GroupsAssumption DEF Live, TypeInv, TypeOK
  <1>1. CASE UNCHANGED group
    BY <1>1
  <1>2. CASE CreateGroup(t)
    <2>1. PICK h \in GroupIds, u \in Users :
            group' = [group EXCEPT ![h] = [state |-> "live", owner |-> u, version |-> 1]]
      BY <1>2 DEF CreateGroup
    <2> QED
      BY <2>1
  <1>3. CASE DeleteGroupRows(t)
    <2>1. req[t].grp # g
      BY <1>3 DEF DeleteGroupRows, DeviceRow
    <2> QED
      BY <1>3, <2>1 DEF DeleteGroupRows, GroupRow
  <1>4. CASE DetachRotate(t)
    <2>1. \/ UNCHANGED group
          \/ group' = [group EXCEPT ![req[t].grp].version = @ + 1]
      BY <1>4 DEF DetachRotate
    <2> QED
      BY <2>1 DEF GroupRow
  <1>5. CASE ReadOnly(t)
    BY <1>5, <1>1, ReadOnlyFrame
  <1> QED
    BY <1>1, <1>2, <1>3, <1>4, <1>5
       DEF Step, ReadOnly, AddUpdate, DetachClear, SetDisabledRow, RegisterCreate,
           SetValidity, DeleteRow, SetCode, SubmitInsert, SetOwner, ClaimClearCode,
           ClaimApproveDevice, ClaimDecide, RejectDecide, SyncAnswer

LEMMA MembersStep ==
    ASSUME TypeInv, MembersOfLiveGroups, [Next]_vars
    PROVE  MembersOfLiveGroups'
  <1> SUFFICES ASSUME NEW d \in Devices, device'[d].group # None
               PROVE  device'[d].reg /\ Live(device[d].group)'
    BY DEF MembersOfLiveGroups
  <1>1. CASE UNCHANGED vars
    BY <1>1 DEF vars, MembersOfLiveGroups, Live
  <1>2. CASE Next
    <2>1. PICK t \in Threads : Step(t)
      BY <1>2 DEF Next
    <2>2. PICK g \in GroupIds : g = device'[d].group
      BY <2>1, TablesStep DEF DeviceRow
    <2>3. device'[d].reg /\ Live(g)
      <3>1. CASE AddUpdate(t)
        <4>1. CASE UNCHANGED device
          BY <4>1, <2>2 DEF MembersOfLiveGroups
        <4>2. CASE ~UNCHANGED device
          <5>1. PICK e \in Devices :
                  /\ device[e].reg /\ Live(req[t].grp)
                  /\ device' = [device EXCEPT ![e].group = req[t].grp]
            BY <3>1, <4>2, AddStep
          <5> QED
            BY <5>1, <2>2 DEF MembersOfLiveGroups, TypeInv, TypeOK, DeviceRow
        <4> QED
          BY <4>1, <4>2
      <3>2. CASE ~AddUpdate(t)
        BY <3>2, <2>1, <2>2, MoveStep DEF MembersOfLiveGroups, Stays, Leaves
      <3> QED
        BY <3>1, <3>2
    <2>4. Live(g)'
      BY <2>1, <2>2, <2>3, LiveStep
    <2> QED
      BY <2>2, <2>3, <2>4 DEF Live
  <1> QED
    BY <1>1, <1>2

(* However the requests interleave, a board in a group is registered and the  *)
(* group exists: mesh_group_id never dangles.                                 *)
THEOREM MembersAreLive == Spec => []MembersOfLiveGroups
  <1>1. Init => MembersOfLiveGroups
    BY DEF Init, MembersOfLiveGroups, NoRow
  <1>2. TypeInv /\ MembersOfLiveGroups /\ [Next]_vars => MembersOfLiveGroups'
    BY MembersStep
  <1> QED
    BY <1>1, <1>2, TypeInvariant, PTL DEF Spec

(* However the requests interleave, no group outgrows MaxDevices: the limit  *)
(* is compared in the same transaction that adds the board.                  *)
THEOREM LimitHolds == Spec => []GroupWithinLimit
  <1>1. Init => GroupWithinLimit
    <2> SUFFICES ASSUME Init, NEW g \in GroupIds
                 PROVE  Cardinality(Members(g)) <= MaxDevices
      BY DEF GroupWithinLimit
    <2>1. Members(g) = {}
      BY GroupsAssumption DEF Init, Members, NoRow
    <2> QED
      BY <2>1, FS_EmptySet, GroupsAssumption
  <1>2. TypeInv /\ GroupWithinLimit /\ [Next]_vars => GroupWithinLimit'
    <2> SUFFICES ASSUME TypeInv, GroupWithinLimit, [Next]_vars, NEW g \in GroupIds
                 PROVE  Cardinality(Members(g)') <= MaxDevices
      BY DEF GroupWithinLimit
    <2>1. /\ IsFiniteSet(Members(g))
          /\ Cardinality(Members(g)) \in Nat
          /\ Cardinality(Members(g)) <= MaxDevices
      <3>1. IsFiniteSet(Members(g))
        BY FS_Subset, GroupsAssumption DEF Members
      <3> QED
        BY <3>1, FS_CardinalityType DEF GroupWithinLimit
    <2>2. ASSUME Members(g)' \subseteq Members(g)
          PROVE  Cardinality(Members(g)') <= MaxDevices
      <3>1. /\ Cardinality(Members(g)') \in Nat
            /\ Cardinality(Members(g)') <= Cardinality(Members(g))
        BY <2>1, <2>2, FS_Subset, FS_CardinalityType
      <3> QED
        BY <3>1, <2>1, GroupsAssumption
    <2>3. CASE UNCHANGED vars
      BY <2>2, <2>3 DEF vars, Members
    <2>4. CASE Next
      <3>1. PICK t \in Threads : Step(t)
        BY <2>4 DEF Next
      <3>2. CASE ~AddUpdate(t)
        <4>1. Members(g)' \subseteq Members(g)
          BY <3>1, <3>2, MoveStep, GroupsAssumption DEF Members, Stays, Leaves
        <4> QED
          BY <4>1, <2>2
      <3>3. CASE AddUpdate(t)
        <4>1. CASE UNCHANGED device
          BY <4>1, <2>2 DEF Members
        <4>2. CASE ~UNCHANGED device
          <5>1. PICK d \in Devices :
                  /\ Cardinality(Members(req[t].grp)) < MaxDevices
                  /\ device' = [device EXCEPT ![d].group = req[t].grp]
            BY <3>3, <4>2, AddStep
          <5>2. CASE req[t].grp # g
            <6>1. Members(g)' \subseteq Members(g)
              BY <5>1, <5>2 DEF Members, TypeInv, TypeOK, DeviceRow
            <6> QED
              BY <6>1, <2>2
          <5>3. CASE req[t].grp = g
            <6>1. \A e \in Devices : device'[e].group = g <=> device[e].group = g \/ e = d
              BY <5>1, <5>3 DEF TypeInv, TypeOK, DeviceRow
            <6>2. Members(g)' = Members(g) \cup {d}
              BY <6>1 DEF Members
            <6>3. Cardinality(Members(g)') \in {Cardinality(Members(g)), Cardinality(Members(g)) + 1}
              BY <6>2, <2>1, FS_AddElement
            <6>4. Cardinality(Members(g)) < MaxDevices
              BY <5>1, <5>3
            <6> QED
              BY <6>3, <6>4, <2>1, GroupsAssumption
          <5> QED
            BY <5>2, <5>3
        <4> QED
          BY <4>1, <4>2
      <3> QED
        BY <3>2, <3>3
    <2> QED
      BY <2>3, <2>4
  <1> QED
    BY <1>1, <1>2, TypeInvariant, PTL DEF Spec
-----------------------------------------------------------------------------
(* One thread: what SerialMembership needs between the transactions of a     *)
(* request.  A board's owner differs from its group's only while the owner's *)
(* change is under way, and a board out of a group knows the group's key     *)
(* only between the two UPDATEs of _detach.                                  *)
Matches(d) ==
    device[d].group # None => group[device[d].group].owner = device[d].owner
Custody(d, g) ==
    Live(g) /\ <<g, group[g].version>> \in known[d] => device[d].group = g

ChangingHands == {"owner.device", "owner.group", "detach.clear"}
Calm == req[t1].pc \notin ChangingHands \cup {"detach.rotate"}

(* What a request has read and still holds. *)
SerialRequest ==
    LET r == req[t1] IN
    /\ r.pc = "add.device" => r.usr = group[r.grp].owner
    /\ r.pc = "add.update" => device[r.dev].owner = group[r.grp].owner
    /\ r.pc \in {"owner.set", "owner.device", "owner.group"} => r.next # "delete.row"
    /\ r.pc = "owner.group" => device[r.dev].group = r.grp /\ device[r.dev].owner = r.usr
    /\ r.pc = "detach.clear" => device[r.dev].group = r.grp
    /\ r.pc \in {"detach.rotate", "delete.row"} => device[r.dev].group = None
    /\ r.pc \in {"sync.report", "sync.group"} /\ r.grp # None => device[r.dev].group = r.grp

OwnersInv ==
    \A d \in Devices : Matches(d) \/ (d = req[t1].dev /\ req[t1].pc \in ChangingHands)
KeysInv ==
    \A d \in Devices, g \in GroupIds :
        Custody(d, g) \/ (req[t1].pc = "detach.rotate" /\ d = req[t1].dev /\ g = req[t1].grp)

(* No board knows a key of a group not created, nor one not drawn yet. *)
KnownInv ==
    \A d \in Devices, g \in GroupIds, v \in 1..MaxVersion :
        <<g, v>> \in known[d] => group[g].state # "free" /\ v <= group[g].version

SerialInv == SerialRequest /\ OwnersInv /\ KeysInv /\ KnownInv

LEMMA CalmAllWell ==
    ASSUME SerialInv, Calm
    PROVE  /\ \A d \in Devices : Matches(d)
           /\ \A d \in Devices, g \in GroupIds : Custody(d, g)
  BY DEF SerialInv, OwnersInv, KeysInv, Calm

(* Labels that hold nothing read before. *)
PlainLabels == {"idle", "remove.device", "owner.set", "claim.code", "claim.approve",
                "claim.decide", "reject.decide", "submit.insert", "code.set",
                "disabled.set", "delete.device", "register.create", "group.delete"}

LEMMA PlainRequest ==
    ASSUME req'[t1].pc \in PlainLabels, req'[t1].next # "delete.row" \/ req'[t1].pc # "owner.set"
    PROVE  SerialRequest'
  BY DEF PlainLabels, SerialRequest

LEMMA FinishPlain ==
    ASSUME TypeInv, Finish(t1)
    PROVE  req'[t1] = Idle /\ SerialRequest'
  BY ServesOne, PlainRequest DEF TypeInv, TypeOK, Finish, Idle, PlainLabels

LEMMA GotoPc ==
    ASSUME TypeInv, NEW label, Goto(t1, label), label # "idle"
    PROVE  req'[t1] = [req[t1] EXCEPT !.pc = label]
  BY ServesOne DEF TypeInv, TypeOK, Goto

(* Steps that write neither mesh_group_id nor an owner nor a key. *)
SameOwnership ==
    /\ UNCHANGED <<group, known>>
    /\ \A d \in Devices : device'[d].group = device[d].group /\ device'[d].owner = device[d].owner

LEMMA SameStep ==
    ASSUME SameOwnership, KnownInv
    PROVE  /\ \A d \in Devices : Matches(d) => Matches(d)'
           /\ \A d \in Devices, g \in GroupIds : Custody(d, g) => Custody(d, g)'
           /\ KnownInv'
  <1>1. \A d \in Devices : Matches(d) => Matches(d)'
    BY DEF SameOwnership, Matches
  <1>2. \A d \in Devices, g \in GroupIds : Custody(d, g) => Custody(d, g)'
    BY DEF SameOwnership, Custody, Live
  <1>3. KnownInv'
    BY DEF SameOwnership, KnownInv
  <1> QED
    BY <1>1, <1>2, <1>3

LEMMA CalmStep ==
    ASSUME SerialInv, Calm, SameOwnership, SerialRequest'
    PROVE  SerialInv'
  <1>1. KnownInv
    BY DEF SerialInv
  <1>2. /\ \A d \in Devices : Matches(d)'
        /\ \A d \in Devices, g \in GroupIds : Custody(d, g)'
        /\ KnownInv'
    BY <1>1, CalmAllWell, SameStep
  <1> QED
    BY <1>2 DEF SerialInv, OwnersInv, KeysInv

(* A request that begins leaves the tables and starts from rest. *)
LEMMA BeginCalm ==
    ASSUME TypeInv, NEW op, NEW r, Begin(t1, op, r)
    PROVE  Calm /\ req'[t1] = r
  BY ServesOne DEF TypeInv, TypeOK, Begin, Calm, Idle, ChangingHands

LEMMA TablesAlone ==
    ASSUME UNCHANGED <<device, group, known>>
    PROVE  SameOwnership
  BY DEF SameOwnership
LEMMA SerialBegin ==
    ASSUME TypeInv, SerialInv,
           \/ DeleteGroup(t1) \/ AddDevice(t1) \/ RemoveDevice(t1) \/ SetDisabled(t1)
           \/ RegisterDevice(t1) \/ DeleteDevice(t1) \/ GenerateCode(t1) \/ SubmitClaim(t1)
           \/ ApproveClaim(t1) \/ ReassignOwner(t1) \/ RejectClaim(t1) \/ Sync(t1)
    PROVE  SerialInv' /\ req'[t1].pc # "detach.rotate"
  <1>a. UNCHANGED <<device, group, known>>
    BY DEF DeleteGroup, AddDevice, RemoveDevice, SetDisabled, RegisterDevice, DeleteDevice,
           GenerateCode, SubmitClaim, ApproveClaim, ReassignOwner, RejectClaim, Sync
  <1>b. \E op, r : Begin(t1, op, r)
    BY DEF DeleteGroup, AddDevice, RemoveDevice, SetDisabled, RegisterDevice, DeleteDevice,
           GenerateCode, SubmitClaim, ApproveClaim, ReassignOwner, RejectClaim, Sync
  <1>c. Calm
    BY <1>b, BeginCalm
  <1>d. t1 \in DOMAIN req
    BY ServesOne DEF TypeInv, TypeOK
  <1> SUFFICES SerialRequest' /\ req'[t1].pc # "detach.rotate"
    BY <1>a, <1>c, TablesAlone, CalmStep
  <1>1. CASE AddDevice(t1)
    <2>1. PICK g \in GroupIds, d \in Devices :
            Begin(t1, "add_device", [Idle EXCEPT !.pc = "add.device", !.grp = g, !.dev = d,
                                                 !.usr = group[g].owner])
      BY <1>1 DEF AddDevice
    <2>2. /\ req'[t1].pc = "add.device"
          /\ req'[t1].grp = g
          /\ req'[t1].usr = group[g].owner
      BY <2>1, <1>d DEF Begin, Idle
    <2> QED
      BY <2>2, <1>a DEF SerialRequest
  <1>2. CASE Sync(t1)
    <2>1. PICK d \in Devices :
            Begin(t1, "sync", [Idle EXCEPT !.pc = "sync.report", !.dev = d,
                               !.grp = IF device[d].valid THEN device[d].group ELSE None])
      BY <1>2 DEF Sync
    <2>2. /\ req'[t1].pc = "sync.report"
          /\ req'[t1].dev = d
          /\ req'[t1].grp # None => device[d].group = req'[t1].grp
      BY <2>1, <1>d DEF Begin, Idle
    <2> QED
      BY <2>2, <1>a DEF SerialRequest
  <1>3. CASE DeleteGroup(t1)
    <2>1. PICK g \in GroupIds :
            Begin(t1, "delete_group", [Idle EXCEPT !.pc = "group.delete", !.grp = g])
      BY <1>3 DEF DeleteGroup
    <2>2. req'[t1].pc = "group.delete"
      BY <2>1, <1>d DEF Begin, Idle
    <2> QED
      BY <2>2, PlainRequest DEF PlainLabels
  <1>4. CASE RemoveDevice(t1)
    <2>1. PICK g \in GroupIds, d \in Devices :
            Begin(t1, "remove_device", [Idle EXCEPT !.pc = "remove.device", !.grp = g, !.dev = d])
      BY <1>4 DEF RemoveDevice
    <2>2. req'[t1].pc = "remove.device"
      BY <2>1, <1>d DEF Begin, Idle
    <2> QED
      BY <2>2, PlainRequest DEF PlainLabels
  <1>5. CASE SetDisabled(t1)
    <2>1. PICK d \in Devices :
            Begin(t1, "set_disabled", [Idle EXCEPT !.pc = "disabled.set", !.dev = d])
      BY <1>5 DEF SetDisabled
    <2>2. req'[t1].pc = "disabled.set"
      BY <2>1, <1>d DEF Begin, Idle
    <2> QED
      BY <2>2, PlainRequest DEF PlainLabels
  <1>6. CASE RegisterDevice(t1)
    <2>1. PICK d \in Devices :
            Begin(t1, "register", [Idle EXCEPT !.pc = "register.create", !.dev = d])
      BY <1>6 DEF RegisterDevice
    <2>2. req'[t1].pc = "register.create"
      BY <2>1, <1>d DEF Begin, Idle
    <2> QED
      BY <2>2, PlainRequest DEF PlainLabels
  <1>7. CASE DeleteDevice(t1)
    <2>1. PICK d \in Devices :
            Begin(t1, "delete_device", [Idle EXCEPT !.pc = "delete.device", !.dev = d,
                                                  !.next = "delete.row"])
      BY <1>7 DEF DeleteDevice
    <2>2. req'[t1].pc = "delete.device"
      BY <2>1, <1>d DEF Begin, Idle
    <2> QED
      BY <2>2, PlainRequest DEF PlainLabels
  <1>8. CASE GenerateCode(t1)
    <2>1. PICK d \in Devices :
            Begin(t1, "claim_code", [Idle EXCEPT !.pc = "code.set", !.dev = d])
      BY <1>8 DEF GenerateCode
    <2>2. req'[t1].pc = "code.set"
      BY <2>1, <1>d DEF Begin, Idle
    <2> QED
      BY <2>2, PlainRequest DEF PlainLabels
  <1>9. CASE SubmitClaim(t1)
    <2>1. PICK d \in Devices, u \in Users :
            Begin(t1, "submit_claim", [Idle EXCEPT !.pc = "submit.insert", !.dev = d, !.usr = u])
      BY <1>9 DEF SubmitClaim
    <2>2. req'[t1].pc = "submit.insert"
      BY <2>1, <1>d DEF Begin, Idle
    <2> QED
      BY <2>2, PlainRequest DEF PlainLabels
  <1>10. CASE RejectClaim(t1)
    <2>1. PICK c \in ClaimIds :
            Begin(t1, "reject_claim", [Idle EXCEPT !.pc = "reject.decide", !.clm = c])
      BY <1>10 DEF RejectClaim
    <2>2. req'[t1].pc = "reject.decide"
      BY <2>1, <1>d DEF Begin, Idle
    <2> QED
      BY <2>2, PlainRequest DEF PlainLabels
  <1>11. CASE ReassignOwner(t1)
    <2>1. PICK d \in Devices, u \in Users \cup {None} :
            Begin(t1, "reassign", [Idle EXCEPT !.pc = "owner.set", !.dev = d, !.usr = u])
      BY <1>11 DEF ReassignOwner
    <2>2. req'[t1].pc = "owner.set" /\ req'[t1].next # "delete.row"
      BY <2>1, <1>d DEF Begin, Idle
    <2> QED
      BY <2>2, PlainRequest DEF PlainLabels
  <1>12. CASE ApproveClaim(t1)
    <2>1. PICK c \in ClaimIds :
            Begin(t1, "approve_claim", [pc |-> "owner.set", dev |-> claim[c].device, grp |-> None,
                                        usr |-> claim[c].user, clm |-> c, next |-> "claim.code"])
      BY <1>12 DEF ApproveClaim
    <2>2. req'[t1].pc = "owner.set" /\ req'[t1].next # "delete.row"
      BY <2>1, <1>d DEF Begin, Idle
    <2> QED
      BY <2>2, PlainRequest DEF PlainLabels
  <1> QED
    BY <1>1, <1>2, <1>3, <1>4, <1>5, <1>6, <1>7, <1>8, <1>9, <1>10, <1>11, <1>12

(* Writing one column of a row leaves the columns that carry ownership. *)
LEMMA ColumnKeeps ==
    ASSUME device \in [Devices -> DeviceRow], NEW d, UNCHANGED <<group, known>>,
           \/ UNCHANGED device
           \/ \E k : device' = [device EXCEPT ![d].code = k]
           \/ \E b : device' = [device EXCEPT ![d].disabled = b]
           \/ \E v : device' = [device EXCEPT ![d].valid = v]
    PROVE  SameOwnership
  <1>1. CASE UNCHANGED device
    BY <1>1 DEF SameOwnership
  <1>2. ASSUME NEW k, device' = [device EXCEPT ![d].code = k]
        PROVE  SameOwnership
    BY <1>2 DEF SameOwnership, DeviceRow
  <1>3. ASSUME NEW b, device' = [device EXCEPT ![d].disabled = b]
        PROVE  SameOwnership
    BY <1>3 DEF SameOwnership, DeviceRow
  <1>4. ASSUME NEW v, device' = [device EXCEPT ![d].valid = v]
        PROVE  SameOwnership
    BY <1>4 DEF SameOwnership, DeviceRow
  <1> QED
    BY <1>1, <1>2, <1>3, <1>4

(* Transactions that end a request and touch neither group, owner nor key. *)
LEMMA SerialColumns ==
    ASSUME TypeInv, SerialInv,
           \/ SetDisabledRow(t1) \/ SetCode(t1) \/ SubmitInsert(t1) \/ ClaimDecide(t1)
           \/ RejectDecide(t1) \/ SetValidity(t1) \/ ClaimClearCode(t1)
           \/ ClaimApproveDevice(t1)
    PROVE  SerialInv'
  <1>a. device \in [Devices -> DeviceRow]
    BY DEF TypeInv, TypeOK
  <1>1. CASE SetDisabledRow(t1)
    <2>1. SameOwnership
      BY <1>1, <1>a, ColumnKeeps DEF SetDisabledRow
    <2>2. Calm /\ Finish(t1)
      BY <1>1 DEF SetDisabledRow, At, Calm, ChangingHands
    <2> QED
      BY <2>1, <2>2, FinishPlain, CalmStep
  <1>2. CASE SetCode(t1)
    <2>1. SameOwnership
      BY <1>2, <1>a, ColumnKeeps DEF SetCode
    <2>2. Calm /\ Finish(t1)
      BY <1>2 DEF SetCode, At, Calm, ChangingHands
    <2> QED
      BY <2>1, <2>2, FinishPlain, CalmStep
  <1>3. CASE SubmitInsert(t1) \/ ClaimDecide(t1) \/ RejectDecide(t1)
    <2>1. SameOwnership
      BY <1>3, TablesAlone DEF SubmitInsert, ClaimDecide, RejectDecide
    <2>2. Calm /\ Finish(t1)
      BY <1>3 DEF SubmitInsert, ClaimDecide, RejectDecide, At, Calm, ChangingHands
    <2> QED
      BY <2>1, <2>2, FinishPlain, CalmStep
  <1>4. CASE SetValidity(t1)
    <2>1. SameOwnership
      <3>1. PICK d \in Devices, v \in BOOLEAN : device' = [device EXCEPT ![d].valid = v]
        BY <1>4 DEF SetValidity
      <3> QED
        BY <1>4, <3>1, <1>a, ColumnKeeps DEF SetValidity
    <2>2. Begin(t1, "validity", Idle)
      BY <1>4 DEF SetValidity, Serve
    <2>3. Calm /\ req'[t1] = Idle
      BY <2>2, BeginCalm
    <2>4. SerialRequest'
      BY <2>3, PlainRequest DEF Idle, PlainLabels
    <2> QED
      BY <2>1, <2>3, <2>4, CalmStep
  <1>5. CASE ClaimClearCode(t1)
    <2>1. SameOwnership
      BY <1>5, <1>a, ColumnKeeps DEF ClaimClearCode
    <2>2. Calm /\ Goto(t1, "claim.approve")
      BY <1>5 DEF ClaimClearCode, At, Calm, ChangingHands
    <2>3. req'[t1].pc = "claim.approve"
      BY <2>2, GotoPc, ServesOne DEF TypeInv, TypeOK, Request
    <2> QED
      BY <2>1, <2>2, <2>3, PlainRequest, CalmStep DEF PlainLabels
  <1>6. CASE ClaimApproveDevice(t1)
    <2>1. SameOwnership
      BY <1>6, <1>a, ColumnKeeps DEF ClaimApproveDevice
    <2>2. Calm /\ Goto(t1, "claim.decide")
      BY <1>6 DEF ClaimApproveDevice, At, Calm, ChangingHands
    <2>3. req'[t1].pc = "claim.decide"
      BY <2>2, GotoPc, ServesOne DEF TypeInv, TypeOK, Request
    <2> QED
      BY <2>1, <2>2, <2>3, PlainRequest, CalmStep DEF PlainLabels
  <1> QED
    BY <1>1, <1>2, <1>3, <1>4, <1>5, <1>6
(* The reads of a request under way: the tables stay, what was read is true. *)
LEMMA SerialReads ==
    ASSUME TypeInv, SerialInv, MembersOfLiveGroups,
           \/ AddCheckDevice(t1) \/ RemoveCheckDevice(t1) \/ DeleteCheckGroup(t1)
           \/ SyncReport(t1)
    PROVE  SerialInv'
  <1>a. UNCHANGED <<device, group, known>>
    BY DEF AddCheckDevice, RemoveCheckDevice, DeleteCheckGroup, SyncReport
  <1>b. /\ req[t1] \in GoodRequest /\ req[t1] \in Request
        /\ req[t1].pc \in DeviceLabels => req[t1].dev \in Devices
        /\ req[t1].pc \in GroupLabels => req[t1].grp \in GroupIds
    BY ServesOne DEF TypeInv, RequestInv, GoodRequest
  <1>c. Calm
    BY DEF AddCheckDevice, RemoveCheckDevice, DeleteCheckGroup, SyncReport, At, Calm,
           ChangingHands
  <1> SUFFICES SerialRequest'
    BY <1>a, <1>c, TablesAlone, CalmStep
  <1>1. CASE AddCheckDevice(t1)
    <2>1. CASE Finish(t1)
      BY <2>1, FinishPlain
    <2>2. CASE ~Finish(t1)
      <3>1. /\ Goto(t1, "add.update")
            /\ device[req[t1].dev].owner = req[t1].usr
            /\ req[t1].pc = "add.device"
        BY <1>1, <2>2 DEF AddCheckDevice, At
      <3>2. req[t1].usr = group[req[t1].grp].owner
        BY <3>1 DEF SerialInv, SerialRequest
      <3>3. req'[t1] = [req[t1] EXCEPT !.pc = "add.update"]
        BY <3>1, GotoPc
      <3>4. /\ req'[t1].pc = "add.update"
            /\ req'[t1].dev = req[t1].dev
            /\ req'[t1].grp = req[t1].grp
        BY <3>3, <1>b DEF Request
      <3> QED
        BY <3>1, <3>2, <3>4, <1>a DEF SerialRequest
    <2> QED
      BY <2>1, <2>2
  <1>2. CASE RemoveCheckDevice(t1)
    <2>1. CASE Finish(t1)
      BY <2>1, FinishPlain
    <2>2. CASE ~Finish(t1)
      <3>1. /\ Goto(t1, "detach.clear")
            /\ device[req[t1].dev].group = req[t1].grp
        BY <1>2, <2>2 DEF RemoveCheckDevice
      <3>2. req'[t1] = [req[t1] EXCEPT !.pc = "detach.clear"]
        BY <3>1, GotoPc
      <3>3. /\ req'[t1].pc = "detach.clear"
            /\ req'[t1].dev = req[t1].dev
            /\ req'[t1].grp = req[t1].grp
        BY <3>2, <1>b DEF Request
      <3> QED
        BY <3>1, <3>3, <1>a DEF SerialRequest
    <2> QED
      BY <2>1, <2>2
  <1>3. CASE DeleteCheckGroup(t1)
    <2>a. req[t1].dev \in Devices
      BY <1>3, <1>b DEF DeleteCheckGroup, At, DeviceLabels, Labels
    <2>1. CASE device[req[t1].dev].reg /\ device[req[t1].dev].group # None
      <3>1. req' = [req EXCEPT ![t1] = [req[t1] EXCEPT !.grp = device[req[t1].dev].group,
                                                       !.pc = "detach.clear"]]
        BY <1>3, <2>1 DEF DeleteCheckGroup
      <3>2. req'[t1] = [req[t1] EXCEPT !.grp = device[req[t1].dev].group, !.pc = "detach.clear"]
        BY <3>1, ServesOne DEF TypeInv, TypeOK
      <3>3. /\ req'[t1].pc = "detach.clear"
            /\ req'[t1].dev = req[t1].dev
            /\ req'[t1].grp = device[req[t1].dev].group
        BY <3>2, <1>b DEF Request
      <3> QED
        BY <3>3, <1>a DEF SerialRequest
    <2>2. CASE ~(device[req[t1].dev].reg /\ device[req[t1].dev].group # None)
      <3>1. Goto(t1, "delete.row")
        BY <1>3, <2>2 DEF DeleteCheckGroup
      <3>2. device[req[t1].dev].group = None
        BY <2>a, <2>2 DEF MembersOfLiveGroups
      <3>3. req'[t1] = [req[t1] EXCEPT !.pc = "delete.row"]
        BY <3>1, GotoPc
      <3>4. req'[t1].pc = "delete.row" /\ req'[t1].dev = req[t1].dev
        BY <3>3, <1>b DEF Request
      <3> QED
        BY <3>2, <3>4, <1>a DEF SerialRequest
    <2> QED
      BY <2>1, <2>2
  <1>4. CASE SyncReport(t1)
    <2>1. CASE Finish(t1)
      BY <2>1, FinishPlain
    <2>2. CASE ~Finish(t1)
      <3>1. Goto(t1, "sync.group") /\ req[t1].pc = "sync.report"
        BY <1>4, <2>2 DEF SyncReport, At
      <3>2. req'[t1] = [req[t1] EXCEPT !.pc = "sync.group"]
        BY <3>1, GotoPc
      <3>3. /\ req'[t1].pc = "sync.group"
            /\ req'[t1].dev = req[t1].dev
            /\ req'[t1].grp = req[t1].grp
        BY <3>2, <1>b DEF Request
      <3>4. req[t1].grp # None => device[req[t1].dev].group = req[t1].grp
        BY <3>1 DEF SerialInv, SerialRequest
      <3> QED
        BY <3>3, <3>4, <1>a DEF SerialRequest
    <2> QED
      BY <2>1, <2>2
  <1> QED
    BY <1>1, <1>2, <1>3, <1>4

(* A group is created with a key no board knows, or deleted with its         *)
(* memberships.                                                              *)
LEMMA SerialGroups ==
    ASSUME TypeInv, SerialInv, MembersOfLiveGroups, CreateGroup(t1) \/ DeleteGroupRows(t1)
    PROVE  SerialInv'
  <1> USE GroupsAssumption
  <1>a. /\ device \in [Devices -> DeviceRow]
        /\ group \in [GroupIds -> GroupRow]
        /\ known \in [Devices -> SUBSET Keys]
    BY DEF TypeInv, TypeOK
  <1>1. CASE CreateGroup(t1)
    <2>1. PICK g \in GroupIds, u \in Users :
            /\ group[g].state = "free"
            /\ group' = [group EXCEPT ![g] = [state |-> "live", owner |-> u, version |-> 1]]
      BY <1>1 DEF CreateGroup
    <2>2. UNCHANGED <<device, known>> /\ Begin(t1, "create_group", Idle)
      BY <1>1 DEF CreateGroup, Serve
    <2>3. Calm /\ req'[t1] = Idle
      BY <2>2, BeginCalm
    <2>4. SerialRequest'
      BY <2>3, PlainRequest DEF Idle, PlainLabels
    <2>5. \A d \in Devices : device[d].group # g
      BY <2>1 DEF MembersOfLiveGroups, Live
    <2>6. \A d \in Devices : Matches(d)'
      BY <2>1, <2>2, <2>3, <2>5, <1>a, CalmAllWell DEF Matches, DeviceRow
    <2>7. \A d \in Devices, v \in 1..MaxVersion : <<g, v>> \notin known[d]
      BY <2>1 DEF SerialInv, KnownInv
    <2>8. \A h \in GroupIds : h # g => group'[h] = group[h]
      BY <2>1, <1>a
    <2>9. \A d \in Devices, h \in GroupIds : Custody(d, h)'
      <3> SUFFICES ASSUME NEW d \in Devices, NEW h \in GroupIds, Live(h)',
                          <<h, group'[h].version>> \in known'[d]
                   PROVE  device'[d].group = h
        BY DEF Custody
      <3>1. CASE h = g
        <4>1. group'[g].version = 1 /\ 1 \in 1..MaxVersion
          BY <2>1, <1>a
        <4> QED
          BY <4>1, <3>1, <2>2, <2>7
      <3>2. CASE h # g
        <4>1. Custody(d, h)
          BY <2>3, CalmAllWell
        <4> QED
          BY <4>1, <3>2, <2>2, <2>8 DEF Custody, Live
      <3> QED
        BY <3>1, <3>2
    <2>10. KnownInv'
      <3> SUFFICES ASSUME NEW d \in Devices, NEW h \in GroupIds, NEW v \in 1..MaxVersion,
                          <<h, v>> \in known[d]
                   PROVE  group'[h].state # "free" /\ v <= group'[h].version
        BY <2>2 DEF KnownInv
      <3>1. h # g
        BY <2>7
      <3> QED
        BY <3>1, <2>8 DEF SerialInv, KnownInv
    <2> QED
      BY <2>4, <2>6, <2>9, <2>10 DEF SerialInv, OwnersInv, KeysInv
  <1>2. CASE DeleteGroupRows(t1)
    <2> DEFINE g == req[t1].grp
    <2>1. /\ g \in GroupIds
          /\ Calm
      BY <1>2, ServesOne DEF DeleteGroupRows, At, TypeInv, RequestInv, GoodRequest, GroupLabels,
                             Calm, ChangingHands
    <2>2. /\ device' = [d \in Devices |->
                          IF device[d].group = g THEN [device[d] EXCEPT !.group = None]
                                                 ELSE device[d]]
          /\ group' = [group EXCEPT ![g].state = "gone"]
          /\ Finish(t1)
          /\ UNCHANGED known
      BY <1>2 DEF DeleteGroupRows
    <2>3. SerialRequest'
      BY <2>2, FinishPlain
    <2> HIDE DEF g
    <2>4. \A h \in GroupIds : /\ group'[h].owner = group[h].owner
                              /\ group'[h].version = group[h].version
                              /\ group'[h].state = IF h = g THEN "gone" ELSE group[h].state
      BY <2>1, <2>2, <1>a DEF GroupRow
    <2>5. \A d \in Devices :
            /\ device'[d].owner = device[d].owner
            /\ device'[d].group = IF device[d].group = g THEN None ELSE device[d].group
      BY <2>2, <1>a DEF DeviceRow
    <2>6. \A d \in Devices : Matches(d)'
      BY <2>1, <2>4, <2>5, <1>a, CalmAllWell DEF Matches, DeviceRow
    <2>7. \A d \in Devices, h \in GroupIds : Custody(d, h)'
      BY <2>1, <2>2, <2>4, <2>5, CalmAllWell DEF Custody, Live
    <2>8. KnownInv'
      BY <2>2, <2>4 DEF SerialInv, KnownInv
    <2> QED
      BY <2>3, <2>6, <2>7, <2>8 DEF SerialInv, OwnersInv, KeysInv
  <1> QED
    BY <1>1, <1>2
LEMMA GotoNext ==
    ASSUME TypeInv, Goto(t1, req[t1].next),
           req[t1].next = "delete.row" => device'[req[t1].dev].group = None
    PROVE  SerialRequest' /\ Calm'
  <1>1. /\ req[t1].next \in {"idle", "delete.row", "claim.code"}
        /\ req[t1] \in Request
    BY ServesOne DEF TypeInv, RequestInv, GoodRequest
  <1>2. CASE req[t1].next = "idle"
    <2>1. Finish(t1)
      BY <1>2 DEF Goto
    <2> QED
      BY <2>1, FinishPlain DEF Calm, Idle, ChangingHands
  <1>3. CASE req[t1].next # "idle"
    <2>1. req'[t1] = [req[t1] EXCEPT !.pc = req[t1].next]
      BY <1>3, GotoPc
    <2>2. req'[t1].pc = req[t1].next /\ req'[t1].dev = req[t1].dev
      BY <2>1, <1>1 DEF Request
    <2>3. Calm'
      BY <2>2, <1>1 DEF Calm, ChangingHands
    <2>4. CASE req[t1].next = "claim.code"
      BY <2>2, <2>3, <2>4, PlainRequest DEF PlainLabels
    <2>5. CASE req[t1].next = "delete.row"
      BY <2>2, <2>3, <2>5 DEF SerialRequest
    <2> QED
      BY <1>1, <1>3, <2>4, <2>5
  <1> QED
    BY <1>2, <1>3

(* The change of owner: the two reads that follow it decide on the detaching. *)
LEMMA SerialOwner ==
    ASSUME TypeInv, SerialInv, MembersOfLiveGroups,
           SetOwner(t1) \/ OwnerCheckDevice(t1) \/ OwnerCheckGroup(t1)
    PROVE  SerialInv'
  <1> DEFINE dev == req[t1].dev
  <1>a. /\ req[t1] \in Request
        /\ req[t1].pc = "owner.group" => req[t1].grp \in GroupIds
        /\ device \in [Devices -> DeviceRow]
    BY ServesOne DEF TypeInv, TypeOK, RequestInv, GoodRequest, GroupLabels
  <1>b. dev \in Devices /\ req[t1].next # "delete.row"
    BY ServesOne DEF SetOwner, OwnerCheckDevice, OwnerCheckGroup, At, TypeInv, RequestInv,
       GoodRequest, DeviceLabels, Labels, SerialInv, SerialRequest
  <1>c. UNCHANGED <<group, known>> /\ KnownInv
    BY DEF SetOwner, OwnerCheckDevice, OwnerCheckGroup, SerialInv
  <1>d. \A d \in Devices, g \in GroupIds : Custody(d, g)
    BY DEF SetOwner, OwnerCheckDevice, OwnerCheckGroup, At, SerialInv, KeysInv
  <1>e. \A d \in Devices : d # dev => Matches(d)
    BY DEF SerialInv, OwnersInv
  <1>1. CASE SetOwner(t1)
    <2>1. \A d \in Devices : /\ device'[d].group = device[d].group
                             /\ d # dev => device'[d].owner = device[d].owner
      BY <1>1, <1>a DEF SetOwner, DeviceRow
    <2>2. Goto(t1, "owner.device")
      BY <1>1 DEF SetOwner
    <2>3. req'[t1] = [req[t1] EXCEPT !.pc = "owner.device"]
      BY <2>2, GotoPc
    <2>4. /\ req'[t1].pc = "owner.device"
          /\ req'[t1].dev = dev
          /\ req'[t1].next # "delete.row"
      BY <2>3, <1>a, <1>b DEF Request
    <2> HIDE DEF dev
    <2>5. SerialRequest'
      BY <2>4 DEF SerialRequest
    <2>6. OwnersInv'
      BY <1>e, <1>c, <2>1, <2>4 DEF OwnersInv, Matches, ChangingHands
    <2>7. KeysInv' /\ KnownInv'
      BY <1>d, <1>c, <2>1 DEF KeysInv, KnownInv, Custody, Live
    <2> QED
      BY <2>5, <2>6, <2>7 DEF SerialInv
  <1>2. CASE ~SetOwner(t1)
    <2>1. UNCHANGED <<device, group, known>>
      BY <1>2 DEF OwnerCheckDevice, OwnerCheckGroup
    <2>2. /\ \A d \in Devices : d # dev => Matches(d)'
          /\ \A d \in Devices : Matches(d) => Matches(d)'
          /\ \A d \in Devices, g \in GroupIds : Custody(d, g)'
          /\ KnownInv'
      <3> QED
        BY <1>b, <1>c, <1>d, <1>e, <2>1, TablesAlone, SameStep
    <2>3. ASSUME Matches(dev), Goto(t1, req[t1].next)
          PROVE  SerialInv'
      <3>1. SerialRequest' /\ Calm'
        BY <2>3, <1>b, GotoNext
      <3>2. \A d \in Devices : Matches(d)'
        BY <2>2, <2>3
      <3> QED
        BY <3>1, <3>2, <2>2 DEF SerialInv, OwnersInv, KeysInv
    <2>4. ASSUME SerialRequest', req'[t1].dev = dev, req'[t1].pc \in ChangingHands
          PROVE  SerialInv'
      BY <2>2, <2>4 DEF SerialInv, OwnersInv, KeysInv
    <2>5. CASE OwnerCheckDevice(t1)
      <3>1. CASE ~device[dev].reg \/ device[dev].group = None
        <4>1. Goto(t1, req[t1].next)
          BY <2>5, <3>1 DEF OwnerCheckDevice
        <4>2. Matches(dev)
          BY <1>b, <3>1 DEF Matches, MembersOfLiveGroups
        <4> QED
          BY <4>1, <4>2, <2>3
      <3>2. CASE ~(~device[dev].reg \/ device[dev].group = None)
        <4>1. req' = [req EXCEPT ![t1] = [req[t1] EXCEPT !.pc = "owner.group",
                                                         !.grp = device[dev].group,
                                                         !.usr = device[dev].owner]]
          BY <2>5, <3>2 DEF OwnerCheckDevice
        <4>2. req'[t1] = [req[t1] EXCEPT !.pc = "owner.group", !.grp = device[dev].group,
                                         !.usr = device[dev].owner]
          BY <4>1, ServesOne DEF TypeInv, TypeOK
        <4>3. /\ req'[t1].pc = "owner.group"
              /\ req'[t1].dev = dev
              /\ req'[t1].grp = device[dev].group
              /\ req'[t1].usr = device[dev].owner
              /\ req'[t1].next # "delete.row"
          BY <4>2, <1>a, <1>b DEF Request
        <4>4. SerialRequest'
          BY <4>3, <2>1 DEF SerialRequest
        <4> QED
          BY <4>3, <4>4, <2>4 DEF ChangingHands
      <3> QED
        BY <3>1, <3>2
    <2>6. CASE OwnerCheckGroup(t1)
      <3>a. /\ req[t1].pc = "owner.group"
            /\ device[dev].group = req[t1].grp
            /\ device[dev].owner = req[t1].usr
        BY <2>6 DEF OwnerCheckGroup, At, SerialInv, SerialRequest
      <3>1. CASE ~Live(req[t1].grp) \/ group[req[t1].grp].owner # req[t1].usr
        <4>1. Goto(t1, "detach.clear")
          BY <2>6, <3>1 DEF OwnerCheckGroup
        <4>2. req'[t1] = [req[t1] EXCEPT !.pc = "detach.clear"]
          BY <4>1, GotoPc
        <4>3. /\ req'[t1].pc = "detach.clear"
              /\ req'[t1].dev = dev
              /\ req'[t1].grp = req[t1].grp
          BY <4>2, <1>a DEF Request
        <4>4. SerialRequest'
          BY <4>3, <3>a, <2>1 DEF SerialRequest
        <4> QED
          BY <4>3, <4>4, <2>4 DEF ChangingHands
      <3>2. CASE ~(~Live(req[t1].grp) \/ group[req[t1].grp].owner # req[t1].usr)
        <4>1. Goto(t1, req[t1].next)
          BY <2>6, <3>2 DEF OwnerCheckGroup
        <4>2. Matches(dev)
          BY <3>a, <3>2 DEF Matches
        <4> QED
          BY <4>1, <4>2, <2>3
      <3> QED
        BY <3>1, <3>2
    <2> QED
      BY <1>2, <2>5, <2>6
  <1> QED
    BY <1>1, <1>2
(* _detach: between its two UPDATEs the board that left still knows the key. *)
LEMMA SerialDetach ==
    ASSUME TypeInv, SerialInv, DetachClear(t1) \/ DetachRotate(t1)
    PROVE  SerialInv'
  <1> USE GroupsAssumption
  <1> DEFINE dev == req[t1].dev
             grp == req[t1].grp
  <1>a. /\ req[t1] \in Request
        /\ dev \in Devices /\ grp \in GroupIds
        /\ device \in [Devices -> DeviceRow]
        /\ group \in [GroupIds -> GroupRow]
        /\ known \in [Devices -> SUBSET Keys]
    BY ServesOne DEF TypeInv, TypeOK, RequestInv, GoodRequest, GroupLabels, DeviceLabels, Labels,
       DetachClear, DetachRotate, At
  <1>1. CASE DetachClear(t1)
    <2>1. /\ device' = [device EXCEPT ![dev].group = None]
          /\ Goto(t1, "detach.rotate")
          /\ UNCHANGED <<group, known>>
          /\ req[t1].pc = "detach.clear"
      BY <1>1 DEF DetachClear, At
    <2>2. /\ \A d \in Devices : d # dev => device'[d] = device[d]
          /\ device'[dev].group = None
      BY <2>1, <1>a DEF DeviceRow
    <2>3. req'[t1] = [req[t1] EXCEPT !.pc = "detach.rotate"]
      BY <2>1, GotoPc
    <2>4. /\ req'[t1].pc = "detach.rotate"
          /\ req'[t1].dev = dev
          /\ req'[t1].grp = grp
      BY <2>3, <1>a DEF Request
    <2>5. device[dev].group = grp
      BY <2>1 DEF SerialInv, SerialRequest
    <2>6. /\ \A d \in Devices : d # dev => Matches(d)
          /\ \A d \in Devices, g \in GroupIds : Custody(d, g)
          /\ KnownInv
      BY <2>1 DEF SerialInv, OwnersInv, KeysInv
    <2> HIDE DEF dev, grp
    <2>7. SerialRequest'
      BY <2>2, <2>4 DEF SerialRequest
    <2>8. \A d \in Devices : Matches(d)'
      BY <2>1, <2>2, <2>6 DEF Matches
    <2>9. \A d \in Devices, g \in GroupIds : Custody(d, g)' \/ (d = dev /\ g = grp)
      BY <2>1, <2>2, <2>5, <2>6 DEF Custody, Live
    <2>10. KnownInv'
      BY <2>1, <2>6 DEF KnownInv
    <2> QED
      BY <2>4, <2>7, <2>8, <2>9, <2>10 DEF SerialInv, OwnersInv, KeysInv
  <1>2. CASE DetachRotate(t1)
    <2>1. /\ UNCHANGED <<device, known>>
          /\ Goto(t1, req[t1].next)
          /\ req[t1].pc = "detach.rotate"
      BY <1>2 DEF DetachRotate, At
    <2>2. device[dev].group = None
      BY <2>1 DEF SerialInv, SerialRequest
    <2>3. SerialRequest' /\ Calm'
      BY <2>1, <2>2, GotoNext
    <2>4. /\ \A d \in Devices : Matches(d)
          /\ \A d \in Devices, g \in GroupIds : Custody(d, g) \/ (d = dev /\ g = grp)
          /\ KnownInv
      BY <2>1 DEF SerialInv, OwnersInv, KeysInv, ChangingHands
    <2> DEFINE old == group[grp].version
    <2>5. /\ \A g \in GroupIds : /\ g # grp => group'[g] = group[g]
                                 /\ group'[g].state = group[g].state
                                 /\ group'[g].owner = group[g].owner
          /\ Live(grp) => /\ group'[grp].version = old + 1
                          /\ old + 1 \in 1..MaxVersion
          /\ ~Live(grp) => UNCHANGED group
      <3>1. CASE Live(grp)
        <4>1. /\ group' = [group EXCEPT ![grp].version = @ + 1]
              /\ old < MaxVersion
          BY <1>2, <3>1 DEF DetachRotate
        <4> QED
          BY <3>1, <4>1, <1>a DEF GroupRow
      <3>2. CASE ~Live(grp)
        BY <1>2, <3>2 DEF DetachRotate
      <3> QED
        BY <3>1, <3>2
    <2>6. old \in 1..MaxVersion
      BY <1>a DEF GroupRow
    <2> HIDE DEF dev, grp, old
    <2>7. \A d \in Devices : Matches(d)'
      <3>1. \A d \in Devices : device[d].group \in GroupIds \cup {None}
        BY <1>a DEF DeviceRow
      <3> QED
        BY <2>1, <2>4, <2>5, <3>1 DEF Matches
    <2>8. \A d \in Devices : Live(grp) => <<grp, old + 1>> \notin known[d]
      BY <1>a, <2>4, <2>5, <2>6 DEF KnownInv, old
    <2>9. \A d \in Devices, g \in GroupIds : Custody(d, g)'
      <3> SUFFICES ASSUME NEW d \in Devices, NEW g \in GroupIds,
                          g # None, group'[g].state = "live",
                          <<g, group'[g].version>> \in known[d]
                   PROVE  device[d].group = g
        BY <2>1 DEF Custody, Live
      <3>1. CASE g = grp
        BY <3>1, <2>5, <2>8 DEF Live
      <3>2. CASE g # grp
        BY <3>2, <2>4, <2>5 DEF Custody, Live
      <3> QED
        BY <3>1, <3>2
    <2>10. KnownInv'
      <3> SUFFICES ASSUME NEW d \in Devices, NEW g \in GroupIds, NEW v \in 1..MaxVersion,
                          <<g, v>> \in known[d]
                   PROVE  group'[g].state # "free" /\ v <= group'[g].version
        BY <2>1 DEF KnownInv
      <3>1. group[g].state # "free" /\ v <= group[g].version
        BY <2>4 DEF KnownInv
      <3>2. group[g].version <= group'[g].version
        <4>1. group[g].version \in Nat
          BY <1>a DEF GroupRow
        <4> QED
          BY <4>1, <2>5, <2>6 DEF old
      <3>3. group[g].version \in Nat /\ group'[g].version \in Nat
        <4>1. group[g].version \in Nat
          BY <1>a DEF GroupRow
        <4> QED
          BY <4>1, <2>5
      <3> QED
        BY <3>1, <3>2, <3>3, <2>5
    <2> QED
      BY <2>3, <2>7, <2>9, <2>10 DEF SerialInv, OwnersInv, KeysInv
  <1> QED
    BY <1>1, <1>2
(* A board enters a group (AddUpdate), gets a row or loses it.               *)
LEMMA SerialRows ==
    ASSUME TypeInv, SerialInv, MembersOfLiveGroups,
           AddUpdate(t1) \/ RegisterCreate(t1) \/ DeleteRow(t1)
    PROVE  SerialInv'
  <1> USE GroupsAssumption
  <1> DEFINE dev == req[t1].dev
             grp == req[t1].grp
  <1>a. /\ dev \in Devices
        /\ req[t1].pc = "add.update" => grp \in GroupIds
        /\ device \in [Devices -> DeviceRow]
    BY ServesOne DEF TypeInv, TypeOK, RequestInv, GoodRequest, GroupLabels, DeviceLabels, Labels,
       AddUpdate, RegisterCreate, DeleteRow, At
  <1>b. /\ Finish(t1)
        /\ Calm
        /\ UNCHANGED <<group, known>>
        /\ KnownInv
    BY DEF AddUpdate, RegisterCreate, DeleteRow, At, Calm, ChangingHands, SerialInv
  <1>c. SerialRequest' /\ KnownInv'
    BY <1>b, FinishPlain DEF KnownInv
  <1>d. /\ \A d \in Devices : Matches(d)
        /\ \A d \in Devices, g \in GroupIds : Custody(d, g)
    BY <1>b, CalmAllWell
  <1>1. CASE UNCHANGED device
    <2>1. SameOwnership
      BY <1>1, <1>b, TablesAlone
    <2> QED
      BY <2>1, <1>b, <1>c, CalmStep
  <1>2. CASE ~UNCHANGED device
    <2>1. /\ \A d \in Devices : d # dev => device'[d] = device[d]
          /\ device[dev].group = None
          /\ device'[dev].group # None => group[device'[dev].group].owner = device'[dev].owner
      <3>1. CASE AddUpdate(t1)
        <4>1. /\ device' = [device EXCEPT ![dev].group = grp]
              /\ device[dev].group = None
              /\ req[t1].pc = "add.update"
          BY <1>2, <3>1 DEF AddUpdate, At
        <4>2. device[dev].owner = group[grp].owner
          BY <4>1 DEF SerialInv, SerialRequest
        <4> HIDE DEF dev, grp
        <4> QED
          BY <4>1, <4>2, <1>a DEF DeviceRow
      <3>2. CASE RegisterCreate(t1)
        <4>1. /\ device' = [device EXCEPT ![dev] = [NoRow EXCEPT !.reg = TRUE]]
              /\ ~device[dev].reg
          BY <1>2, <3>2 DEF RegisterCreate
        <4>2. device[dev].group = None
          BY <4>1, <1>a DEF MembersOfLiveGroups
        <4> HIDE DEF dev
        <4> QED
          BY <4>1, <4>2, <1>a DEF NoRow
      <3>3. CASE DeleteRow(t1)
        <4>1. /\ device' = [device EXCEPT ![dev] = NoRow]
              /\ req[t1].pc = "delete.row"
          BY <1>2, <3>3 DEF DeleteRow, At
        <4>2. device[dev].group = None
          BY <4>1 DEF SerialInv, SerialRequest
        <4> HIDE DEF dev
        <4> QED
          BY <4>1, <4>2, <1>a DEF NoRow
      <3> QED
        BY <3>1, <3>2, <3>3
    <2> HIDE DEF dev, grp
    <2>2. \A d \in Devices : Matches(d)'
      BY <2>1, <1>b, <1>d DEF Matches
    <2>3. \A g \in GroupIds : Live(g) => <<g, group[g].version>> \notin known[dev]
      BY <2>1, <1>a, <1>d DEF Custody, Live
    <2>4. \A d \in Devices, g \in GroupIds : Custody(d, g)'
      BY <2>1, <2>3, <1>b, <1>d DEF Custody, Live
    <2> QED
      BY <2>2, <2>4, <1>c DEF SerialInv, OwnersInv, KeysInv
  <1> QED
    BY <1>1, <1>2

(* /api/mesh/sync hands the key of the group the board is in.                *)
LEMMA SerialSync ==
    ASSUME TypeInv, SerialInv, SyncAnswer(t1)
    PROVE  SerialInv'
  <1> USE GroupsAssumption
  <1> DEFINE dev == req[t1].dev
             grp == req[t1].grp
  <1>a. /\ dev \in Devices /\ grp \in GroupIds
        /\ known \in [Devices -> SUBSET Keys]
        /\ group \in [GroupIds -> GroupRow]
    BY ServesOne DEF TypeInv, TypeOK, RequestInv, GoodRequest, GroupLabels, DeviceLabels, Labels,
       SyncAnswer, At
  <1>b. /\ Finish(t1)
        /\ Calm
        /\ UNCHANGED <<group, device>>
        /\ KnownInv
        /\ req[t1].pc = "sync.group"
    BY DEF SyncAnswer, At, Calm, ChangingHands, SerialInv
  <1>c. SerialRequest'
    BY <1>b, FinishPlain
  <1>d. /\ \A d \in Devices : Matches(d)
        /\ \A d \in Devices, g \in GroupIds : Custody(d, g)
    BY <1>b, CalmAllWell
  <1>e. grp # None => device[dev].group = grp
    BY <1>b DEF SerialInv, SerialRequest
  <1>f. known' = IF Live(grp) THEN [known EXCEPT ![dev] = @ \cup {<<grp, group[grp].version>>}]
                 ELSE known
    BY DEF SyncAnswer
  <1> HIDE DEF dev, grp
  <1>1. \A d \in Devices : \A k \in known'[d] :
            \/ k \in known[d]
            \/ d = dev /\ Live(grp) /\ k = <<grp, group[grp].version>>
    BY <1>a, <1>f
  <1>2. \A d \in Devices : Matches(d)'
    BY <1>b, <1>d DEF Matches
  <1>3. \A d \in Devices, g \in GroupIds : Custody(d, g)'
    BY <1>1, <1>b, <1>d, <1>e DEF Custody, Live
  <1>4. KnownInv'
    <2> SUFFICES ASSUME NEW d \in Devices, NEW g \in GroupIds, NEW v \in 1..MaxVersion,
                        <<g, v>> \in known'[d]
                 PROVE  group[g].state # "free" /\ v <= group[g].version
      BY <1>b DEF KnownInv
    <2>1. CASE <<g, v>> \in known[d]
      BY <2>1, <1>b DEF KnownInv
    <2>2. CASE <<g, v>> \notin known[d]
      <3>1. Live(grp) /\ g = grp /\ v = group[grp].version
        BY <2>2, <1>1
      <3> QED
        BY <3>1 DEF Live
    <2> QED
      BY <2>1, <2>2
  <1> QED
    BY <1>c, <1>2, <1>3, <1>4 DEF SerialInv, OwnersInv, KeysInv

LEMMA SerialInit ==
    ASSUME Init
    PROVE  SerialInv
  BY ServesOne
     DEF Init, Idle, NoRow, SerialInv, SerialRequest, OwnersInv, KeysInv, KnownInv, Matches, Custody

LEMMA SerialStep ==
    ASSUME TypeInv, MembersOfLiveGroups, SerialInv, Step(t1)
    PROVE  SerialInv'
  BY SerialBegin, SerialColumns, SerialReads, SerialGroups, SerialOwner, SerialDetach,
     SerialRows, SerialSync
     DEF Step

LEMMA SerialImplies ==
    ASSUME SerialInv
    PROVE  OwnersMatch /\ KeyCustody
  <1> SUFFICES ASSUME Quiet
               PROVE  /\ \A d \in Devices : Matches(d)
                      /\ \A d \in Devices, g \in GroupIds : Custody(d, g)
    BY DEF OwnersMatch, KeyCustody, Matches, Custody
  <1>1. Calm
    BY ServesOne DEF Quiet, Calm, Idle, ChangingHands
  <1> QED
    BY <1>1, CalmAllWell

(* While one thread serves one request after the other, between requests the  *)
(* boards of a group have the group's owner, and a board outside a group does *)
(* not know its present key: leaving (removed, another owner's now, deleted)  *)
(* replaced it.  For any number of boards, users, groups and claims.          *)
THEOREM SerialMembershipHolds == PartsSpec => []SerialMembership
  <1> DEFINE Inv == TypeInv /\ MembersOfLiveGroups /\ (part = "serial" => SerialInv)
  <1>1. PartsInit => Inv
    BY TypeInit, SerialInit DEF PartsInit, Init, MembersOfLiveGroups, NoRow
  <1>2. Inv /\ [PartsNext]_<<vars, part>> => Inv'
    <2> SUFFICES ASSUME Inv, [PartsNext]_<<vars, part>>
                 PROVE  Inv'
      OBVIOUS
    <2>1. [Next]_vars /\ UNCHANGED part
      BY ServesOne DEF PartsNext, Next
    <2>2. TypeInv' /\ MembersOfLiveGroups'
      BY <2>1, TypeStep, MembersStep
    <2>3. ASSUME part' = "serial"
          PROVE  SerialInv'
      <3>1. part = "serial" /\ SerialInv
        BY <2>1, <2>3
      <3>2. CASE Step(t1)
        BY <3>1, <3>2, SerialStep
      <3>3. CASE UNCHANGED <<vars, part>>
        BY <3>1, <3>3
           DEF vars, SerialInv, SerialRequest, OwnersInv, KeysInv, KnownInv, Matches, Custody, Live
      <3> QED
        BY <3>1, <3>2, <3>3 DEF PartsNext
    <2> QED
      BY <2>2, <2>3
  <1>3. Inv => SerialMembership
    BY SerialImplies DEF SerialMembership
  <1> QED
    BY <1>1, <1>2, <1>3, PTL DEF PartsSpec

(* The same without the parts: of every behaviour in which only t1 serves.    *)
THEOREM OneThreadKeepsCustody == Init /\ [][Step(t1)]_vars => [](OwnersMatch /\ KeyCustody)
  <1> DEFINE Inv == TypeInv /\ MembersOfLiveGroups /\ SerialInv
  <1>1. Init => Inv
    BY TypeInit, SerialInit DEF Init, MembersOfLiveGroups, NoRow
  <1>2. Inv /\ [Step(t1)]_vars => Inv'
    <2> SUFFICES ASSUME Inv, [Step(t1)]_vars
                 PROVE  Inv'
      OBVIOUS
    <2>1. [Next]_vars
      BY ServesOne DEF Next
    <2>2. TypeInv' /\ MembersOfLiveGroups'
      BY <2>1, TypeStep, MembersStep
    <2>3. CASE Step(t1)
      BY <2>2, <2>3, SerialStep
    <2>4. CASE UNCHANGED vars
      BY <2>2, <2>4
         DEF vars, SerialInv, SerialRequest, OwnersInv, KeysInv, KnownInv, Matches, Custody, Live
    <2> QED
      BY <2>3, <2>4
  <1>3. Inv => OwnersMatch /\ KeyCustody
    BY SerialImplies
  <1> QED
    BY <1>1, <1>2, <1>3, PTL
-----------------------------------------------------------------------------
(* What Membership itself promises.                                          *)

VARIABLES member, owner, groupOwner, holds

Ideal == INSTANCE Membership

(* In Membership a board is only ever in a group of its own owner, and holds  *)
(* the key of no group but its own: what its steps say of one board or one    *)
(* group adds up for any number of boards, users and groups.                  *)
THEOREM IdealIsSafe == Ideal!Spec => []Ideal!OwnGroupOnly
  <1> USE GroupsAssumption DEF Ideal!OwnGroupOnly, Ideal!TypeOK
  <1>1. Ideal!Init => Ideal!TypeOK /\ Ideal!OwnGroupOnly
    BY DEF Ideal!Init
  <1>2. Ideal!TypeOK /\ Ideal!OwnGroupOnly /\ [Ideal!Next]_Ideal!vars
          => Ideal!TypeOK' /\ Ideal!OwnGroupOnly'
    <2> SUFFICES ASSUME Ideal!TypeOK, Ideal!OwnGroupOnly, [Ideal!Next]_Ideal!vars
                 PROVE  Ideal!TypeOK' /\ Ideal!OwnGroupOnly'
      OBVIOUS
    <2>1. ASSUME NEW g \in GroupIds, NEW u \in Users, Ideal!Create(g, u)
          PROVE  Ideal!TypeOK' /\ Ideal!OwnGroupOnly'
      BY <2>1 DEF Ideal!Create
    <2>2. ASSUME NEW g \in GroupIds, Ideal!Delete(g)
          PROVE  Ideal!TypeOK' /\ Ideal!OwnGroupOnly'
      BY <2>2 DEF Ideal!Delete, Ideal!Rekeyed
    <2>3. ASSUME NEW d \in Devices, NEW g \in GroupIds, Ideal!Join(d, g)
          PROVE  Ideal!TypeOK' /\ Ideal!OwnGroupOnly'
      BY <2>3 DEF Ideal!Join
    <2>4. ASSUME NEW d \in Devices, Ideal!Learn(d)
          PROVE  Ideal!TypeOK' /\ Ideal!OwnGroupOnly'
      BY <2>4 DEF Ideal!Learn
    <2>5. ASSUME NEW d \in Devices, NEW u \in Users \cup {None}, Ideal!Leave(d, u)
          PROVE  Ideal!TypeOK' /\ Ideal!OwnGroupOnly'
      BY <2>5 DEF Ideal!Leave, Ideal!Rekeyed
    <2>6. ASSUME NEW d \in Devices, NEW u \in Users \cup {None}, Ideal!SetOwner(d, u)
          PROVE  Ideal!TypeOK' /\ Ideal!OwnGroupOnly'
      BY <2>6 DEF Ideal!SetOwner
    <2>7. CASE UNCHANGED Ideal!vars
      BY <2>7 DEF Ideal!vars
    <2> QED
      BY <2>1, <2>2, <2>3, <2>4, <2>5, <2>6, <2>7 DEF Ideal!Next
  <1> QED
    BY <1>1, <1>2, PTL DEF Ideal!Spec
-----------------------------------------------------------------------------
(* The requests of one thread implement Membership.  A board in a group, or   *)
(* on its way out of one, is in the hands of the group's owner throughout.    *)

LiveOwned == \A g \in GroupIds : group[g].state = "live" => group[g].owner \in Users

LEMMA OwnedStep ==
    ASSUME TypeInv, LiveOwned, NEW t \in Threads, Step(t)
    PROVE  LiveOwned'
  <1> USE DEF LiveOwned, TypeInv, TypeOK
  <1>1. CASE UNCHANGED group
    BY <1>1
  <1>2. CASE CreateGroup(t)
    BY <1>2 DEF CreateGroup
  <1>3. CASE DeleteGroupRows(t)
    BY <1>3 DEF DeleteGroupRows, GroupRow
  <1>4. CASE DetachRotate(t)
    <2>1. \/ UNCHANGED group
          \/ group' = [group EXCEPT ![req[t].grp].version = @ + 1]
      BY <1>4 DEF DetachRotate
    <2> QED
      BY <2>1 DEF GroupRow
  <1>5. CASE ReadOnly(t)
    BY <1>5, <1>1, ReadOnlyFrame
  <1> QED
    BY <1>1, <1>2, <1>3, <1>4, <1>5
       DEF Step, ReadOnly, AddUpdate, DetachClear, SetDisabledRow, RegisterCreate,
           SetValidity, DeleteRow, SetCode, SubmitInsert, SetOwner, ClaimClearCode,
           ClaimApproveDevice, ClaimDecide, RejectDecide, SyncAnswer

(* What the mapping shows of a serial behaviour. *)
Shown == <<[d \in Devices |-> MemberNow(d)], [d \in Devices |-> OwnerNow(d)],
           [g \in GroupIds |-> IF Live(g) THEN group[g].owner ELSE None],
           [d \in Devices |-> HasKey(d)]>>

GroupOf(d) == IF MemberNow(d) # None THEN group[MemberNow(d)].owner ELSE device[d].owner

\* Matches for a board at rest, and by definition for one on its way out.
LEMMA OwnerIs ==
    SerialInv => \A d \in Devices : OwnerNow(d) = GroupOf(d)
  BY DEF SerialInv, OwnersInv, Matches, OwnerNow, GroupOf, MemberNow, Leaving, ChangingHands

LEMMA MembersTyped ==
    ASSUME TypeInv, NEW d \in Devices
    PROVE  /\ MemberNow(d) \in GroupIds \cup {None}
           /\ Calm => MemberNow(d) = device[d].group
  BY ServesOne DEF TypeInv, TypeOK, MemberNow, Request, DeviceRow, Calm

LEMMA MemberIsNext ==
    ASSUME NEW d \in Devices
    PROVE  MemberNow(d)' = IF req'[t1].pc = "detach.rotate" /\ d = req'[t1].dev
                           THEN req'[t1].grp ELSE device'[d].group
  BY DEF MemberNow

\* A step that moves no board, gives no board outside a group another owner, and touches
\* neither groups nor keys does nothing in Membership.
LEMMA NothingShown ==
    ASSUME TypeInv, SerialInv, SerialInv',
           \A d \in Devices : MemberNow(d)' = MemberNow(d),
           \A d \in Devices : MemberNow(d) = None => device'[d].owner = device[d].owner,
           \A g \in GroupIds : /\ group'[g].owner = group[g].owner
                               /\ group'[g].version = group[g].version
                               /\ group'[g].state = "live" <=> group[g].state = "live",
           UNCHANGED known
    PROVE  UNCHANGED Shown
  <1>1. \A d \in Devices : OwnerNow(d)' = GroupOf(d)' /\ OwnerNow(d) = GroupOf(d)
    <2>1. SerialInv' => (\A d \in Devices : OwnerNow(d) = GroupOf(d))'
      BY OwnerIs, PTL
    <2> QED
      BY <2>1, OwnerIs
  <1>2. \A d \in Devices : OwnerNow(d)' = OwnerNow(d)
    BY <1>1, MembersTyped DEF GroupOf
  <1>3. \A g \in GroupIds : Live(g)' <=> Live(g)
    BY DEF Live
  <1>4. \A d \in Devices : HasKey(d)' = HasKey(d)
    BY <1>3 DEF HasKey
  <1> QED
    BY <1>2, <1>3, <1>4 DEF Shown
LEMMA SameShown ==
    ASSUME TypeInv, SerialInv, SerialInv', SameOwnership,
           req[t1].pc # "detach.rotate", req'[t1].pc # "detach.rotate"
    PROVE  UNCHANGED Shown
  <1>1. \A d \in Devices : MemberNow(d)' = MemberNow(d)
    BY MemberIsNext DEF SameOwnership, MemberNow
  <1> QED
    BY <1>1, NothingShown DEF SameOwnership

\* Where a request that has read can go on.
LEMMA GotoWhere ==
    ASSUME TypeInv, NEW label, Goto(t1, label), label # "detach.rotate"
    PROVE  req'[t1].pc # "detach.rotate"
  <1>1. CASE label = "idle"
    BY <1>1, FinishPlain DEF Goto, Idle
  <1>2. CASE label # "idle"
    <2>1. req'[t1] = [req[t1] EXCEPT !.pc = label]
      BY <1>2, GotoPc
    <2>2. req[t1] \in Request
      BY ServesOne DEF TypeInv, TypeOK
    <2> QED
      BY <2>1, <2>2 DEF Request
  <1> QED
    BY <1>1, <1>2

LEMMA BeginShown ==
    ASSUME TypeInv, SerialInv, SerialInv',
           \/ DeleteGroup(t1) \/ AddDevice(t1) \/ RemoveDevice(t1) \/ SetDisabled(t1)
           \/ RegisterDevice(t1) \/ DeleteDevice(t1) \/ GenerateCode(t1) \/ SubmitClaim(t1)
           \/ ApproveClaim(t1) \/ ReassignOwner(t1) \/ RejectClaim(t1) \/ Sync(t1)
    PROVE  UNCHANGED Shown
  <1>1. UNCHANGED <<device, group, known>>
    BY DEF DeleteGroup, AddDevice, RemoveDevice, SetDisabled, RegisterDevice, DeleteDevice,
           GenerateCode, SubmitClaim, ApproveClaim, ReassignOwner, RejectClaim, Sync
  <1>2. SameOwnership
    BY <1>1, TablesAlone
  <1>3. req[t1].pc # "detach.rotate" /\ req'[t1].pc # "detach.rotate"
    <2>1. \E op, r : Begin(t1, op, r)
      BY DEF DeleteGroup, AddDevice, RemoveDevice, SetDisabled, RegisterDevice, DeleteDevice,
             GenerateCode, SubmitClaim, ApproveClaim, ReassignOwner, RejectClaim, Sync
    <2> QED
      BY <2>1, BeginCalm, SerialBegin DEF Calm
  <1> QED
    BY <1>2, <1>3, SameShown

LEMMA ColumnsShown ==
    ASSUME TypeInv, SerialInv, SerialInv',
           \/ SetDisabledRow(t1) \/ SetCode(t1) \/ SubmitInsert(t1) \/ ClaimDecide(t1)
           \/ RejectDecide(t1) \/ SetValidity(t1) \/ ClaimClearCode(t1)
           \/ ClaimApproveDevice(t1)
    PROVE  UNCHANGED Shown
  <1>a. device \in [Devices -> DeviceRow]
    BY DEF TypeInv, TypeOK
  <1>1. SameOwnership
    <2>1. CASE SetDisabledRow(t1)
      BY <2>1, <1>a, ColumnKeeps DEF SetDisabledRow
    <2>2. CASE SetCode(t1)
      BY <2>2, <1>a, ColumnKeeps DEF SetCode
    <2>3. CASE SubmitInsert(t1) \/ ClaimDecide(t1) \/ RejectDecide(t1)
      BY <2>3, TablesAlone DEF SubmitInsert, ClaimDecide, RejectDecide
    <2>4. CASE SetValidity(t1)
      <3>1. PICK d \in Devices, v \in BOOLEAN : device' = [device EXCEPT ![d].valid = v]
        BY <2>4 DEF SetValidity
      <3> QED
        BY <2>4, <3>1, <1>a, ColumnKeeps DEF SetValidity
    <2>5. CASE ClaimClearCode(t1)
      BY <2>5, <1>a, ColumnKeeps DEF ClaimClearCode
    <2>6. CASE ClaimApproveDevice(t1)
      BY <2>6, <1>a, ColumnKeeps DEF ClaimApproveDevice
    <2> QED
      BY <2>1, <2>2, <2>3, <2>4, <2>5, <2>6
  <1>2. req[t1].pc # "detach.rotate" /\ req'[t1].pc # "detach.rotate"
    <2>1. CASE SetValidity(t1)
      BY <2>1, BeginCalm DEF SetValidity, Serve, Idle, Calm
    <2>2. CASE ClaimClearCode(t1) \/ ClaimApproveDevice(t1)
      BY <2>2, GotoWhere DEF ClaimClearCode, ClaimApproveDevice, At
    <2>3. CASE ~(SetValidity(t1) \/ ClaimClearCode(t1) \/ ClaimApproveDevice(t1))
      <3>1. Finish(t1)
        BY <2>3 DEF SetDisabledRow, SetCode, SubmitInsert, ClaimDecide, RejectDecide
      <3>2. req[t1].pc # "detach.rotate"
        BY <2>3 DEF SetDisabledRow, SetCode, SubmitInsert, ClaimDecide, RejectDecide, At
      <3> QED
        BY <3>1, <3>2, FinishPlain DEF Idle
    <2> QED
      BY <2>1, <2>2, <2>3
  <1> QED
    BY <1>1, <1>2, SameShown

LEMMA ReadsShown ==
    ASSUME TypeInv, SerialInv, SerialInv',
           \/ AddCheckDevice(t1) \/ RemoveCheckDevice(t1) \/ DeleteCheckGroup(t1)
           \/ SyncReport(t1) \/ OwnerCheckDevice(t1) \/ OwnerCheckGroup(t1)
    PROVE  UNCHANGED Shown
  <1>1. SameOwnership
    BY TablesAlone DEF AddCheckDevice, RemoveCheckDevice, DeleteCheckGroup, SyncReport,
                       OwnerCheckDevice, OwnerCheckGroup
  <1>2. req[t1].pc # "detach.rotate"
    BY DEF AddCheckDevice, RemoveCheckDevice, DeleteCheckGroup, SyncReport,
           OwnerCheckDevice, OwnerCheckGroup, At
  <1>a. req[t1].next # "detach.rotate" /\ req[t1] \in Request /\ t1 \in DOMAIN req
    BY ServesOne DEF TypeInv, TypeOK, RequestInv, GoodRequest
  <1>3. req'[t1].pc # "detach.rotate"
    <2>1. ASSUME NEW label, Goto(t1, label), label # "detach.rotate"
          PROVE  req'[t1].pc # "detach.rotate"
      BY <2>1, GotoWhere
    <2>2. CASE Finish(t1)
      BY <2>2, FinishPlain DEF Idle
    <2>3. CASE AddCheckDevice(t1) \/ RemoveCheckDevice(t1) \/ SyncReport(t1)
      BY <2>1, <2>2, <2>3 DEF AddCheckDevice, RemoveCheckDevice, SyncReport
    <2>4. CASE DeleteCheckGroup(t1)
      <3>1. \/ Goto(t1, "delete.row")
            \/ req' = [req EXCEPT ![t1] = [req[t1] EXCEPT !.grp = device[req[t1].dev].group,
                                                          !.pc = "detach.clear"]]
        BY <2>4 DEF DeleteCheckGroup
      <3> QED
        BY <3>1, <2>1, <1>a DEF Request
    <2>5. CASE OwnerCheckDevice(t1)
      <3>1. \/ Goto(t1, req[t1].next)
            \/ req' = [req EXCEPT ![t1] = [req[t1] EXCEPT !.pc = "owner.group",
                                                          !.grp = device[req[t1].dev].group,
                                                          !.usr = device[req[t1].dev].owner]]
        BY <2>5 DEF OwnerCheckDevice
      <3> QED
        BY <3>1, <2>1, <1>a DEF Request
    <2>6. CASE OwnerCheckGroup(t1)
      <3>1. Goto(t1, "detach.clear") \/ Goto(t1, req[t1].next)
        BY <2>6 DEF OwnerCheckGroup
      <3> QED
        BY <3>1, <2>1, <1>a
    <2> QED
      BY <2>3, <2>4, <2>5, <2>6
  <1> QED
    BY <1>1, <1>2, <1>3, SameShown
LEMMA OwnersNow ==
    ASSUME SerialInv, SerialInv'
    PROVE  /\ \A d \in Devices : OwnerNow(d) = GroupOf(d)
           /\ \A d \in Devices : OwnerNow(d)' = GroupOf(d)'
  <1>1. SerialInv' => (\A d \in Devices : OwnerNow(d) = GroupOf(d))'
    BY OwnerIs, PTL
  <1> QED
    BY <1>1, OwnerIs

LEMMA ShownIsAll ==
    ASSUME part = "serial", part' = "serial", UNCHANGED Shown
    PROVE  UNCHANGED Promise!vars
  BY DEF Shown, Promise!vars

\* The rows change hands or places in one step of Membership.
LEMMA ClearShown ==
    ASSUME TypeInv, SerialInv, SerialInv', DetachClear(t1)
    PROVE  UNCHANGED Shown
  <1> DEFINE dev == req[t1].dev
  <1>1. /\ req[t1] \in Request /\ device \in [Devices -> DeviceRow]
        /\ dev \in Devices /\ req[t1].grp \in GroupIds
    BY ServesOne DEF TypeInv, TypeOK, RequestInv, GoodRequest, GroupLabels, DeviceLabels, Labels,
                     DetachClear, At
  <1>2. /\ req[t1].pc = "detach.clear"
        /\ device' = [device EXCEPT ![dev].group = None]
        /\ Goto(t1, "detach.rotate")
        /\ UNCHANGED <<group, known>>
    BY DEF DetachClear, At
  <1>3. req'[t1] = [req[t1] EXCEPT !.pc = "detach.rotate"]
    BY <1>2, GotoPc
  <1>4. req'[t1].pc = "detach.rotate" /\ req'[t1].dev = dev /\ req'[t1].grp = req[t1].grp
    BY <1>1, <1>3 DEF Request
  <1>5. device[dev].group = req[t1].grp
    BY <1>2 DEF SerialInv, SerialRequest
  <1>6. \A d \in Devices : /\ device'[d].owner = device[d].owner
                           /\ d # dev => device'[d].group = device[d].group
    BY <1>1, <1>2 DEF DeviceRow
  <1> HIDE DEF dev
  <1>7. \A d \in Devices : MemberNow(d)' = MemberNow(d)
    BY <1>2, <1>4, <1>5, <1>6, MemberIsNext DEF MemberNow
  <1> QED
    BY <1>2, <1>6, <1>7, NothingShown

LEMMA LeaveShown ==
    ASSUME TypeInv, SerialInv, SerialInv', part = "serial", part' = "serial", DetachRotate(t1)
    PROVE  Promise!Next
  <1> DEFINE dev == req[t1].dev
             grp == req[t1].grp
             old == group[grp].version
  <1>1. /\ req[t1] \in Request /\ device \in [Devices -> DeviceRow]
        /\ group \in [GroupIds -> GroupRow]
        /\ dev \in Devices /\ grp \in GroupIds /\ grp # None
        /\ device[dev].owner \in Users \cup {None}
    BY ServesOne, GroupsAssumption
       DEF TypeInv, TypeOK, RequestInv, GoodRequest, GroupLabels, DeviceLabels, Labels,
           DetachRotate, At, DeviceRow
  <1>2. /\ req[t1].pc = "detach.rotate"
        /\ Goto(t1, req[t1].next)
        /\ UNCHANGED <<device, known>>
    BY DEF DetachRotate, At
  <1>3. device[dev].group = None
    BY <1>2 DEF SerialInv, SerialRequest
  <1>4. Calm'
    BY <1>2, <1>3, GotoNext
  <1>5. /\ MemberNow(dev) = grp
        /\ \A d \in Devices : MemberNow(d)' = IF d = dev THEN None ELSE MemberNow(d)
    BY <1>2, <1>3, <1>4, MemberIsNext DEF MemberNow, Calm
  <1>6. \A g \in GroupIds : /\ group'[g].owner = group[g].owner
                            /\ group'[g].state = group[g].state
                            /\ g # grp => group'[g].version = group[g].version
    BY <1>1 DEF DetachRotate, GroupRow
  <1>7. Live(grp) => group'[grp].version = old + 1 /\ old + 1 \in 1..MaxVersion /\ old \in Nat
    BY <1>1, GroupsAssumption DEF DetachRotate, GroupRow
  <1>8. \A d \in Devices : Live(grp) => <<grp, old + 1>> \notin known[d]
    BY <1>1, <1>7 DEF SerialInv, KnownInv
  <1> HIDE DEF dev, grp, old
  <1>9. \A g \in GroupIds : Live(g)' <=> Live(g)
    BY <1>6 DEF Live
  <1>10. \A d \in Devices : HasKey(d)' = HasKey(d) \ {grp}
    BY <1>2, <1>6, <1>7, <1>8, <1>9 DEF HasKey
  <1>11. \A d \in Devices : OwnerNow(d)' = IF d = dev THEN device[dev].owner ELSE OwnerNow(d)
    BY <1>2, <1>5, <1>6, OwnersNow, MembersTyped DEF GroupOf
  <1>12. Promise!Leave(dev, device[dev].owner)
    BY <1>1, <1>5, <1>6, <1>9, <1>10, <1>11 DEF Promise!Leave, Promise!Rekeyed
  <1> QED
    BY <1>1, <1>12 DEF Promise!Next
\* An owner written over a board outside any group; in a group, Membership sees it leave later.
LEMMA OwnerRowShown ==
    ASSUME TypeInv, SerialInv, SerialInv', part = "serial", part' = "serial",
           NEW dev \in Devices, NEW u \in Users \cup {None},
           req[t1].pc # "detach.rotate", req'[t1].pc # "detach.rotate",
           UNCHANGED <<group, known>>,
           \A d \in Devices : /\ device'[d].group = device[d].group
                              /\ d # dev => device'[d].owner = device[d].owner,
           device'[dev].owner = u
    PROVE  Promise!Next \/ UNCHANGED Promise!vars
  <1>1. \A d \in Devices : /\ MemberNow(d)' = MemberNow(d)
                           /\ MemberNow(d) = device[d].group
    BY MemberIsNext DEF MemberNow
  <1>2. CASE device[dev].group # None
    BY <1>1, <1>2, NothingShown, ShownIsAll
  <1>3. CASE device[dev].group = None
    <2>1. \A g \in GroupIds : Live(g)' <=> Live(g)
      BY DEF Live
    <2>2. \A d \in Devices : HasKey(d)' = HasKey(d)
      BY <2>1 DEF HasKey
    <2>3. \A d \in Devices : OwnerNow(d)' = IF d = dev THEN u ELSE OwnerNow(d)
      BY <1>1, <1>3, OwnersNow DEF GroupOf
    <2>4. Promise!SetOwner(dev, u)
      BY <1>1, <1>3, <2>1, <2>2, <2>3 DEF Promise!SetOwner
    <2> QED
      BY <2>4 DEF Promise!Next
  <1> QED
    BY <1>2, <1>3

LEMMA RowsShown ==
    ASSUME TypeInv, SerialInv, SerialInv', MembersOfLiveGroups,
           part = "serial", part' = "serial",
           SetOwner(t1) \/ RegisterCreate(t1) \/ DeleteRow(t1)
    PROVE  Promise!Next \/ UNCHANGED Promise!vars
  <1> DEFINE dev == req[t1].dev
  <1>1. /\ device \in [Devices -> DeviceRow]
        /\ dev \in Devices /\ req[t1].usr \in Users \cup {None}
    BY ServesOne
       DEF TypeInv, TypeOK, RequestInv, GoodRequest, DeviceLabels, Labels, Request,
           SetOwner, RegisterCreate, DeleteRow, At
  <1>2. UNCHANGED <<group, known>> /\ req[t1].pc # "detach.rotate"
    BY DEF SetOwner, RegisterCreate, DeleteRow, At
  <1>3. req'[t1].pc # "detach.rotate"
    <2>1. Finish(t1) \/ Goto(t1, "owner.device")
      BY DEF SetOwner, RegisterCreate, DeleteRow
    <2> QED
      BY <2>1, GotoWhere, FinishPlain DEF Idle
  <1>4. CASE UNCHANGED device
    <2>1. SameOwnership
      BY <1>2, <1>4, TablesAlone
    <2> QED
      BY <2>1, <1>2, <1>3, SameShown, ShownIsAll
  <1>5. CASE ~UNCHANGED device
    <2>1. CASE SetOwner(t1)
      <3>1. device' = [device EXCEPT ![dev].owner = req[t1].usr]
        BY <1>5, <2>1 DEF SetOwner
      <3> HIDE DEF dev
      <3>2. \A d \in Devices : /\ device'[d].group = device[d].group
                               /\ d # dev => device'[d].owner = device[d].owner
                               /\ device'[dev].owner = req[t1].usr
        BY <1>1, <3>1 DEF DeviceRow
      <3> QED
        BY <1>1, <1>2, <1>3, <3>2, OwnerRowShown
    <2>2. CASE RegisterCreate(t1)
      <3>1. /\ device' = [device EXCEPT ![dev] = [NoRow EXCEPT !.reg = TRUE]]
            /\ device[dev].group = None
        BY <1>1, <1>5, <2>2 DEF RegisterCreate, MembersOfLiveGroups
      <3> HIDE DEF dev
      <3>2. \A d \in Devices : /\ device'[d].group = device[d].group
                               /\ d # dev => device'[d].owner = device[d].owner
                               /\ device'[dev].owner = None
        BY <1>1, <3>1 DEF NoRow
      <3> QED
        BY <1>1, <1>2, <1>3, <3>2, OwnerRowShown
    <2>3. CASE DeleteRow(t1)
      <3>1. /\ device' = [device EXCEPT ![dev] = NoRow]
            /\ device[dev].group = None
        BY <1>1, <1>5, <2>3 DEF DeleteRow, At, SerialInv, SerialRequest
      <3> HIDE DEF dev
      <3>2. \A d \in Devices : /\ device'[d].group = device[d].group
                               /\ d # dev => device'[d].owner = device[d].owner
                               /\ device'[dev].owner = None
        BY <1>1, <3>1 DEF NoRow
      <3> QED
        BY <1>1, <1>2, <1>3, <3>2, OwnerRowShown
    <2> QED
      BY <2>1, <2>2, <2>3
  <1> QED
    BY <1>4, <1>5

LEMMA JoinShown ==
    ASSUME TypeInv, SerialInv, SerialInv', LiveOwned, part = "serial", part' = "serial",
           AddUpdate(t1)
    PROVE  Promise!Next \/ UNCHANGED Promise!vars
  <1> DEFINE dev == req[t1].dev
             grp == req[t1].grp
  <1>1. /\ device \in [Devices -> DeviceRow]
        /\ dev \in Devices /\ grp \in GroupIds /\ grp # None
    BY ServesOne, GroupsAssumption
       DEF TypeInv, TypeOK, RequestInv, GoodRequest, GroupLabels, DeviceLabels, Labels,
           AddUpdate, At
  <1>2. /\ UNCHANGED <<group, known>>
        /\ req[t1].pc = "add.update"
        /\ Finish(t1)
    BY DEF AddUpdate, At
  <1>3. req'[t1].pc # "detach.rotate"
    BY <1>2, FinishPlain DEF Idle
  <1>4. CASE UNCHANGED device
    <2>1. SameOwnership
      BY <1>2, <1>4, TablesAlone
    <2> QED
      BY <2>1, <1>2, <1>3, SameShown, ShownIsAll
  <1>5. CASE ~UNCHANGED device
    <2>1. /\ device' = [device EXCEPT ![dev].group = grp]
          /\ device[dev].group = None
          /\ Cardinality(Members(grp)) < MaxDevices
          /\ Live(grp)
      BY <1>5 DEF AddUpdate
    <2>2. device[dev].owner = group[grp].owner /\ group[grp].owner # None
      BY <1>1, <1>2, <2>1, GroupsAssumption DEF SerialInv, SerialRequest, LiveOwned, Live
    <2> HIDE DEF dev, grp
    <2>3. \A d \in Devices : /\ device'[d].group = IF d = dev THEN grp ELSE device[d].group
                             /\ device'[d].owner = device[d].owner
      BY <1>1, <2>1 DEF DeviceRow
    <2>4. \A d \in Devices : /\ MemberNow(d) = device[d].group
                             /\ MemberNow(d)' = IF d = dev THEN grp ELSE MemberNow(d)
      BY <1>2, <1>3, <2>3, MemberIsNext DEF MemberNow
    <2>5. \A g \in GroupIds : Live(g)' <=> Live(g)
      BY <1>2 DEF Live
    <2>6. \A d \in Devices : HasKey(d)' = HasKey(d)
      BY <1>2, <2>5 DEF HasKey
    <2>7. \A d \in Devices : OwnerNow(d)' = OwnerNow(d)
      BY <1>1, <1>2, <2>1, <2>2, <2>3, <2>4, OwnersNow DEF GroupOf
    <2>8. OwnerNow(dev) = group[grp].owner
      BY <1>1, <2>1, <2>2, <2>4, OwnersNow DEF GroupOf
    <2>9. Promise!Boards(grp) = Members(grp)
      BY <2>4 DEF Promise!Boards, Members
    <2>10. Promise!Cardinality(Members(grp)) = Cardinality(Members(grp))
      BY DEF Promise!Cardinality, Cardinality
    <2>11. Promise!Join(dev, grp)
      BY <1>1, <1>2, <2>1, <2>2, <2>4, <2>5, <2>6, <2>7, <2>8, <2>9, <2>10 DEF Promise!Join
    <2> QED
      BY <1>1, <2>11 DEF Promise!Next
  <1> QED
    BY <1>4, <1>5
LEMMA GroupsShown ==
    ASSUME TypeInv, SerialInv, SerialInv', MembersOfLiveGroups, LiveOwned,
           part = "serial", part' = "serial", CreateGroup(t1) \/ DeleteGroupRows(t1)
    PROVE  Promise!Next \/ UNCHANGED Promise!vars
  <1>a. /\ device \in [Devices -> DeviceRow]
        /\ group \in [GroupIds -> GroupRow]
        /\ \A d \in Devices : device[d].group \in GroupIds \cup {None}
        /\ None \notin Users \cup GroupIds
    BY GroupsAssumption DEF TypeInv, TypeOK, DeviceRow
  <1>1. CASE CreateGroup(t1)
    <2>1. PICK g \in GroupIds, u \in Users :
            /\ group[g].state = "free"
            /\ group' = [group EXCEPT ![g] = [state |-> "live", owner |-> u, version |-> 1]]
      BY <1>1 DEF CreateGroup
    <2>2. UNCHANGED <<device, known>> /\ Begin(t1, "create_group", Idle)
      BY <1>1 DEF CreateGroup, Serve
    <2>3. Calm /\ req'[t1].pc # "detach.rotate"
      BY <2>2, BeginCalm DEF Idle
    <2>4. \A d \in Devices : MemberNow(d)' = MemberNow(d) /\ MemberNow(d) = device[d].group
      BY <2>2, <2>3, MemberIsNext DEF MemberNow, Calm
    <2>5. /\ \A h \in GroupIds : h # g => group'[h] = group[h]
          /\ group'[g].state = "live" /\ group'[g].owner = u /\ group'[g].version = 1
      BY <2>1, <1>a
    <2>6. /\ ~Live(g) /\ Live(g)'
          /\ \A h \in GroupIds : h # g => Live(h)' = Live(h)
      BY <2>1, <2>5, <1>a DEF Live
    <2>7. \A d \in Devices : device[d].group # g
      BY <2>6, <1>a DEF MembersOfLiveGroups
    <2>8. \A d \in Devices : <<g, 1>> \notin known[d]
      BY <2>1, GroupsAssumption DEF SerialInv, KnownInv
    <2>9. \A d \in Devices : HasKey(d)' = HasKey(d)
      BY <2>2, <2>5, <2>6, <2>8 DEF HasKey
    <2>10. \A d \in Devices : OwnerNow(d)' = OwnerNow(d)
      BY <2>2, <2>4, <2>5, <2>7, <1>a, OwnersNow DEF GroupOf
    <2>11. Promise!Create(g, u)
      BY <2>4, <2>5, <2>6, <2>9, <2>10 DEF Promise!Create
    <2> QED
      BY <2>11 DEF Promise!Next
  <1>2. CASE DeleteGroupRows(t1)
    <2> DEFINE g == req[t1].grp
    <2>1. g \in GroupIds /\ req[t1].pc = "group.delete"
      BY <1>2, ServesOne DEF DeleteGroupRows, At, TypeInv, RequestInv, GoodRequest, GroupLabels
    <2>2. /\ device' = [d \in Devices |->
                          IF device[d].group = g THEN [device[d] EXCEPT !.group = None]
                                                 ELSE device[d]]
          /\ group' = [group EXCEPT ![g].state = "gone"]
          /\ Finish(t1)
          /\ UNCHANGED known
      BY <1>2 DEF DeleteGroupRows
    <2>3. req'[t1].pc # "detach.rotate"
      BY <2>2, FinishPlain DEF Idle
    <2> HIDE DEF g
    <2>4. \A h \in GroupIds : /\ group'[h].owner = group[h].owner
                              /\ group'[h].version = group[h].version
                              /\ group'[h].state = IF h = g THEN "gone" ELSE group[h].state
      BY <2>1, <2>2, <1>a DEF GroupRow
    <2>5. \A d \in Devices :
            /\ device'[d].owner = device[d].owner
            /\ device'[d].group = IF device[d].group = g THEN None ELSE device[d].group
      BY <2>2, <1>a DEF DeviceRow
    <2>6. \A d \in Devices : /\ MemberNow(d) = device[d].group
                             /\ MemberNow(d)' = IF MemberNow(d) = g THEN None ELSE MemberNow(d)
      BY <2>1, <2>3, <2>5, MemberIsNext DEF MemberNow
    <2>7. \A h \in GroupIds : Live(h)' <=> Live(h) /\ h # g
      BY <2>4 DEF Live
    <2>8. \A d \in Devices : HasKey(d)' = HasKey(d) \ {g}
      BY <2>2, <2>4, <2>7 DEF HasKey
    <2>9. Calm
      BY <2>1 DEF Calm, ChangingHands
    <2>10. \A d \in Devices : OwnerNow(d)' = OwnerNow(d)
      BY <2>4, <2>5, <2>6, <2>9, <1>a, OwnersNow, CalmAllWell DEF GroupOf, Matches
    <2>11. CASE Live(g)
      <3>1. group[g].owner # None
        BY <2>1, <2>11, <1>a DEF LiveOwned, Live
      <3>2. PICK h \in GroupIds : h = g
        BY <2>1
      <3>3. Promise!Delete(h)
        BY <2>4, <2>6, <2>7, <2>8, <2>10, <2>11, <3>1, <3>2 DEF Promise!Delete, Promise!Rekeyed
      <3> QED
        BY <3>3 DEF Promise!Next
    <2>12. CASE ~Live(g)
      <3>1. \A d \in Devices : MemberNow(d) # g /\ g \notin HasKey(d)
        BY <2>1, <2>6, <2>12, <1>a DEF MembersOfLiveGroups, HasKey
      <3>2. UNCHANGED Shown
        BY <2>4, <2>6, <2>7, <2>8, <2>10, <2>12, <3>1 DEF Shown
      <3> QED
        BY <3>2, ShownIsAll
    <2> QED
      BY <2>11, <2>12
  <1> QED
    BY <1>1, <1>2

LEMMA LearnShown ==
    ASSUME TypeInv, SerialInv, SerialInv', part = "serial", part' = "serial", SyncAnswer(t1)
    PROVE  Promise!Next \/ UNCHANGED Promise!vars
  <1> DEFINE dev == req[t1].dev
             grp == req[t1].grp
  <1>1. /\ dev \in Devices /\ grp \in GroupIds /\ grp # None
        /\ known \in [Devices -> SUBSET Keys]
    BY ServesOne, GroupsAssumption
       DEF TypeInv, TypeOK, RequestInv, GoodRequest, GroupLabels, DeviceLabels, Labels,
           SyncAnswer, At
  <1>2. /\ UNCHANGED <<group, device>>
        /\ req[t1].pc = "sync.group"
        /\ Finish(t1)
        /\ known' = IF Live(grp) THEN [known EXCEPT ![dev] = @ \cup {<<grp, group[grp].version>>}]
                    ELSE known
    BY DEF SyncAnswer, At
  <1>3. req'[t1].pc # "detach.rotate"
    BY <1>2, FinishPlain DEF Idle
  <1>4. device[dev].group = grp
    BY <1>1, <1>2 DEF SerialInv, SerialRequest
  <1> HIDE DEF dev, grp
  <1>5. CASE ~Live(grp)
    <2>1. SameOwnership
      BY <1>2, <1>5, TablesAlone
    <2> QED
      BY <2>1, <1>2, <1>3, SameShown, ShownIsAll
  <1>6. CASE Live(grp)
    <2>1. \A d \in Devices : MemberNow(d)' = MemberNow(d) /\ MemberNow(d) = device[d].group
      BY <1>2, <1>3, MemberIsNext DEF MemberNow
    <2>2. \A g \in GroupIds : Live(g)' <=> Live(g)
      BY <1>2 DEF Live
    <2>3. \A d \in Devices : OwnerNow(d)' = OwnerNow(d)
      BY <1>2, <2>1, OwnersNow DEF GroupOf
    <2>4. \A d \in Devices, g \in GroupIds :
            <<g, group[g].version>> \in known'[d]
              <=> (<<g, group[g].version>> \in known[d] \/ (d = dev /\ g = grp))
      BY <1>1, <1>2, <1>6
    <2>5. \A d \in Devices : HasKey(d)' = IF d = dev THEN HasKey(d) \cup {grp} ELSE HasKey(d)
      BY <1>1, <1>2, <1>6, <2>2, <2>4 DEF HasKey
    <2>6. Promise!Learn(dev)
      BY <1>1, <1>2, <1>4, <2>1, <2>2, <2>3, <2>5 DEF Promise!Learn
    <2> QED
      BY <1>1, <2>6 DEF Promise!Next
  <1> QED
    BY <1>5, <1>6

LEMMA MembershipRefines ==
    ASSUME TypeInv, SerialInv, SerialInv', MembersOfLiveGroups, LiveOwned,
           part = "serial", part' = "serial", Step(t1)
    PROVE  Promise!Next \/ UNCHANGED Promise!vars
  BY BeginShown, ColumnsShown, ReadsShown, ClearShown, LeaveShown, RowsShown, JoinShown,
     GroupsShown, LearnShown, ShownIsAll
     DEF Step

(* What a request of the admin server spreads over up to four transactions is *)
(* one step of Membership, whenever one thread serves: a board enters a group *)
(* of its owner within the limit, leaves when the key has been replaced, and  *)
(* in between is in the hands of the group's owner, whatever the row says.    *)
(* With IdealIsSafe, a board is never shown in a stranger's group, nor with   *)
(* the key of a group it is not in, between any two transactions.             *)
THEOREM MembershipImplemented == PartsSpec => ImplementsMembership
  <1> DEFINE Inv == /\ TypeInv /\ MembersOfLiveGroups /\ LiveOwned
                    /\ part = "serial" => SerialInv
  <1>1. PartsInit => Inv /\ Promise!Init
    <2> SUFFICES ASSUME PartsInit
                 PROVE  Inv /\ Promise!Init
      OBVIOUS
    <2>1. Inv
      BY TypeInit, SerialInit DEF PartsInit, Init, MembersOfLiveGroups, LiveOwned, NoRow
    <2>2. /\ \A d \in Devices : device[d].group = None /\ device[d].owner = None /\ known[d] = {}
          /\ \A g \in GroupIds : ~Live(g)
          /\ req[t1].pc = "idle"
      BY ServesOne DEF PartsInit, Init, NoRow, Idle, Live
    <2>3. \A d \in Devices : MemberNow(d) = None /\ OwnerNow(d) = None /\ HasKey(d) = {}
      BY <2>2 DEF MemberNow, OwnerNow, HasKey, Leaving
    <2> QED
      BY <2>1, <2>2, <2>3 DEF Promise!Init
  <1>2. Inv /\ [PartsNext]_<<vars, part>> => Inv' /\ [Promise!Next]_Promise!vars
    <2> SUFFICES ASSUME Inv, [PartsNext]_<<vars, part>>
                 PROVE  Inv' /\ (Promise!Next \/ UNCHANGED Promise!vars)
      OBVIOUS
    <2>1. [Next]_vars /\ UNCHANGED part
      BY ServesOne DEF PartsNext, Next
    <2>2. TypeInv' /\ MembersOfLiveGroups' /\ LiveOwned'
      <3>1. LiveOwned'
        BY <2>1, OwnedStep DEF Next, vars, LiveOwned
      <3> QED
        BY <2>1, <3>1, TypeStep, MembersStep
    <2>3. CASE UNCHANGED <<vars, part>>
      <3>1. SerialInv => SerialInv'
        BY <2>3
           DEF vars, SerialInv, SerialRequest, OwnersInv, KeysInv, KnownInv, Matches, Custody, Live
      <3>2. UNCHANGED Promise!vars
        BY <2>3 DEF vars, Promise!vars, MemberNow, OwnerNow, HasKey, Leaving, Live
      <3> QED
        BY <2>2, <2>3, <3>1, <3>2
    <2>4. CASE part = "serial" /\ Step(t1)
      <3>1. SerialInv /\ SerialInv' /\ part' = "serial"
        BY <2>1, <2>4, SerialStep
      <3> QED
        BY <2>2, <2>4, <3>1, MembershipRefines
    <2>5. CASE part = "concurrent"
      <3>1. part' = "concurrent"
        BY <2>1, <2>5
      <3>2. UNCHANGED Promise!vars
        BY <2>5, <3>1 DEF Promise!vars
      <3> QED
        BY <2>2, <3>1, <3>2
    <2> QED
      BY <2>3, <2>4, <2>5 DEF PartsNext
  <1> QED
    BY <1>1, <1>2, PTL DEF PartsSpec, ImplementsMembership, Promise!Spec
=============================================================================
