--------------------------- MODULE MC_MeshGroups ----------------------------
(***************************************************************************)
(* Instances of MeshGroups.  A behaviour of PartsSpec is "serial" (one     *)
(* thread at a time, one board, every request) or "concurrent" (two        *)
(* threads, two boards, one user, the requests that change membership); of *)
(* RaceSpec two users race over the owners.                                *)
(***************************************************************************)
EXTENDS MeshGroups, TLC

CONSTANTS t1, t2, d1, d2, u1, u2, g1, g2, c1, c2, k1

\* The thread of a serial behaviour.
ASSUME ServesOne == t1 \in Threads

TwoThreads == {t1, t2}
TwoDevices == {d1, d2}
TwoUsers == {u1, u2}
FirstIsAdmin == {u1}
TwoGroups == {g1, g2}
OneClaim == {c1}
OneCode == {k1}

AllOps == {"create_group", "delete_group", "add_device", "remove_device",
           "set_disabled", "register", "validity", "delete_device",
           "claim_code", "submit_claim", "approve_claim", "reject_claim",
           "reassign", "sync"}
MembershipLabels == {"idle", "add.device", "add.update", "remove.device", "detach.clear",
                     "detach.rotate", "owner.set", "owner.device", "owner.group",
                     "delete.device", "delete.row", "register.create", "group.delete"}
OwnershipOps == {"create_group", "add_device", "register", "reassign"}

Symmetry == Permutations(Threads) \cup Permutations(Devices)
                \cup Permutations(GroupIds) \cup Permutations(ClaimIds)

\* Of a sum of instances only the groups and the claims stay interchangeable.
PartsSymmetry == Permutations(GroupIds) \cup Permutations(ClaimIds)

VARIABLE part

Serial == req[t1].dev # d2

Concurrent ==
    /\ \A t \in Threads : req[t].pc \in MembershipLabels /\ req[t].usr # u2
    /\ \A g \in GroupIds : group[g].owner # u2
    /\ \A d \in Devices : ~device[d].valid

PartsInit == Init /\ part \in {"serial", "concurrent"}

PartsNext ==
    /\ \/ part = "serial" /\ Step(t1) /\ Serial'
       \/ part = "concurrent" /\ Next /\ Concurrent'
    /\ UNCHANGED part

RaceSpec == Init /\ part = "race" /\ [][Next /\ UNCHANGED part]_<<vars, part>>

PartsSpec == PartsInit /\ [][PartsNext]_<<vars, part>>

\* One request after the other: boards of a group have its owner, and whoever left a group
\* does not know its present key.
SerialMembership == part = "serial" => OwnersMatch /\ KeyCustody

(* The requests of one thread, each of them several transactions, do what Membership does *)
(* in one step: a board leaves when the group's key is replaced, and is in the hands of   *)
(* the group's owner until then.                                                          *)
Leaving == req[t1].pc \in {"owner.device", "owner.group", "detach.clear", "detach.rotate"}

MemberNow(d) ==
    IF req[t1].pc = "detach.rotate" /\ d = req[t1].dev THEN req[t1].grp ELSE device[d].group
OwnerNow(d) ==
    IF Leaving /\ d = req[t1].dev /\ MemberNow(d) # None
    THEN group[MemberNow(d)].owner ELSE device[d].owner
HasKey(d) == {g \in GroupIds : Live(g) /\ <<g, group[g].version>> \in known[d]}

Promise == INSTANCE Membership WITH
    member <- [d \in Devices |-> IF part = "serial" THEN MemberNow(d) ELSE None],
    owner <- [d \in Devices |-> IF part = "serial" THEN OwnerNow(d) ELSE None],
    groupOwner <- [g \in GroupIds |->
                      IF part = "serial" /\ Live(g) THEN group[g].owner ELSE None],
    holds <- [d \in Devices |-> IF part = "serial" THEN HasKey(d) ELSE {}]

\* One request after the other, the tables and the keys the boards hold follow Membership.
ImplementsMembership == Promise!Spec
=============================================================================
