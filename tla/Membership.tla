------------------------------ MODULE Membership ------------------------------
(***************************************************************************)
(* What the admin server promises of its mesh groups, whatever transactions *)
(* and reads a request is made of: boards join and leave groups in one      *)
(* step, a board that changes hands leaves the group of its old owner in    *)
(* that step, and who leaves a group no longer has its key.                 *)
(***************************************************************************)
EXTENDS Naturals, FiniteSets

CONSTANTS Devices, Users, GroupIds, None,
          MaxDevices   \* SIRENA_MESH_GROUP_MAX_DEVICES

VARIABLES
    member,      \* the group of each board
    owner,       \* the owner of each board
    groupOwner,  \* the owner of each group; None is no group
    holds        \* the groups whose present key each board has

vars == <<member, owner, groupOwner, holds>>

Boards(g) == {d \in Devices : member[d] = g}

\* A new key for the group: nobody has it yet.
Rekeyed(g) == [d \in Devices |-> holds[d] \ {g}]

Init ==
    /\ member = [d \in Devices |-> None]
    /\ owner = [d \in Devices |-> None]
    /\ groupOwner = [g \in GroupIds |-> None]
    /\ holds = [d \in Devices |-> {}]

Create(g, u) ==
    /\ groupOwner[g] = None
    /\ groupOwner' = [groupOwner EXCEPT ![g] = u]
    /\ UNCHANGED <<member, owner, holds>>

Delete(g) ==
    /\ groupOwner[g] # None
    /\ groupOwner' = [groupOwner EXCEPT ![g] = None]
    /\ member' = [d \in Devices |-> IF member[d] = g THEN None ELSE member[d]]
    /\ holds' = Rekeyed(g)
    /\ UNCHANGED owner

Join(d, g) ==
    /\ member[d] = None
    /\ groupOwner[g] # None /\ groupOwner[g] = owner[d]
    /\ Cardinality(Boards(g)) < MaxDevices
    /\ member' = [member EXCEPT ![d] = g]
    /\ UNCHANGED <<owner, groupOwner, holds>>

\* The board fetches the key of its group.
Learn(d) ==
    /\ member[d] # None
    /\ holds' = [holds EXCEPT ![d] = @ \cup {member[d]}]
    /\ UNCHANGED <<member, owner, groupOwner>>

\* Removed, deleted or in other hands: the group goes on with another key.
Leave(d, u) ==
    /\ member[d] # None
    /\ member' = [member EXCEPT ![d] = None]
    /\ owner' = [owner EXCEPT ![d] = u]
    /\ holds' = Rekeyed(member[d])
    /\ UNCHANGED groupOwner

\* A board outside any group may be anyone's.
SetOwner(d, u) ==
    /\ member[d] = None
    /\ owner' = [owner EXCEPT ![d] = u]
    /\ UNCHANGED <<member, groupOwner, holds>>

Next ==
    \/ \E g \in GroupIds : Delete(g) \/ \E u \in Users : Create(g, u)
    \/ \E d \in Devices : Learn(d) \/ \E g \in GroupIds : Join(d, g)
    \/ \E d \in Devices, u \in Users \cup {None} : Leave(d, u) \/ SetOwner(d, u)

Spec == Init /\ [][Next]_vars

-----------------------------------------------------------------------------
TypeOK ==
    /\ member \in [Devices -> GroupIds \cup {None}]
    /\ owner \in [Devices -> Users \cup {None}]
    /\ groupOwner \in [GroupIds -> Users \cup {None}]
    /\ holds \in [Devices -> SUBSET GroupIds]

\* A board is in a group of its own owner, and has the key of no other group.
OwnGroupOnly ==
    \A d \in Devices :
        /\ member[d] # None => groupOwner[member[d]] # None /\ groupOwner[member[d]] = owner[d]
        /\ holds[d] \subseteq {member[d]}
=============================================================================
