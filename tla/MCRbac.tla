------------------------------ MODULE MCRbac ------------------------------
(* Small instances of Rbac for TLC. *)
EXTENDS Rbac, TLC, SequencesExt

MCGrants == Tables \X Actions

AllOps == {"getUserPermissions", "createRole", "deleteRole", "assignRoles",
           "removeRole", "setPermissions", "copyPermissions",
           "deletePermissions"}
AdminOps == AllOps \ {"getUserPermissions"}

ItemOf(t, acts) == [table |-> t, acts |-> acts]
\* One table at a time, granted or revoked; and all tables at once.
MCBatches ==
    {{ItemOf(t, acts)} : t \in Tables, acts \in SUBSET Actions}
    \cup {{ItemOf(t, acts) : t \in Tables} : acts \in SUBSET Actions}

MCRoles == 1 .. 2
AdminRole == [id |-> 1, name |-> "admin", system |-> TRUE]
MCSeedRoles == {AdminRole}
\* Every user is an admin, and admins may do everything; ids are 1, 2, ...
UserSeq == SetToSeq(Users)
TableSeq == SetToSeq(Tables)
MCSeedPermissions ==
    {[id |-> Len(UserSeq) + i, role |-> 1, table |-> TableSeq[i], acts |-> Actions] :
        i \in 1 .. Len(TableSeq)}
MCSeedUserRoles ==
    {[id |-> i, user |-> UserSeq[i], role |-> 1] : i \in 1 .. Len(UserSeq)}

Symmetric == Permutations(Requests)
=============================================================================
