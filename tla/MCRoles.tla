------------------------------ MODULE MCRoles ------------------------------
(***************************************************************************)
(* An instance of Roles for TLC: an administrator, a warden who may only   *)
(* block, a role of stage 1, a misspelt one, and two requests at a time.   *)
(***************************************************************************)
EXTENDS Roles, TLC

CONSTANTS w1, w2, ada, bob

MCCatalogue == {"Admin", "Warden", "Tutor"}
MCRoleNames == MCCatalogue \cup {"Admim"}
MCStage == [r \in Catalogue |-> IF r = "Tutor" THEN 1 ELSE 0]
MCGives == [r \in Catalogue |-> IF r = "Warden" THEN {"user:block:write"}
                                ELSE RolePermissions]
MCInitialRole == [u \in Users |-> IF u = ada THEN "Admin" ELSE "Warden"]

MCRequests ==
    [op : {"get_role"}, user : {bob}]
    \cup [op : {"set_role"}, user : {ada}, role : {"Tutor"}]
    \cup [op : {"set_role"}, user : {bob}, role : {"Admin", "Admim"}]
    \cup [op : {"set_block_status"}, user : {bob}, block : BOOLEAN]

Interchangeable == Permutations(Workers)
=============================================================================
