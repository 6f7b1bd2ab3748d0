------------------------------- MODULE MCRights -------------------------------
(***************************************************************************)
(* Who may do what, for TLC: accounts and login sessions, and the          *)
(* permissions of roles.  They share no table, so one of them works at a   *)
(* time: part says which, and the other rests in its initial state.        *)
(***************************************************************************)
EXTENDS Access, MCPermissions

VARIABLE part

rightsVars == <<part, vars, permissionsVars>>

RightsInit ==
    /\ part \in {"accounts", "permissions"}
    /\ Init
    /\ PermissionsInit

AccountsWork == Next /\ UNCHANGED permissionsVars

PermissionsWork == PermissionsNext /\ UNCHANGED vars

RightsNext ==
    /\ UNCHANGED part
    /\ \/ part = "accounts" /\ AccountsWork
       \/ part = "permissions" /\ PermissionsWork

RightsSpec ==
    /\ RightsInit
    /\ [][RightsNext]_rightsVars
    /\ Fairness
    /\ PermissionsFairness
=============================================================================
