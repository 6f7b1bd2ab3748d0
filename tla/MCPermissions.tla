---------------------------- MODULE MCPermissions ----------------------------
EXTENDS Permissions

\* Every role starts with the first permission.
MCSeed == [role \in RoleTypes |-> {1}]
=============================================================================
