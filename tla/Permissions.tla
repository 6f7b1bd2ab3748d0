----------------------------- MODULE Permissions -----------------------------
(***************************************************************************)
(* The permissions of each role: the table, the saves that replace a       *)
(* role's rows, and the cache in the server's memory.                      *)
(*                                                                         *)
(* A save is one READ COMMITTED transaction.  Its DELETE chooses its rows  *)
(* among those committed when it starts, waits for any that another        *)
(* transaction has deleted, and passes over the ones that are gone when    *)
(* the other commits; a row inserted meanwhile is a new one, even with the *)
(* same key, and is not looked at.  An INSERT ... ON CONFLICT DO NOTHING   *)
(* waits for any transaction that has inserted or deleted its key.  After  *)
(* its commit a save reads the whole table and puts it in the cache.       *)
(*                                                                         *)
(* Admin has no rows: it passes every check and no save is let through.    *)
(***************************************************************************)
EXTENDS Integers

CONSTANTS
    RoleTypes,  \* the roles a save may be for
    Savers,     \* bound: saves under way at once
    PermCount,  \* the length of perm.All()
    Seed,       \* the rows nvims.sql inserts
    NoRole

Perms == 1 .. PermCount     \* positions in perm.All()

\* Mutant: the positions are counted from zero.
OfferedFromZero == 0 .. PermCount - 1

\* The check boxes of the form.
Offered == Perms

Tables == [RoleTypes -> SUBSET Perms]

ASSUME PermissionsAssumption ==
    /\ PermCount \in Nat
    /\ Seed \in Tables
    /\ NoRole \notin RoleTypes

VARIABLES
    table,  \* the committed rows of role_permissions
    cache,  \* Handler.perms
    saves   \* SystemPermissionsSave requests under way

permissionsVars == <<table, cache, saves>>

Nothing == [role \in RoleTypes |-> {}]

\* doomed: the rows its DELETE is for; inserted: its own rows, uncommitted;
\* todo: the permissions it has still to insert; read: what LoadPermissions saw
NoSave == [pc |-> "idle", role |-> NoRole, wanted |-> {}, doomed |-> {},
           todo |-> {}, inserted |-> {}, read |-> Nothing]

Save ==
    [pc: {"idle", "deleting", "inserting", "loading", "swapping"},
     role: RoleTypes \cup {NoRole},
     wanted: SUBSET Perms,
     doomed: SUBSET Perms,
     todo: SUBSET Perms,
     inserted: SUBSET Perms,
     read: Tables]

PermissionsTypeOK ==
    /\ table \in Tables
    /\ cache \in Tables
    /\ saves \in [Savers -> Save]

PermissionsInit ==
    /\ table = Seed
    /\ cache = Seed
    /\ saves = [s \in Savers |-> NoSave]

-----------------------------------------------------------------------------
\* The other transactions that have deleted or inserted rows of s's role.
Writers(s) ==
    {q \in Savers \ {s} : saves[q].pc = "inserting" /\ saves[q].role = saves[s].role}

\* Whom s has to wait for before its next statement can end.
Blockers(s) ==
    CASE saves[s].pc = "deleting" ->
            {q \in Writers(s) : saves[q].doomed \cap saves[s].doomed # {}}
      [] saves[s].pc = "inserting" ->
            {q \in Writers(s) :
                \E p \in saves[s].todo :
                    /\ \A other \in saves[s].todo : p <= other
                    /\ p \in saves[q].doomed \cup saves[q].inserted}
      [] OTHER -> {}

Update(s, save) == saves' = [saves EXCEPT ![s] = save]

\* BEGIN, and the snapshot of the DELETE.
BeginSave(s) ==
    /\ saves[s].pc = "idle"
    /\ \E role \in RoleTypes, wanted \in SUBSET Offered :
        Update(s, [NoSave EXCEPT !.pc = "deleting", !.role = role, !.wanted = wanted,
                                 !.todo = wanted, !.doomed = table[role]])
    /\ UNCHANGED <<table, cache>>

\* Mutant: there is no transaction, and the role is empty for a moment.
DeleteAtOnce(s) ==
    /\ saves[s].pc = "deleting"
    /\ Blockers(s) = {}
    /\ table' = [table EXCEPT ![saves[s].role] = @ \ saves[s].doomed]
    /\ Update(s, [saves[s] EXCEPT !.pc = "inserting"])
    /\ UNCHANGED cache

DeleteRows(s) ==
    /\ saves[s].pc = "deleting"
    /\ Blockers(s) = {}
    /\ Update(s, [saves[s] EXCEPT !.pc = "inserting"])
    /\ UNCHANGED <<table, cache>>

\* The checked permissions are inserted in the order of perm.All().
InsertNext(s) ==
    /\ saves[s].pc = "inserting"
    /\ Blockers(s) = {}
    /\ \E p \in saves[s].todo :
        /\ \A other \in saves[s].todo : p <= other
        /\ Update(s, [saves[s] EXCEPT
                !.todo = @ \ {p},
                !.inserted = IF p \in table[saves[s].role] \ saves[s].doomed
                             THEN @ ELSE @ \cup {p}])
    /\ UNCHANGED <<table, cache>>

\* The rows deleted go from the sight of the deletes that wait for them.
Commit(s) ==
    /\ saves[s].pc = "inserting" /\ saves[s].todo = {}
    /\ table' = [table EXCEPT ![saves[s].role] =
            (@ \ saves[s].doomed) \cup saves[s].inserted]
    /\ saves' = [q \in Savers |->
            IF q = s
            THEN [NoSave EXCEPT !.pc = "loading"]
            ELSE IF saves[q].pc = "deleting" /\ saves[q].role = saves[s].role
            THEN [saves[q] EXCEPT !.doomed = @ \ saves[s].doomed]
            ELSE saves[q]]
    /\ UNCHANGED cache

\* Mutant: the deferred Rollback is missing, and the locks stay.
RollbackForgotten(s) ==
    /\ saves[s].pc \in {"deleting", "inserting"}
    /\ Update(s, [saves[s] EXCEPT !.wanted = {}])
    /\ UNCHANGED <<table, cache>>

\* A statement fails, or the client goes away: tx.Rollback.
Rollback(s) ==
    /\ saves[s].pc \in {"deleting", "inserting"}
    /\ Update(s, NoSave)
    /\ UNCHANGED <<table, cache>>

\* The database aborts one of two transactions that wait for each other.
AbortDeadlocked(s) ==
    /\ \E q \in Blockers(s) : s \in Blockers(q)
    /\ Rollback(s)

\* LoadPermissions: the query ...
Load(s) ==
    /\ saves[s].pc = "loading"
    /\ Update(s, [saves[s] EXCEPT !.pc = "swapping", !.read = table])
    /\ UNCHANGED <<table, cache>>

\* ... which may fail, and the error is only logged ...
LoadFails(s) ==
    /\ saves[s].pc = "loading"
    /\ Update(s, NoSave)
    /\ UNCHANGED <<table, cache>>

\* ... and the swap of the cache under permsMu.
Swap(s) ==
    /\ saves[s].pc = "swapping"
    /\ cache' = saves[s].read
    /\ Update(s, NoSave)
    /\ UNCHANGED table

\* The server starts again: transactions under way are rolled back, and the
\* cache is loaded, or left empty with a warning.
Restart ==
    /\ saves' = [s \in Savers |-> NoSave]
    /\ cache' \in {table, Nothing}
    /\ UNCHANGED table

-----------------------------------------------------------------------------
Step(s) ==
    \/ DeleteRows(s)
    \/ InsertNext(s)
    \/ Commit(s)
    \/ AbortDeadlocked(s)
    \/ Load(s)
    \/ Swap(s)

PermissionsNext ==
    \/ \E s \in Savers :
        \/ BeginSave(s)
        \/ Step(s)
        \/ Rollback(s)
        \/ LoadFails(s)
    \/ Restart

PermissionsSpec == PermissionsInit /\ [][PermissionsNext]_permissionsVars

\* Handlers that have begun go on, and the database breaks deadlocks.  Fairness
\* is strong because waiters are queued: a statement that is free to go again
\* and again is not passed over for ever by later saves.  Nothing has to begin
\* or to fail.
PermissionsFairness == \A s \in Savers : SF_permissionsVars(Step(s))

FairPermissionsSpec == PermissionsSpec /\ PermissionsFairness

-----------------------------------------------------------------------------
InTransaction(s, role) ==
    saves[s].pc \in {"deleting", "inserting"} /\ saves[s].role = role

\* A permission that every save under way keeps is never taken from its role,
\* not even between the delete and the insert (store.go:559).
KeptPermissionsStay ==
    [][\A role \in RoleTypes, p \in Perms :
        (/\ p \in table[role]
         /\ \A s \in Savers : InTransaction(s, role) => p \in saves[s].wanted)
        => p \in table'[role]]_permissionsVars

\* Every save comes to an end, also when two of them wait for each other
\* (store.go:559, handler.go:6228).
SavesEnd == \A s \in Savers : saves[s].pc # "idle" ~> saves[s].pc = "idle"

\* SetRolePermissions' comment: it "replaces all permissions for a role
\* atomically".  Whoever commits leaves the role with what it asked for.
SaveReplaces ==
    [][\A s \in Savers :
        (saves[s].pc = "inserting" /\ saves'[s].pc = "loading")
            => table'[saves[s].role] = saves[s].wanted]_permissionsVars
=============================================================================
