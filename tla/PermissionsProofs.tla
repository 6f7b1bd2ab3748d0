-------------------------- MODULE PermissionsProofs --------------------------
(***************************************************************************)
(* However many saves race for a role, none takes away a permission that   *)
(* all of them keep.                                                       *)
(*                                                                         *)
(* Only a commit changes the table, and it removes the rows its DELETE     *)
(* chose.  What makes this safe is that a save has put back, by the time   *)
(* it commits, every row it deleted and still wants.                       *)
(***************************************************************************)
EXTENDS Permissions, TLAPS

\* A save that deletes has inserted nothing yet; one that inserts has a new row
\* for everything it is through with and has deleted.
PutsBack ==
    \A s \in Savers :
        /\ saves[s].pc = "deleting" => saves[s].todo = saves[s].wanted
        /\ saves[s].pc = "inserting" =>
            /\ saves[s].role \in RoleTypes
            /\ (saves[s].wanted \ saves[s].todo) \cap saves[s].doomed
                    \subseteq saves[s].inserted
        /\ saves[s].pc = "deleting" => saves[s].role \in RoleTypes

Inv == PermissionsTypeOK /\ PutsBack

\* The changes that the statements make to a save leave a save.
LEMMA SaveChanges ==
    ASSUME NEW save \in Save, NEW A \in SUBSET Perms, NEW B \in SUBSET Perms
    PROVE  /\ [save EXCEPT !.todo = A, !.inserted = B] \in Save
           /\ [save EXCEPT !.doomed = A] \in Save
BY DEF Save

\* Every step of a save leads to a save.
LEMMA TypePreserved ==
    PermissionsTypeOK /\ PutsBack /\ [PermissionsNext]_permissionsVars => PermissionsTypeOK'
<1> SUFFICES ASSUME PermissionsTypeOK, PutsBack, [PermissionsNext]_permissionsVars
             PROVE  PermissionsTypeOK'
    OBVIOUS
<1> USE PermissionsAssumption DEF PermissionsTypeOK, Tables, Update, Offered
<1>0. NoSave \in Save
    BY DEF NoSave, Save, Nothing
<1>1. ASSUME NEW s \in Savers, BeginSave(s) PROVE PermissionsTypeOK'
  <2>1. PICK role \in RoleTypes, wanted \in SUBSET Perms :
            saves' = [saves EXCEPT ![s] =
                [NoSave EXCEPT !.pc = "deleting", !.role = role, !.wanted = wanted,
                               !.todo = wanted, !.doomed = table[role]]]
    BY <1>1 DEF BeginSave
  <2> DEFINE save == [NoSave EXCEPT !.pc = "deleting", !.role = role, !.wanted = wanted,
                                    !.todo = wanted, !.doomed = table[role]]
  <2>2. save \in Save
    BY DEF NoSave, Save, Nothing
  <2>3. saves' = [saves EXCEPT ![s] = save]
    BY <2>1
  <2> HIDE DEF save
  <2>4. saves' \in [Savers -> Save]
    BY <2>2, <2>3
  <2> QED
    BY <1>1, <2>4 DEF BeginSave
<1>2. ASSUME NEW s \in Savers, DeleteRows(s) PROVE PermissionsTypeOK'
  <2>1. [saves[s] EXCEPT !.pc = "inserting"] \in Save
    BY DEF Save
  <2>2. saves' \in [Savers -> Save]
    BY <1>2, <2>1 DEF DeleteRows
  <2> QED
    BY <1>2, <2>2 DEF DeleteRows
<1>3. ASSUME NEW s \in Savers, InsertNext(s) PROVE PermissionsTypeOK'
  <2>1. PICK p \in saves[s].todo :
            Update(s, [saves[s] EXCEPT
                !.todo = @ \ {p},
                !.inserted = IF p \in table[saves[s].role] \ saves[s].doomed
                             THEN @ ELSE @ \cup {p}])
    BY <1>3 DEF InsertNext
  <2>2. [saves[s] EXCEPT
            !.todo = @ \ {p},
            !.inserted = IF p \in table[saves[s].role] \ saves[s].doomed
                         THEN @ ELSE @ \cup {p}] \in Save
    <3>1. saves[s] \in Save /\ p \in Perms
      BY DEF Save
    <3>2. /\ saves[s].todo \ {p} \in SUBSET Perms
          /\ saves[s].inserted \in SUBSET Perms
          /\ saves[s].inserted \cup {p} \in SUBSET Perms
      BY <3>1 DEF Save
    <3> QED
      BY <3>1, <3>2, SaveChanges
  <2> QED
    BY <1>3, <2>1, <2>2 DEF InsertNext
<1>4. ASSUME NEW s \in Savers, Commit(s) PROVE PermissionsTypeOK'
  <2>1. [NoSave EXCEPT !.pc = "loading"] \in Save
    BY DEF NoSave, Save, Nothing
  <2>2. \A q \in Savers : [saves[q] EXCEPT !.doomed = @ \ saves[s].doomed] \in Save
    <3>1. \A q \in Savers : saves[q] \in Save
      OBVIOUS
    <3>2. \A q \in Savers : saves[q].doomed \ saves[s].doomed \in SUBSET Perms
      BY <3>1 DEF Save
    <3> QED
      BY <3>1, <3>2, SaveChanges
  <2>3. table' \in Tables
    BY <1>4 DEF Commit, PutsBack, Save
  <2> QED
    BY <1>4, <2>1, <2>2, <2>3 DEF Commit
<1>5. ASSUME NEW s \in Savers, Rollback(s) \/ LoadFails(s) PROVE PermissionsTypeOK'
    BY <1>0, <1>5 DEF Rollback, LoadFails
<1>6. ASSUME NEW s \in Savers, Load(s) PROVE PermissionsTypeOK'
  <2>1. [saves[s] EXCEPT !.pc = "swapping", !.read = table] \in Save
    BY DEF Save
  <2>2. saves' \in [Savers -> Save]
    BY <1>6, <2>1 DEF Load
  <2> QED
    BY <1>6, <2>2 DEF Load
<1>7. ASSUME NEW s \in Savers, Swap(s) PROVE PermissionsTypeOK'
    BY <1>0, <1>7 DEF Swap, Save
<1>8. CASE Restart
    BY <1>0, <1>8 DEF Restart, Nothing
<1>9. CASE UNCHANGED permissionsVars
    BY <1>9 DEF permissionsVars
<1> QED
    BY <1>1, <1>2, <1>3, <1>4, <1>5, <1>6, <1>7, <1>8, <1>9 DEF PermissionsNext, Step, AbortDeadlocked

\* No step breaks the promise to put back what is deleted and wanted.
LEMMA PutsBackPreserved ==
    PermissionsTypeOK /\ PutsBack /\ [PermissionsNext]_permissionsVars => PutsBack'
<1> DEFINE Good(save) ==
        /\ save.pc = "deleting" => save.todo = save.wanted
        /\ save.pc = "inserting" =>
            /\ save.role \in RoleTypes
            /\ (save.wanted \ save.todo) \cap save.doomed \subseteq save.inserted
        /\ save.pc = "deleting" => save.role \in RoleTypes
<1> SUFFICES ASSUME PermissionsTypeOK, PutsBack, [PermissionsNext]_permissionsVars,
                    NEW q \in Savers
             PROVE  Good(saves'[q])
    BY DEF PutsBack
<1> USE DEF PermissionsTypeOK, Update, Offered
<1>0. Good(saves[q]) /\ Good(NoSave)
    BY DEF PutsBack, NoSave
<1>1. ASSUME NEW s \in Savers, BeginSave(s) PROVE Good(saves'[q])
  <2>1. PICK role \in RoleTypes, wanted \in SUBSET Perms :
            Update(s, [NoSave EXCEPT !.pc = "deleting", !.role = role, !.wanted = wanted,
                                     !.todo = wanted, !.doomed = table[role]])
    BY <1>1 DEF BeginSave
  <2>2. Good([NoSave EXCEPT !.pc = "deleting", !.role = role, !.wanted = wanted,
                            !.todo = wanted, !.doomed = table[role]])
    BY DEF NoSave
  <2> QED
    BY <1>0, <2>1, <2>2
<1>2. ASSUME NEW s \in Savers, DeleteRows(s) PROVE Good(saves'[q])
  <2>1. Good([saves[s] EXCEPT !.pc = "inserting"])
    BY <1>2 DEF DeleteRows, PutsBack, Save
  <2> QED
    BY <1>0, <1>2, <2>1 DEF DeleteRows
<1>3. ASSUME NEW s \in Savers, InsertNext(s) PROVE Good(saves'[q])
  <2>1. PICK p \in saves[s].todo :
            Update(s, [saves[s] EXCEPT
                !.todo = @ \ {p},
                !.inserted = IF p \in table[saves[s].role] \ saves[s].doomed
                             THEN @ ELSE @ \cup {p}])
    BY <1>3 DEF InsertNext
  <2>2. Good([saves[s] EXCEPT
            !.todo = @ \ {p},
            !.inserted = IF p \in table[saves[s].role] \ saves[s].doomed
                         THEN @ ELSE @ \cup {p}])
    BY <1>3 DEF InsertNext, PutsBack, Save
  <2> QED
    BY <1>0, <2>1, <2>2
<1>4. ASSUME NEW s \in Savers, Commit(s) PROVE Good(saves'[q])
  <2>1. Good([NoSave EXCEPT !.pc = "loading"])
    BY DEF NoSave
  <2>2. saves[q].pc = "deleting" => Good([saves[q] EXCEPT !.doomed = @ \ saves[s].doomed])
    BY <1>0 DEF Save
  <2> QED
    BY <1>0, <1>4, <2>1, <2>2 DEF Commit
<1>5. ASSUME NEW s \in Savers, Rollback(s) \/ LoadFails(s) \/ Swap(s) PROVE Good(saves'[q])
    BY <1>0, <1>5 DEF Rollback, LoadFails, Swap
<1>6. ASSUME NEW s \in Savers, Load(s) PROVE Good(saves'[q])
    BY <1>0, <1>6 DEF Load, Save
<1>7. CASE Restart
    BY <1>0, <1>7 DEF Restart
<1>8. CASE UNCHANGED permissionsVars
    BY <1>0, <1>8 DEF permissionsVars
<1> QED
    BY <1>1, <1>2, <1>3, <1>4, <1>5, <1>6, <1>7, <1>8 DEF PermissionsNext, Step, AbortDeadlocked

\* Every reachable state satisfies the invariant.
LEMMA Invariance == PermissionsSpec => []Inv
<1>1. PermissionsInit => Inv
    BY PermissionsAssumption DEF PermissionsInit, Inv, PermissionsTypeOK, PutsBack, NoSave, Save, Nothing, Tables
<1>2. Inv /\ [PermissionsNext]_permissionsVars => Inv'
    BY TypePreserved, PutsBackPreserved DEF Inv
<1> QED
    BY <1>1, <1>2, PTL DEF PermissionsSpec

\* Saves and the cache keep their types through every race and restart
\* (store.go:559, handler.go:227).
THEOREM TypeOKAlways == PermissionsSpec => []PermissionsTypeOK
<1>1. Inv => PermissionsTypeOK
    BY DEF Inv
<1> QED
    BY <1>1, Invariance, PTL

\* A permission that every save under way keeps is never taken from its role
\* (store.go:559).
THEOREM KeptPermissionsAlwaysStay == PermissionsSpec => KeptPermissionsStay
<1>1. ASSUME Inv, [PermissionsNext]_permissionsVars, NEW role \in RoleTypes, NEW p \in Perms, p \in table[role],
             \A s \in Savers : InTransaction(s, role) => p \in saves[s].wanted
      PROVE  p \in table'[role]
  <2> USE <1>1 DEF Inv, PermissionsTypeOK
  <2>1. ASSUME NEW s \in Savers, Commit(s) PROVE p \in table'[role]
    <3>1. CASE saves[s].role # role
      BY <2>1, <3>1 DEF Commit, Tables
    <3>2. CASE saves[s].role = role
      <4>1. p \in saves[s].wanted /\ saves[s].todo = {}
        BY <2>1, <3>2 DEF Commit, InTransaction
      <4>2. p \in saves[s].doomed => p \in saves[s].inserted
        BY <2>1, <4>1 DEF Commit, PutsBack
      <4> QED
        BY <2>1, <3>2, <4>2 DEF Commit, Tables
    <3> QED
      BY <3>1, <3>2
  <2>2. CASE UNCHANGED table
    BY <2>2
  <2> QED
    BY <2>1, <2>2 DEF PermissionsNext, Step, permissionsVars, BeginSave, DeleteRows, InsertNext, Rollback,
       AbortDeadlocked, Load, LoadFails, Swap, Restart
<1>2. Inv /\ [PermissionsNext]_permissionsVars =>
        [\A role \in RoleTypes, p \in Perms :
            (/\ p \in table[role]
             /\ \A s \in Savers : InTransaction(s, role) => p \in saves[s].wanted)
            => p \in table'[role]]_permissionsVars
    BY <1>1
<1> QED
    BY <1>2, Invariance, PTL DEF PermissionsSpec, KeptPermissionsStay
=============================================================================
