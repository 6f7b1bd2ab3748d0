-------------------------------- MODULE Tables --------------------------------
(***************************************************************************)
(* Tables of numbered rows, and what a statement of PostgreSQL does to     *)
(* them under foreign keys and unique constraints.                         *)
(*                                                                         *)
(* db[t][i] is the row i of the table t, a function of its columns.  A     *)
(* column that names a row holds its number, or Null.  A foreign key is a  *)
(* record: the column col of the table from names a row of the table to,   *)
(* rule is its ON DELETE rule, and optional tells whether it may be NULL.  *)
(* A unique constraint is a record of a table and a set of its columns.    *)
(***************************************************************************)
EXTENDS Integers

Null == 0

Row(t, i) == <<t, i>>

\* The rows that name, through the foreign key k, a row of D.
Naming(db, k, D) ==
    {Row(k.from, i) : i \in {j \in DOMAIN db[k.from] : Row(k.to, db[k.from][j][k.col]) \in D}}

\* ON DELETE CASCADE, one step of it.
Cascade(db, keys, D) ==
    D \cup UNION {Naming(db, k, D) : k \in {j \in keys : j.rule = "cascade"}}

\* The longest chain of cascades of this database has four steps, from an
\* organisation to an issue of a room.
Doomed(db, keys, D) ==
    LET Twice(E) == Cascade(db, keys, Cascade(db, keys, E))
    IN  Twice(Twice(D))

\* ON DELETE RESTRICT, and NO ACTION, which looks when the statement ends.
Refused(db, keys, D) ==
    \E k \in keys :
        \/ k.rule = "restrict"  /\ Naming(db, k, D) # {}
        \/ k.rule = "no_action" /\ ~ Naming(db, k, D) \subseteq D

\* ON DELETE SET NULL.
Unset(db, keys, D, t, i) ==
    [c \in DOMAIN db[t][i] |->
        IF \E k \in keys : /\ k.from = t /\ k.col = c /\ k.rule = "set_null"
                           /\ Row(k.to, db[t][i][c]) \in D
        THEN Null ELSE db[t][i][c]]

\* The database once the rows of D are gone.
Without(db, keys, D) ==
    [t \in DOMAIN db |->
        [i \in {j \in DOMAIN db[t] : Row(t, j) \notin D} |-> Unset(db, keys, D, t, i)]]

\* The database with the row i of t inserted or replaced.
With(db, t, i, row) ==
    [db EXCEPT ![t] = [j \in DOMAIN db[t] \cup {i} |-> IF j = i THEN row ELSE db[t][j]]]

\* Every foreign key of the row is NULL where it may be, or names a row.
Refers(db, keys, t, row) ==
    \A k \in keys : k.from = t =>
        \/ row[k.col] \in DOMAIN db[k.to]
        \/ k.optional /\ row[k.col] = Null

\* No other row of t has the values that row has in a unique set of columns.
Unique(db, uniques, t, i, row) ==
    \A u \in uniques : u.table = t =>
        \A j \in DOMAIN db[t] \ {i} : \E c \in u.columns : db[t][j][c] # row[c]

Accepted(db, keys, uniques, t, i, row) ==
    Refers(db, keys, t, row) /\ Unique(db, uniques, t, i, row)

\* Every reference of every row is good.
Whole(db, keys) ==
    \A t \in DOMAIN db : \A i \in DOMAIN db[t] : Refers(db, keys, t, db[t][i])
=============================================================================
