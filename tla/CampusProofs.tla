----------------------------- MODULE CampusProofs -----------------------------
(***************************************************************************)
(* Proofs about the administrators' screens, for any database they start   *)
(* with, any labels and persons, and any requests that run together.       *)
(*                                                                         *)
(* The foreign keys come first: four cascades are enough, no cascade       *)
(* reaches the teaching, and a deletion that is not refused leaves every   *)
(* reference of every row good.  The other invariants rest on that.        *)
(***************************************************************************)
EXTENDS Campus, FiniteSetTheorems, WellFoundedInduction, TLAPS

-----------------------------------------------------------------------------
(* The foreign keys                                                        *)

\* The tables of a foreign key are tables, and a reference that is cleared
\* may be NULL.
LEMMA KeysAreTyped ==
    \A k \in Keys :
        /\ k.from \in Tabs /\ k.to \in Tabs
        /\ k.rule \in {"cascade", "restrict", "no_action", "set_null"}
        /\ k.rule = "set_null" => k.optional
<1>1. \A k \in PlaceKeys :
        /\ k.from \in Tabs /\ k.to \in Tabs
        /\ k.rule \in {"cascade", "restrict", "no_action", "set_null"}
        /\ k.rule = "set_null" => k.optional
  BY DEF PlaceKeys, Key, Tabs
<1>2. \A k \in CurriculumKeys :
        /\ k.from \in Tabs /\ k.to \in Tabs
        /\ k.rule \in {"cascade", "restrict", "no_action", "set_null"}
        /\ k.rule = "set_null" => k.optional
  BY DEF CurriculumKeys, Key, Tabs
<1>3. \A k \in TeachingKeys :
        /\ k.from \in Tabs /\ k.to \in Tabs
        /\ k.rule \in {"cascade", "restrict", "no_action", "set_null"}
        /\ k.rule = "set_null" => k.optional
  BY DEF TeachingKeys, Key, Tabs
<1> QED
  BY <1>1, <1>2, <1>3 DEF Keys

\* A reference that is cleared has one foreign key.
LEMMA ClearedByOneKey ==
    \A k, j \in Keys : k.rule = "set_null" /\ j.from = k.from /\ j.col = k.col
                          => j.rule = "set_null" /\ j.to = k.to
<1> DEFINE To(from, col) ==
             CASE from = "sessions" /\ col = "room" -> "rooms"
               [] from = "sessions" /\ col = "building" -> "buildings"
               [] from = "departments" -> "faculties"
               [] OTHER -> "groups"
           Clears(from, col) ==
               \/ from = "sessions" /\ col \in {"room", "building"}
               \/ from = "departments"
               \/ from \in {"classes", "enrolments"} /\ col = "group"
<1>1. \A k \in PlaceKeys :
          /\ k.rule = "set_null" => Clears(k.from, k.col)
          /\ Clears(k.from, k.col) => k.rule = "set_null" /\ k.to = To(k.from, k.col)
  BY DEF PlaceKeys, Key
<1>2. \A k \in CurriculumKeys :
          /\ k.rule = "set_null" => Clears(k.from, k.col)
          /\ Clears(k.from, k.col) => k.rule = "set_null" /\ k.to = To(k.from, k.col)
  BY DEF CurriculumKeys, Key
<1>3. \A k \in TeachingKeys :
          /\ k.rule = "set_null" => Clears(k.from, k.col)
          /\ Clears(k.from, k.col) => k.rule = "set_null" /\ k.to = To(k.from, k.col)
  BY DEF TeachingKeys, Key
<1> QED
  <2> HIDE DEF To, Clears
  <2> QED
    BY <1>1, <1>2, <1>3 DEF Keys

\* How far down the chains of cascades a table is.
Depth ==
    [t \in Tabs |->
        CASE t \in {"specs", "software", "issues"} -> 4
          [] t = "rooms" -> 3
          [] t \in {"buildings", "prefs", "classsubjects"} -> 2
          [] t \in {"locations", "persondepts", "subjectprograms", "groups", "sessions"} -> 1
          [] OTHER -> 0]

\* Every cascade goes one table further down, at least.
LEMMA CascadesGoDown ==
    \A k \in Keys : k.rule = "cascade" => Depth[k.from] > Depth[k.to]
<1>1. \A k \in PlaceKeys : k.rule = "cascade" => Depth[k.from] > Depth[k.to]
  BY DEF PlaceKeys, Key, Tabs, Depth
<1>2. \A k \in CurriculumKeys : k.rule = "cascade" => Depth[k.from] > Depth[k.to]
  BY DEF CurriculumKeys, Key, Tabs, Depth
<1>3. \A k \in TeachingKeys : k.rule = "cascade" => Depth[k.from] > Depth[k.to]
  BY DEF TeachingKeys, Key, Tabs, Depth
<1> QED
  BY <1>1, <1>2, <1>3 DEF Keys

\* No cascade leads from a table that is not of the teaching to one that is.
LEMMA NoCascadeIntoTeaching ==
    \A k \in Keys : k.rule = "cascade" /\ k.to \notin Teaching => k.from \notin Teaching
  BY DEF Keys, PlaceKeys, CurriculumKeys, TeachingKeys, Key, Teaching

-----------------------------------------------------------------------------
(* What a deletion takes away                                              *)

\* The rows that a key names, and what one step of a cascade adds.
LEMMA Names ==
    ASSUME NEW d, NEW k, NEW D, NEW r
    PROVE  r \in Naming(d, k, D) <=>
             \E j \in DOMAIN d[k.from] :
                 r = Row(k.from, j) /\ Row(k.to, d[k.from][j][k.col]) \in D
  BY DEF Naming

\* One round of cascades adds the rows that name what is doomed.
LEMMA Cascades ==
    ASSUME NEW d, NEW D, NEW r
    PROVE  r \in Cascade(d, Keys, D) <=>
             \/ r \in D
             \/ \E k \in Keys : k.rule = "cascade" /\ r \in Naming(d, k, D)
  BY DEF Cascade

\* The table of a row.
LEMMA RowTable == \A t, i : Row(t, i)[1] = t
  BY DEF Row

\* What a step of a cascade adds is further down than what the last one added.
LEMMA Deeper ==
    ASSUME NEW d, NEW D, NEW n \in Int,
           \A s \in Cascade(d, Keys, D) \ D : s[1] \in Tabs /\ Depth[s[1]] >= n
    PROVE  LET E == Cascade(d, Keys, D)
           IN  \A r \in Cascade(d, Keys, E) \ E : r[1] \in Tabs /\ Depth[r[1]] >= n + 1
<1> DEFINE E == Cascade(d, Keys, D)
<1> SUFFICES ASSUME NEW r \in Cascade(d, Keys, E) \ E
             PROVE  r[1] \in Tabs /\ Depth[r[1]] >= n + 1
  OBVIOUS
<1>1. PICK k \in Keys : k.rule = "cascade" /\ r \in Naming(d, k, E)
  BY Cascades
<1>2. PICK j \in DOMAIN d[k.from] :
          r = Row(k.from, j) /\ Row(k.to, d[k.from][j][k.col]) \in E
  BY <1>1, Names
<1>3. Row(k.to, d[k.from][j][k.col]) \notin D
  <2>1. SUFFICES ASSUME Row(k.to, d[k.from][j][k.col]) \in D PROVE r \in E
    OBVIOUS
  <2>2. r \in Naming(d, k, D)
    BY <1>2, <2>1, Names
  <2> QED
    BY <1>1, <2>2, Cascades
<1>4. Depth[k.to] >= n
  BY <1>2, <1>3, RowTable
<1>5. Depth[k.from] > Depth[k.to] /\ k.from \in Tabs /\ k.to \in Tabs
  BY <1>1, CascadesGoDown, KeysAreTyped
<1>6. Depth[k.from] \in Int /\ Depth[k.to] \in Int
  BY <1>5 DEF Depth
<1>7. r[1] = k.from
  BY <1>2, RowTable
<1> QED
  BY <1>4, <1>5, <1>6, <1>7

\* Four steps are enough: the rows that a deletion takes along are closed
\* under the cascades.
LEMMA DoomedIsClosed ==
    ASSUME NEW d, NEW t \in Tabs, NEW i
    PROVE  LET D == Doomed(d, Keys, {Row(t, i)})
           IN  Row(t, i) \in D /\ Cascade(d, Keys, D) = D
<1> DEFINE C0 == {Row(t, i)}
           C1 == Cascade(d, Keys, C0)
           C2 == Cascade(d, Keys, C1)
           C3 == Cascade(d, Keys, C2)
           C4 == Cascade(d, Keys, C3)
           C5 == Cascade(d, Keys, C4)
<1>1. Doomed(d, Keys, C0) = C4
  BY DEF Doomed
<1>2. \A r \in C1 \ C0 : r[1] \in Tabs /\ Depth[r[1]] >= 1
  <2> SUFFICES ASSUME NEW r \in C1 \ C0 PROVE r[1] \in Tabs /\ Depth[r[1]] >= 1
    OBVIOUS
  <2>1. PICK k \in Keys : k.rule = "cascade" /\ r \in Naming(d, k, C0)
    BY Cascades
  <2>2. r[1] = k.from
    BY <2>1, Names, RowTable
  <2>3. Depth[k.from] > Depth[k.to] /\ k.from \in Tabs /\ k.to \in Tabs
    BY <2>1, CascadesGoDown, KeysAreTyped
  <2>4. Depth[k.from] \in Int /\ Depth[k.to] \in Int /\ Depth[k.to] >= 0
    BY <2>3 DEF Depth
  <2> QED
    BY <2>2, <2>3, <2>4
<1> HIDE DEF C0
<1>3. \A r \in C2 \ C1 : r[1] \in Tabs /\ Depth[r[1]] >= 2
  BY <1>2, Deeper
<1> HIDE DEF C1
<1>4. \A r \in C3 \ C2 : r[1] \in Tabs /\ Depth[r[1]] >= 3
  BY <1>3, Deeper
<1> HIDE DEF C2
<1>5. \A r \in C4 \ C3 : r[1] \in Tabs /\ Depth[r[1]] >= 4
  BY <1>4, Deeper
<1> HIDE DEF C3
<1>6. \A r \in C5 \ C4 : r[1] \in Tabs /\ Depth[r[1]] >= 5
  BY <1>5, Deeper
<1>7. \A u \in Tabs : Depth[u] \in Int /\ Depth[u] <= 4
  BY DEF Depth
<1> HIDE DEF C4
<1>8. C5 \ C4 = {}
  BY <1>6, <1>7
<1>9. C0 \subseteq C4 /\ C4 \subseteq C5
  <2>1. C0 \subseteq C1
    BY Cascades DEF C1
  <2>2. C1 \subseteq C2
    BY Cascades DEF C2
  <2>3. C2 \subseteq C3
    BY Cascades DEF C3
  <2>4. C3 \subseteq C4 /\ C4 \subseteq C5
    BY Cascades DEF C4
  <2> QED
    BY <2>1, <2>2, <2>3, <2>4
<1>10. Row(t, i) \in C4
  BY <1>9 DEF C0
<1>11. C5 = C4
  BY <1>8, <1>9
<1> QED
  BY <1>1, <1>10, <1>11 DEF C0

\* The tables U are left to themselves by the cascades.
Sealed(U) == U \subseteq Tabs /\ \A k \in Keys : k.rule = "cascade" /\ k.to \in U => k.from \in U

\* A deletion from a set of tables that no cascade leaves stays in it.
LEMMA DoomedStays ==
    ASSUME NEW d, NEW U, Sealed(U), NEW t \in U, NEW i
    PROVE  \A r \in Doomed(d, Keys, {Row(t, i)}) : r[1] \in U
<1>1. ASSUME NEW D, \A r \in D : r[1] \in U
      PROVE  \A r \in Cascade(d, Keys, D) : r[1] \in U
  <2> SUFFICES ASSUME NEW r \in Cascade(d, Keys, D), r \notin D PROVE r[1] \in U
    BY <1>1
  <2>1. PICK k \in Keys : k.rule = "cascade" /\ r \in Naming(d, k, D)
    BY Cascades
  <2>2. PICK j \in DOMAIN d[k.from] :
            r = Row(k.from, j) /\ Row(k.to, d[k.from][j][k.col]) \in D
    BY <2>1, Names
  <2>3. k.to \in U
    BY <1>1, <2>2, RowTable
  <2> QED
    BY <2>1, <2>2, <2>3, RowTable DEF Sealed
<1> DEFINE C1 == Cascade(d, Keys, {Row(t, i)})
           C2 == Cascade(d, Keys, C1)
           C3 == Cascade(d, Keys, C2)
           C4 == Cascade(d, Keys, C3)
<1>2. \A r \in C1 : r[1] \in U
  BY <1>1, RowTable
<1> HIDE DEF C1
<1>3. \A r \in C2 : r[1] \in U
  BY <1>1, <1>2
<1> HIDE DEF C2
<1>4. \A r \in C3 : r[1] \in U
  BY <1>1, <1>3
<1> HIDE DEF C3
<1>5. \A r \in C4 : r[1] \in U
  BY <1>1, <1>4
<1> QED
  BY <1>5 DEF Doomed, C3, C2, C1

\* A row goes because it is the one that is deleted, or because it names,
\* through a cascade, a row that goes.
LEMMA WhyDoomed ==
    ASSUME NEW d, NEW t \in Tabs, NEW i, NEW r \in Doomed(d, Keys, {Row(t, i)})
    PROVE  \/ r = Row(t, i)
           \/ \E k \in Keys : \E j \in DOMAIN d[k.from] :
                 /\ k.rule = "cascade" /\ r = Row(k.from, j)
                 /\ Row(k.to, d[k.from][j][k.col]) \in Doomed(d, Keys, {Row(t, i)})
<1> DEFINE D == Doomed(d, Keys, {Row(t, i)})
           Because(q) == \E k \in Keys : \E j \in DOMAIN d[k.from] :
                            /\ k.rule = "cascade" /\ q = Row(k.from, j)
                            /\ Row(k.to, d[k.from][j][k.col]) \in D
           C1 == Cascade(d, Keys, {Row(t, i)})
           C2 == Cascade(d, Keys, C1)
           C3 == Cascade(d, Keys, C2)
           C4 == Cascade(d, Keys, C3)
<1>1. ASSUME NEW C, C \subseteq D, NEW q \in Cascade(d, Keys, C) PROVE q \in C \/ Because(q)
  <2> SUFFICES ASSUME q \notin C PROVE Because(q)
    OBVIOUS
  <2>1. PICK k \in Keys : k.rule = "cascade" /\ q \in Naming(d, k, C)
    BY <1>1, Cascades
  <2>2. PICK j \in DOMAIN d[k.from] :
            q = Row(k.from, j) /\ Row(k.to, d[k.from][j][k.col]) \in C
    BY <2>1, Names
  <2> QED
    BY <1>1, <2>1, <2>2
<1>2. D = C4
  BY DEF Doomed
<1>3. {Row(t, i)} \subseteq C1 /\ C1 \subseteq C2 /\ C2 \subseteq C3 /\ C3 \subseteq C4
  BY Cascades
<1> HIDE DEF D, Because
<1>4. r \in C3 \/ Because(r)
  BY <1>1, <1>2, <1>3 DEF D
<1>5. r \in C3 => r \in C2 \/ Because(r)
  BY <1>1, <1>2, <1>3
<1>6. r \in C2 => r \in C1 \/ Because(r)
  BY <1>1, <1>2, <1>3
<1>7. r \in C1 => r = Row(t, i) \/ Because(r)
  BY <1>1, <1>2, <1>3
<1> QED
  BY <1>4, <1>5, <1>6, <1>7 DEF Because, D

\* The database without some rows: the others keep their columns, but for
\* the references that are cleared.
LEMMA WithoutRows ==
    ASSUME NEW d, DOMAIN d = Tabs, NEW D
    PROVE  LET e == Without(d, Keys, D)
           IN  /\ DOMAIN e = Tabs
               /\ \A t \in Tabs :
                     /\ DOMAIN e[t] = {j \in DOMAIN d[t] : Row(t, j) \notin D}
                     /\ \A j \in DOMAIN e[t] :
                           /\ DOMAIN e[t][j] = DOMAIN d[t][j]
                           /\ e[t][j] = [c \in DOMAIN d[t][j] |-> e[t][j][c]]
                           /\ \A c \in DOMAIN d[t][j] :
                                 IF \E k \in Keys :
                                        /\ k.from = t /\ k.col = c /\ k.rule = "set_null"
                                        /\ Row(k.to, d[t][j][c]) \in D
                                 THEN e[t][j][c] = Null
                                 ELSE e[t][j][c] = d[t][j][c]
<1> DEFINE e == Without(d, Keys, D)
<1>1. /\ DOMAIN e = Tabs
      /\ \A t \in Tabs :
            /\ DOMAIN e[t] = {j \in DOMAIN d[t] : Row(t, j) \notin D}
            /\ \A j \in DOMAIN e[t] : e[t][j] = Unset(d, Keys, D, t, j)
  BY DEF Without
<1> HIDE DEF e
<1>2. ASSUME NEW t \in Tabs, NEW j \in DOMAIN e[t]
      PROVE  /\ DOMAIN e[t][j] = DOMAIN d[t][j]
             /\ e[t][j] = [c \in DOMAIN d[t][j] |-> e[t][j][c]]
             /\ \A c \in DOMAIN d[t][j] :
                   IF \E k \in Keys : /\ k.from = t /\ k.col = c /\ k.rule = "set_null"
                                      /\ Row(k.to, d[t][j][c]) \in D
                   THEN e[t][j][c] = Null
                   ELSE e[t][j][c] = d[t][j][c]
  BY <1>1, <1>2 DEF Unset
<1>3. /\ DOMAIN e = Tabs
      /\ \A t \in Tabs :
            /\ DOMAIN e[t] = {j \in DOMAIN d[t] : Row(t, j) \notin D}
            /\ \A j \in DOMAIN e[t] :
                  /\ DOMAIN e[t][j] = DOMAIN d[t][j]
                  /\ e[t][j] = [c \in DOMAIN d[t][j] |-> e[t][j][c]]
                  /\ \A c \in DOMAIN d[t][j] :
                        IF \E k \in Keys : /\ k.from = t /\ k.col = c /\ k.rule = "set_null"
                                           /\ Row(k.to, d[t][j][c]) \in D
                        THEN e[t][j][c] = Null
                        ELSE e[t][j][c] = d[t][j][c]
  BY <1>1, <1>2
<1> QED
  BY <1>3 DEF e

\* The columns of the foreign keys are columns of their tables.
LEMMA KeysAreColumns == \A k \in Keys : k.col \in Columns[k.from]
<1>1. \A k \in PlaceKeys : k.col \in Columns[k.from]
  BY DEF PlaceKeys, Key, Tabs, Columns
<1>2. \A k \in CurriculumKeys : k.col \in Columns[k.from]
  BY DEF CurriculumKeys, Key, Tabs, Columns
<1>3. \A k \in TeachingKeys : k.col \in Columns[k.from]
  BY DEF TeachingKeys, Key, Tabs, Columns
<1> QED
  BY <1>1, <1>2, <1>3 DEF Keys

\* The rows of every table have its columns.
Columned(d) ==
    /\ DOMAIN d = Tabs
    /\ \A t \in Tabs : \A j \in DOMAIN d[t] : DOMAIN d[t][j] = Columns[t]

\* A deletion that is not refused leaves every reference of every row good.
LEMMA DeletionLeavesWhole ==
    ASSUME NEW d, Columned(d), Whole(d, Keys), NEW t \in Tabs, NEW i,
           ~ Refused(d, Keys, Doomed(d, Keys, {Row(t, i)}))
    PROVE  Whole(Without(d, Keys, Doomed(d, Keys, {Row(t, i)})), Keys)
<1> DEFINE D == Doomed(d, Keys, {Row(t, i)})
           e == Without(d, Keys, D)
<1>1. Cascade(d, Keys, D) = D
  BY DoomedIsClosed
<1>2. ~ Refused(d, Keys, D)
  OBVIOUS
<1> HIDE DEF D
<1>3. /\ DOMAIN e = Tabs
      /\ \A u \in Tabs :
            /\ DOMAIN e[u] = {j \in DOMAIN d[u] : Row(u, j) \notin D}
            /\ \A j \in DOMAIN e[u] :
                  /\ DOMAIN e[u][j] = DOMAIN d[u][j]
                  /\ e[u][j] = [c \in DOMAIN d[u][j] |-> e[u][j][c]]
                  /\ \A c \in DOMAIN d[u][j] :
                        IF \E k \in Keys : /\ k.from = u /\ k.col = c /\ k.rule = "set_null"
                                           /\ Row(k.to, d[u][j][c]) \in D
                        THEN e[u][j][c] = Null
                        ELSE e[u][j][c] = d[u][j][c]
  <2>1. DOMAIN d = Tabs
    BY DEF Columned
  <2> HIDE DEF e
  <2>2. e = Without(d, Keys, D)
    BY DEF e
  <2> QED
    BY <2>1, <2>2, WithoutRows
<1> HIDE DEF e
<1>4. ASSUME NEW u \in Tabs, NEW j \in DOMAIN e[u], NEW k \in Keys, k.from = u
      PROVE  \/ e[u][j][k.col] \in DOMAIN e[k.to]
             \/ k.optional /\ e[u][j][k.col] = Null
  <2> DEFINE v == d[u][j][k.col]
  <2>1. j \in DOMAIN d[u] /\ Row(u, j) \notin D
    BY <1>3
  <2>2. k.col \in DOMAIN d[u][j]
    BY <1>4, <2>1, KeysAreColumns DEF Columned
  <2>3. v \in DOMAIN d[k.to] \/ (k.optional /\ v = Null)
    <3>1. Refers(d, Keys, u, d[u][j])
      BY <2>1 DEF Whole, Columned
    <3> QED
      BY <1>4, <3>1 DEF Refers
  <2>4. k.to \in Tabs
    BY KeysAreTyped
  <2>5. CASE Row(k.to, v) \in D
    <3>1. Row(u, j) \in Naming(d, k, D)
      BY <1>4, <2>1, <2>5, Names
    <3>2. k.rule # "cascade"
      BY <1>1, <2>1, <3>1, Cascades
    <3>3. k.rule # "restrict"
      BY <1>2, <3>1 DEF Refused
    <3>4. k.rule # "no_action"
      BY <1>2, <2>1, <3>1 DEF Refused
    <3>5. k.rule = "set_null" /\ k.optional
      BY <3>2, <3>3, <3>4, KeysAreTyped
    <3>6. e[u][j][k.col] = Null
      BY <1>3, <1>4, <2>2, <2>5, <3>5
    <3> QED
      BY <3>5, <3>6
  <2>6. CASE Row(k.to, v) \notin D
    <3>1. ~ \E l \in Keys : /\ l.from = u /\ l.col = k.col /\ l.rule = "set_null"
                            /\ Row(l.to, v) \in D
      BY <1>4, <2>6, ClearedByOneKey
    <3>2. e[u][j][k.col] = v
      BY <1>3, <2>2, <3>1
    <3> QED
      BY <1>3, <2>3, <2>4, <2>6, <3>2
  <2> QED
    BY <2>5, <2>6
<1>5. Whole(e, Keys)
  BY <1>3, <1>4 DEF Whole, Refers
<1> QED
  BY <1>5 DEF e, D

-----------------------------------------------------------------------------
(* What a statement does to the tables                                     *)

\* A row that the database accepts leaves every reference good.
LEMMA AcceptedLeavesWhole ==
    ASSUME NEW d, Columned(d), Whole(d, Keys), NEW t \in Tabs, NEW i, NEW row,
           Refers(d, Keys, t, row)
    PROVE  Whole(With(d, t, i, row), Keys)
<1> DEFINE e == With(d, t, i, row)
<1>1. /\ DOMAIN e = Tabs
      /\ \A u \in Tabs : DOMAIN d[u] \subseteq DOMAIN e[u]
      /\ \A u \in Tabs : \A j \in DOMAIN e[u] :
            \/ u = t /\ j = i /\ e[u][j] = row
            \/ j \in DOMAIN d[u] /\ e[u][j] = d[u][j]
  BY DEF With, Columned
<1> HIDE DEF e
<1>2. ASSUME NEW u \in Tabs, NEW r, Refers(d, Keys, u, r)
      PROVE  Refers(e, Keys, u, r)
  <2> SUFFICES ASSUME NEW k \in Keys, k.from = u
               PROVE  r[k.col] \in DOMAIN e[k.to] \/ (k.optional /\ r[k.col] = Null)
    BY DEF Refers
  <2>1. r[k.col] \in DOMAIN d[k.to] \/ (k.optional /\ r[k.col] = Null)
    BY <1>2 DEF Refers
  <2>2. k.to \in Tabs
    BY KeysAreTyped
  <2> QED
    BY <1>1, <2>1, <2>2
<1>3. ASSUME NEW u \in Tabs, NEW j \in DOMAIN e[u] PROVE Refers(e, Keys, u, e[u][j])
  <2>1. CASE u = t /\ j = i /\ e[u][j] = row
    BY <1>2, <2>1
  <2>2. CASE j \in DOMAIN d[u] /\ e[u][j] = d[u][j]
    <3>1. Refers(d, Keys, u, d[u][j])
      BY <2>2 DEF Whole, Columned
    <3> QED
      BY <1>2, <2>2, <3>1
  <2> QED
    BY <1>1, <2>1, <2>2
<1>4. Whole(e, Keys)
  BY <1>1, <1>3 DEF Whole
<1> QED
  BY <1>4 DEF e

\* The tables, without what the requests remember.
TablesOK ==
    /\ DOMAIN db = Tabs
    /\ sequence \in [Tabs -> 0 .. MaxRow]
    /\ \A t \in Tabs :
          /\ Ids(t) \subseteq 1 .. sequence[t]
          /\ \A i \in Ids(t) : DOMAIN db[t][i] = Columns[t]
    /\ \A i \in Ids("issues") : db["issues"][i]["resolved"] => db["issues"][i]["status"] = "Resolved"

TablesInv == TablesOK /\ Whole(db, Keys)

\* A row for the table t.
Fits(t, row) ==
    /\ DOMAIN row = Columns[t]
    /\ t = "issues" => (row["resolved"] => row["status"] = "Resolved")

\* One row more, or another row in its place.
LEMMA RowsWith ==
    ASSUME TablesInv, NEW t \in Tabs, NEW i, NEW row, db' = With(db, t, i, row)
    PROVE  /\ DOMAIN db' = Tabs
           /\ \A u \in Tabs \ {t} : db'[u] = db[u]
           /\ DOMAIN db'[t] = Ids(t) \cup {i}
           /\ db'[t][i] = row
           /\ \A j \in Ids(t) \ {i} : db'[t][j] = db[t][j]
  BY DEF With, TablesInv, TablesOK, Ids

\* The number of a new row is a new number.
LEMMA NewIdIsNew ==
    ASSUME TablesInv, NEW t \in Tabs
    PROVE  /\ sequence[t] \in Nat /\ NewId(t) \in Nat /\ NewId(t) > 0
           /\ NewId(t) \notin Ids(t)
           /\ \A i \in Ids(t) : i \in Nat /\ 0 < i /\ i <= sequence[t]
<1>1. MaxRow \in Nat /\ sequence[t] \in 0 .. MaxRow /\ Ids(t) \subseteq 1 .. sequence[t]
  BY CampusAssumption DEF TablesInv, TablesOK
<1> QED
  BY <1>1 DEF NewId

\* An insert adds its row, which fits, and leaves the other tables alone.
LEMMA Inserted ==
    ASSUME TablesInv, NEW t \in Tabs, NEW row, Insert(t, row), Fits(t, row)
    PROVE  /\ TablesInv'
           /\ \A u \in Tabs \ {t} : db'[u] = db[u] /\ sequence'[u] = sequence[u]
           /\ sequence'[t] = NewId(t)
           /\ DOMAIN db'[t] = Ids(t) \cup {NewId(t)}
           /\ db'[t][NewId(t)] = row
           /\ \A j \in Ids(t) : db'[t][j] = db[t][j]
<1>1. /\ NewId(t) <= MaxRow /\ Refers(db, Keys, t, row)
      /\ db' = With(db, t, NewId(t), row)
      /\ sequence' = [sequence EXCEPT ![t] = @ + 1]
  BY DEF Insert, Accepted
<1>2. /\ sequence[t] \in Nat /\ NewId(t) \in Nat /\ NewId(t) > 0 /\ NewId(t) \notin Ids(t)
      /\ NewId(t) = sequence[t] + 1
  BY NewIdIsNew DEF NewId
<1>3. /\ DOMAIN db' = Tabs
      /\ \A u \in Tabs \ {t} : db'[u] = db[u]
      /\ DOMAIN db'[t] = Ids(t) \cup {NewId(t)}
      /\ db'[t][NewId(t)] = row
      /\ \A j \in Ids(t) : db'[t][j] = db[t][j]
  BY <1>1, <1>2, RowsWith
<1>4. sequence \in [Tabs -> 0 .. MaxRow] /\ MaxRow \in Nat
  BY CampusAssumption DEF TablesInv, TablesOK
<1>5. /\ sequence' \in [Tabs -> 0 .. MaxRow]
      /\ sequence'[t] = NewId(t)
      /\ \A u \in Tabs \ {t} : sequence'[u] = sequence[u]
  BY <1>1, <1>2, <1>4
<1>6. Whole(db', Keys)
  BY <1>1, AcceptedLeavesWhole DEF TablesInv, TablesOK, Columned, Ids
<1>7. ASSUME NEW u \in Tabs
      PROVE  /\ DOMAIN db'[u] \subseteq 1 .. sequence'[u]
             /\ \A i \in DOMAIN db'[u] : DOMAIN db'[u][i] = Columns[u]
  <2>1. /\ Ids(u) \subseteq 1 .. sequence[u]
        /\ \A i \in Ids(u) : DOMAIN db[u][i] = Columns[u]
    BY DEF TablesInv, TablesOK
  <2>2. CASE u = t
    BY <1>2, <1>3, <1>5, <2>1, <2>2 DEF Fits
  <2>3. CASE u # t
    BY <1>3, <1>5, <2>1, <2>3 DEF Ids
  <2> QED
    BY <2>2, <2>3
<1>8. ASSUME NEW i \in DOMAIN db'["issues"], db'["issues"][i]["resolved"]
      PROVE  db'["issues"][i]["status"] = "Resolved"
  <2>1. "issues" \in Tabs
    BY DEF Tabs
  <2>2. CASE t = "issues" /\ i = NewId(t)
    BY <1>3, <1>8, <2>2 DEF Fits
  <2>3. CASE ~ (t = "issues" /\ i = NewId(t))
    <3>1. i \in Ids("issues") /\ db'["issues"][i] = db["issues"][i]
      BY <1>3, <2>1, <2>3 DEF Ids
    <3> QED
      BY <1>8, <3>1 DEF TablesInv, TablesOK
  <2> QED
    BY <2>2, <2>3
<1>9. TablesInv'
  BY <1>3, <1>5, <1>6, <1>7, <1>8 DEF TablesInv, TablesOK, Ids
<1> QED
  BY <1>3, <1>5, <1>9

\* An update changes its row and leaves the numbers of the rows alone.
LEMMA Updated ==
    ASSUME TablesInv, NEW t \in Tabs, NEW i, NEW row, Update(t, i, row), Fits(t, row)
    PROVE  /\ TablesInv' /\ i \in Ids(t) /\ sequence' = sequence
           /\ \A u \in Tabs : DOMAIN db'[u] = Ids(u)
           /\ \A u \in Tabs \ {t} : db'[u] = db[u]
           /\ db'[t][i] = row
           /\ \A j \in Ids(t) \ {i} : db'[t][j] = db[t][j]
<1>1. /\ i \in Ids(t) /\ Refers(db, Keys, t, row)
      /\ db' = With(db, t, i, row)
      /\ sequence' = sequence
  BY DEF Update, Accepted
<1>2. /\ DOMAIN db' = Tabs
      /\ \A u \in Tabs \ {t} : db'[u] = db[u]
      /\ DOMAIN db'[t] = Ids(t)
      /\ db'[t][i] = row
      /\ \A j \in Ids(t) \ {i} : db'[t][j] = db[t][j]
  BY <1>1, RowsWith
<1>3. \A u \in Tabs : DOMAIN db'[u] = Ids(u)
  BY <1>2 DEF Ids
<1>4. Whole(db', Keys)
  BY <1>1, AcceptedLeavesWhole DEF TablesInv, TablesOK, Columned, Ids
<1>5. ASSUME NEW u \in Tabs
      PROVE  /\ DOMAIN db'[u] \subseteq 1 .. sequence'[u]
             /\ \A j \in DOMAIN db'[u] : DOMAIN db'[u][j] = Columns[u]
  <2>1. /\ Ids(u) \subseteq 1 .. sequence[u]
        /\ \A j \in Ids(u) : DOMAIN db[u][j] = Columns[u]
    BY DEF TablesInv, TablesOK
  <2> QED
    BY <1>1, <1>2, <1>3, <2>1 DEF Fits
<1>6. ASSUME NEW j \in DOMAIN db'["issues"], db'["issues"][j]["resolved"]
      PROVE  db'["issues"][j]["status"] = "Resolved"
  <2>1. "issues" \in Tabs
    BY DEF Tabs
  <2>2. CASE t = "issues" /\ j = i
    BY <1>2, <1>6, <2>2 DEF Fits
  <2>3. CASE ~ (t = "issues" /\ j = i)
    <3>1. j \in Ids("issues") /\ db'["issues"][j] = db["issues"][j]
      BY <1>2, <1>3, <2>1, <2>3
    <3> QED
      BY <1>6, <3>1 DEF TablesInv, TablesOK
  <2> QED
    BY <2>2, <2>3
<1>7. sequence' \in [Tabs -> 0 .. MaxRow]
  BY <1>1 DEF TablesInv, TablesOK
<1>8. TablesInv'
  BY <1>2, <1>4, <1>5, <1>6, <1>7 DEF TablesInv, TablesOK, Ids
<1> QED
  BY <1>1, <1>2, <1>3, <1>8

\* What is left after a deletion; a column that was no reference, or whose
\* reference stays, is as it was.
LEMMA Deleted ==
    ASSUME TablesInv, NEW t \in Tabs, NEW i, Delete(t, i)
    PROVE  LET D == Doomed(db, Keys, {Row(t, i)})
           IN  /\ TablesInv' /\ sequence' = sequence
               /\ \A u \in Tabs : DOMAIN db'[u] = {j \in Ids(u) : Row(u, j) \notin D}
               /\ \A u \in Tabs : \A j \in DOMAIN db'[u] :
                     db'[u][j] = [c \in Columns[u] |-> db'[u][j][c]]
               /\ \A u \in Tabs : \A j \in DOMAIN db'[u], c \in Columns[u] :
                     IF \E k \in Keys : /\ k.from = u /\ k.col = c /\ k.rule = "set_null"
                                        /\ Row(k.to, db[u][j][c]) \in D
                     THEN db'[u][j][c] = Null
                     ELSE db'[u][j][c] = db[u][j][c]
<1> DEFINE D == Doomed(db, Keys, {Row(t, i)})
<1>1. /\ ~ Refused(db, Keys, D) /\ db' = Without(db, Keys, D) /\ sequence' = sequence
  BY DEF Delete
<1>2. Columned(db)
  BY DEF TablesInv, TablesOK, Columned, Ids
<1>3. Whole(db', Keys)
  BY <1>1, <1>2, DeletionLeavesWhole DEF TablesInv
<1> HIDE DEF D
<1>4. /\ DOMAIN db' = Tabs
      /\ \A u \in Tabs :
            /\ DOMAIN db'[u] = {j \in Ids(u) : Row(u, j) \notin D}
            /\ \A j \in DOMAIN db'[u] :
                  /\ DOMAIN db'[u][j] = DOMAIN db[u][j]
                  /\ db'[u][j] = [c \in DOMAIN db[u][j] |-> db'[u][j][c]]
                  /\ \A c \in DOMAIN db[u][j] :
                        IF \E k \in Keys : /\ k.from = u /\ k.col = c /\ k.rule = "set_null"
                                           /\ Row(k.to, db[u][j][c]) \in D
                        THEN db'[u][j][c] = Null
                        ELSE db'[u][j][c] = db[u][j][c]
  BY <1>1, <1>2, WithoutRows DEF Ids, Columned
<1>5. ASSUME NEW u \in Tabs, NEW j \in DOMAIN db'[u]
      PROVE  /\ j \in Ids(u) /\ DOMAIN db[u][j] = Columns[u]
             /\ DOMAIN db'[u][j] = Columns[u]
             /\ db'[u][j] = [c \in Columns[u] |-> db'[u][j][c]]
  BY <1>2, <1>4 DEF Columned, Ids
<1>6. ASSUME NEW j \in DOMAIN db'["issues"], db'["issues"][j]["resolved"]
      PROVE  db'["issues"][j]["status"] = "Resolved"
  <2>1. "issues" \in Tabs
    BY DEF Tabs
  <2>2. "resolved" \in Columns["issues"] /\ "status" \in Columns["issues"]
    BY DEF Columns, Tabs
  <2>3. \A k \in Keys : k.rule = "set_null" => k.from # "issues"
    BY DEF Keys, PlaceKeys, CurriculumKeys, TeachingKeys, Key
  <2>4. /\ db'["issues"][j]["resolved"] = db["issues"][j]["resolved"]
        /\ db'["issues"][j]["status"] = db["issues"][j]["status"]
    BY <1>4, <1>5, <2>1, <2>2, <2>3
  <2>5. j \in Ids("issues")
    BY <1>5, <2>1
  <2> QED
    BY <1>6, <2>4, <2>5 DEF TablesInv, TablesOK
<1>7. \A u \in Tabs : DOMAIN db'[u] \subseteq 1 .. sequence'[u]
  BY <1>1, <1>5 DEF TablesInv, TablesOK
<1>8. sequence' \in [Tabs -> 0 .. MaxRow]
  BY <1>1 DEF TablesInv, TablesOK
<1>9. TablesInv'
  BY <1>3, <1>4, <1>5, <1>6, <1>7, <1>8 DEF TablesInv, TablesOK, Ids
<1>10. /\ TablesInv' /\ sequence' = sequence
       /\ \A u \in Tabs : DOMAIN db'[u] = {j \in Ids(u) : Row(u, j) \notin D}
       /\ \A u \in Tabs : \A j \in DOMAIN db'[u] :
             db'[u][j] = [c \in Columns[u] |-> db'[u][j][c]]
       /\ \A u \in Tabs : \A j \in DOMAIN db'[u], c \in Columns[u] :
             IF \E k \in Keys : /\ k.from = u /\ k.col = c /\ k.rule = "set_null"
                                /\ Row(k.to, db[u][j][c]) \in D
             THEN db'[u][j][c] = Null
             ELSE db'[u][j][c] = db[u][j][c]
  BY <1>1, <1>4, <1>5, <1>9
<1> QED
  BY <1>10 DEF D

-----------------------------------------------------------------------------
(* The screens' steps                                                      *)

\* The screens that insert, change or delete rows of these tables do nothing else.
PlainTables == Tabs \ (Teaching \cup {"subjectprograms", "staffroles", "teachers"})

PlainInsert == \E t \in PlainTables : \E row : Fits(t, row) /\ Insert(t, row)
PlainUpdate ==
    \E t \in PlainTables \ {"rooms", "roletypes"} : \E i, row : Fits(t, row) /\ Update(t, i, row)
PlainDelete == \E t \in PlainTables \cup {"staffroles"} : \E i : Delete(t, i)
EndChange == \E i, ended : SetEnd(i, ended)

PlainStep ==
    /\ PlainInsert \/ PlainUpdate \/ PlainDelete \/ EndChange
    /\ UNCHANGED <<pending, history>>

SpecialStep ==
    \/ AdminRoomUpdate \/ AdminSubjectCreate \/ AdminRoleTypeUpdate \/ AdminOrgRoleAdd
    \/ \E q \in pending :
          \/ LinkNewSubject(q) \/ LinkFails(q)
          \/ AddRole(q) \/ AddRoleFails(q)
          \/ MakeTeacher(q) \/ MakeTeacherFails(q)

\* The columns of the tables that the screens write.
LEMMA WrittenColumns ==
    /\ \A t \in {"orgs", "subjects", "periods", "roletypes"} : Columns[t] = {"code"}
    /\ Columns["locations"] = {"org", "code", "state"}
    /\ Columns["buildings"] = {"location", "code"}
    /\ Columns["rooms"] = {"building", "code"}
    /\ Columns["specs"] = {"room"}
    /\ Columns["software"] = {"room", "name"}
    /\ Columns["issues"] = {"room", "status", "resolved"}
    /\ Columns["prefs"] = {"person", "location", "rank"}
    /\ Columns["faculties"] = {"name"}
    /\ Columns["departments"] = {"name", "faculty", "deleted"}
    /\ Columns["persondepts"] = {"person", "department"}
    /\ Columns["programs"] = {"faculty", "code"}
    /\ Columns["subjectprograms"] = {"subject", "program"}
    /\ Columns["intakes"] = {"program", "period", "location", "code"}
    /\ Columns["groups"] = {"intake", "code"}
    /\ Columns["staffroles"] = {"person", "role", "ended"}
    /\ Columns["teachers"] = {"person"}
    /\ Columns["classsubjects"] = {"class", "subject"}
  BY DEF Columns, Tabs

\* Every step of a screen is plain or one of the special ones.
LEMMA StepsAreKnown ==
    ASSUME TablesInv, CampusNext
    PROVE  PlainStep \/ SpecialStep
<1> USE WrittenColumns DEF On, history, Ids
<1> DEFINE Known == PlainStep \/ SpecialStep
<1>1. CASE AdminOrgCreate
  BY <1>1 DEF AdminOrgCreate, CreateTrainingOrg, PlainStep, PlainInsert, PlainTables, Tabs, Teaching, Fits
<1>2. CASE AdminOrgUpdate
  BY <1>2 DEF AdminOrgUpdate, UpdateTrainingOrg, PlainStep, PlainUpdate, PlainTables, Tabs, Teaching, Fits
<1>3. CASE AdminOrgDelete
  BY <1>3 DEF AdminOrgDelete, DeleteTrainingOrg, PlainStep, PlainDelete, PlainTables, Tabs, Teaching, Fits
<1>4. CASE AdminLocCreate
  BY <1>4 DEF AdminLocCreate, CreateDeliveryLocation, Location, PlainStep, PlainInsert, PlainTables, Tabs, Teaching, Fits
<1>5. CASE AdminLocUpdate
  BY <1>5 DEF AdminLocUpdate, UpdateDeliveryLocation, Location, PlainStep, PlainUpdate, PlainTables, Tabs, Teaching, Fits
<1>6. CASE AdminLocDelete
  BY <1>6 DEF AdminLocDelete, DeleteDeliveryLocation, PlainStep, PlainDelete, PlainTables, Tabs, Teaching, Fits
<1>7. CASE AdminLocationCreate
  BY <1>7 DEF AdminLocationCreate, CreateDeliveryLocation, Location, PlainStep, PlainInsert, PlainTables, Tabs, Teaching, Fits
<1>8. CASE AdminBuildingCreate
  BY <1>8 DEF AdminBuildingCreate, CreateBuilding, Place, PlainStep, PlainInsert, PlainTables, Tabs, Teaching, Fits
<1>9. CASE AdminBuildingUpdate
  BY <1>9 DEF AdminBuildingUpdate, UpdateBuilding, Place, PlainStep, PlainUpdate, PlainTables, Tabs, Teaching, Fits
<1>10. CASE AdminBuildingDelete
  BY <1>10 DEF AdminBuildingDelete, DeleteBuilding, PlainStep, PlainDelete, PlainTables, Tabs, Teaching, Fits
<1>11. CASE AdminRoomCreate
  BY <1>11 DEF AdminRoomCreate, CreateRoom, Place, PlainStep, PlainInsert, PlainTables, Tabs, Teaching, Fits
<1>12. CASE AdminRoomDelete
  BY <1>12 DEF AdminRoomDelete, DeleteRoom, PlainStep, PlainDelete, PlainTables, Tabs, Teaching, Fits
<1>13. CASE AdminRoomIssueCreate
  BY <1>13 DEF AdminRoomIssueCreate, CreateRoomIssue, PlainStep, PlainInsert, PlainTables, Tabs, Teaching, Fits
<1>14. CASE AdminRoomIssueUpdate
  BY <1>14 DEF AdminRoomIssueUpdate, UpdateRoomIssue, PlainStep, PlainUpdate, PlainTables, Tabs, Teaching, Fits
<1>15. CASE AdminRoomIssueDelete
  BY <1>15 DEF AdminRoomIssueDelete, DeleteRoomIssue, PlainStep, PlainDelete, PlainTables, Tabs, Teaching, Fits
<1>16. CASE AdminRoomLabSpecsUpsert
  BY <1>16 DEF AdminRoomLabSpecsUpsert, UpsertRoomLabSpecs, PlainStep, PlainInsert, PlainUpdate, PlainTables, Tabs, Teaching, Fits
<1>17. CASE AdminRoomLabSoftwareCreate
  BY <1>17 DEF AdminRoomLabSoftwareCreate, CreateRoomLabSoftware, PlainStep, PlainInsert, PlainTables, Tabs, Teaching, Fits
<1>18. CASE AdminRoomLabSoftwareUpdate
  BY <1>18 DEF AdminRoomLabSoftwareUpdate, UpdateRoomLabSoftware, PlainStep, PlainUpdate, PlainTables, Tabs, Teaching, Fits
<1>19. CASE AdminRoomLabSoftwareDelete
  BY <1>19 DEF AdminRoomLabSoftwareDelete, DeleteRoomLabSoftware, PlainStep, PlainDelete, PlainTables, Tabs, Teaching, Fits
<1>20. CASE AdminPersonLocationPrefSave
  BY <1>20 DEF AdminPersonLocationPrefSave, UpsertPersonLocationPref, DeletePersonLocationPref, PlainStep, PlainDelete, PlainInsert, PlainUpdate, PlainTables, Tabs, Teaching, Fits
<1>21. CASE AdminPersonDeptAdd
  BY <1>21 DEF AdminPersonDeptAdd, AddPersonDepartment, PlainStep, PlainInsert, PlainTables, Tabs, Teaching, Fits
<1>22. CASE AdminPersonDeptRemove
  BY <1>22 DEF AdminPersonDeptRemove, RemovePersonDepartment, PlainStep, PlainDelete, PlainTables, Tabs, Teaching, Fits
<1>23. CASE AdminFacultyCreate
  BY <1>23 DEF AdminFacultyCreate, CreateFaculty, PlainStep, PlainInsert, PlainTables, Tabs, Teaching, Fits
<1>24. CASE AdminFacultyUpdate
  BY <1>24 DEF AdminFacultyUpdate, UpdateFaculty, PlainStep, PlainUpdate, PlainTables, Tabs, Teaching, Fits
<1>25. CASE AdminFacultyDelete
  BY <1>25 DEF AdminFacultyDelete, DeleteFaculty, PlainStep, PlainDelete, PlainTables, Tabs, Teaching, Fits
<1>26. CASE AdminDepartmentCreate
  BY <1>26 DEF AdminDepartmentCreate, CreateDepartment, Department, PlainStep, PlainInsert, PlainTables, Tabs, Teaching, Fits
<1>27. CASE AdminDepartmentUpdate
  BY <1>27 DEF AdminDepartmentUpdate, UpdateDepartment, Department, PlainStep, PlainUpdate, PlainTables, Tabs, Teaching, Fits
<1>28. CASE AdminDepartmentDelete
  <2>1. PICK i \in Ids("departments") :
            Update("departments", i, [db["departments"][i] EXCEPT !["deleted"] = TRUE])
    BY <1>28 DEF AdminDepartmentDelete, DeleteDepartment
  <2>2. "departments" \in PlainTables \ {"rooms", "roletypes"}
    BY DEF PlainTables, Tabs, Teaching
  <2>3. Fits("departments", [db["departments"][i] EXCEPT !["deleted"] = TRUE])
    BY <2>2 DEF Fits, TablesInv, TablesOK, PlainTables
  <2>4. PlainUpdate
    BY <2>1, <2>2, <2>3 DEF PlainUpdate
  <2> QED
    BY <1>28, <2>4 DEF AdminDepartmentDelete, PlainStep
<1>29. CASE AdminProgramCreate
  BY <1>29 DEF AdminProgramCreate, CreateProgram, Place, PlainStep, PlainInsert, PlainTables, Tabs, Teaching, Fits
<1>30. CASE AdminProgramUpdate
  BY <1>30 DEF AdminProgramUpdate, UpdateProgram, Place, PlainStep, PlainUpdate, PlainTables, Tabs, Teaching, Fits
<1>31. CASE AdminProgramDelete
  BY <1>31 DEF AdminProgramDelete, DeleteProgram, PlainStep, PlainDelete, PlainTables, Tabs, Teaching, Fits
<1>32. CASE AdminSubjectUpdate
  BY <1>32 DEF AdminSubjectUpdate, UpdateSubject, PlainStep, PlainUpdate, PlainTables, Tabs, Teaching, Fits
<1>33. CASE AdminSubjectDelete
  BY <1>33 DEF AdminSubjectDelete, DeleteSubject, PlainStep, PlainDelete, PlainTables, Tabs, Teaching, Fits
<1>34. CASE AdminClassToggleSubject
  BY <1>34 DEF AdminClassToggleSubject, AddClassSubject, RemoveClassSubject, PlainStep, PlainDelete, PlainInsert, PlainTables, Tabs, Teaching, Fits
<1>35. CASE AdminPeriodCreate
  BY <1>35 DEF AdminPeriodCreate, CreatePeriod, PlainStep, PlainInsert, PlainTables, Tabs, Teaching, Fits
<1>36. CASE AdminPeriodUpdate
  BY <1>36 DEF AdminPeriodUpdate, UpdatePeriod, PlainStep, PlainUpdate, PlainTables, Tabs, Teaching, Fits
<1>37. CASE AdminPeriodDelete
  BY <1>37 DEF AdminPeriodDelete, DeletePeriod, PlainStep, PlainDelete, PlainTables, Tabs, Teaching, Fits
<1>38. CASE AdminIntakeCreate
  BY <1>38 DEF AdminIntakeCreate, CreateIntake, IntakeForms, PlainStep, PlainInsert, PlainTables, Tabs, Teaching, Fits
<1>39. CASE AdminIntakeUpdate
  BY <1>39 DEF AdminIntakeUpdate, UpdateIntake, IntakeForms, PlainStep, PlainUpdate, PlainTables, Tabs, Teaching, Fits
<1>40. CASE AdminIntakeDelete
  BY <1>40 DEF AdminIntakeDelete, DeleteIntake, PlainStep, PlainDelete, PlainTables, Tabs, Teaching, Fits
<1>41. CASE AdminIntakeGroupCreate
  BY <1>41 DEF AdminIntakeGroupCreate, CreateIntakeGroup, GroupForms, PlainStep, PlainInsert, PlainTables, Tabs, Teaching, Fits
<1>42. CASE AdminIntakeGroupUpdate
  BY <1>42 DEF AdminIntakeGroupUpdate, UpdateIntakeGroup, GroupForms, PlainStep, PlainUpdate, PlainTables, Tabs, Teaching, Fits
<1>43. CASE AdminIntakeGroupDelete
  BY <1>43 DEF AdminIntakeGroupDelete, DeleteIntakeGroup, PlainStep, PlainDelete, PlainTables, Tabs, Teaching, Fits
<1>44. CASE AdminRoleTypeCreate
  BY <1>44 DEF AdminRoleTypeCreate, CreateRoleType, PlainStep, PlainInsert, PlainTables, Tabs, Teaching, Fits
<1>45. CASE AdminRoleTypeDelete
  BY <1>45 DEF AdminRoleTypeDelete, DeleteRoleType, PlainStep, PlainDelete, PlainTables, Tabs, Teaching, Fits
<1>46. CASE AdminOrgRoleUpdateEnd
  BY <1>46 DEF AdminOrgRoleUpdateEnd, UpdateStaffOrgRoleEndDate, PlainStep, EndChange, PlainTables, Tabs, Teaching, Fits
<1>47. CASE AdminOrgRoleDelete
  BY <1>47 DEF AdminOrgRoleDelete, DeleteStaffOrgRole, PlainStep, PlainDelete, PlainTables, Tabs, Teaching, Fits
<1> QED
  BY <1>1, <1>2, <1>3, <1>4, <1>5, <1>6, <1>7, <1>8, <1>9, <1>10, <1>11, <1>12, <1>13, <1>14, <1>15, <1>16, <1>17, <1>18, <1>19, <1>20, <1>21, <1>22, <1>23, <1>24, <1>25, <1>26, <1>27, <1>28, <1>29, <1>30, <1>31, <1>32, <1>33, <1>34, <1>35, <1>36, <1>37, <1>38, <1>39, <1>40, <1>41, <1>42, <1>43, <1>44, <1>45, <1>46, <1>47 DEF CampusNext, SpecialStep
-----------------------------------------------------------------------------
(* The invariant                                                           *)

\* A request between two statements: a link that is still to be made, a role
\* that is still to be added, or a role that was added to a person.
RequestOK(q) ==
    /\ q.pc \in {"link", "add", "teach"}
    /\ q.pc = "link" => q = Link(q.subject, q.program)
    /\ q.pc = "teach" =>
          /\ q.row \in 1 .. sequence["staffroles"]
          /\ q.row \in Ids("staffroles") => db["staffroles"][q.row]["person"] = q.person

RequestsOK ==
    /\ IsFiniteSet(pending) /\ Cardinality(pending) <= MaxPending
    /\ \A q \in pending : RequestOK(q)
    /\ promised \subseteq (1 .. sequence["subjects"]) \X (1 .. sequence["programs"])

\* TeachersAreMade, of the ended roles too: an end can be taken back.
MadeTeacher(i) ==
    \/ IsTeacher(db, db["staffroles"][i]["person"])
    \/ i \in lapsed
    \/ \E q \in pending : q.pc = "teach" /\ q.row = i

RolesMakeTeachers == \A i \in Ids("staffroles") : CalledTeacher(db, i) => MadeTeacher(i)

CampusInv ==
    /\ TablesInv /\ RequestsOK
    /\ SessionsKnowTheirBuilding /\ NewSubjectsAreLinked /\ RolesMakeTeachers
-----------------------------------------------------------------------------
(* What the invariant needs of a step                                      *)

\* Numbers of rows are never given twice.
NumbersGrow ==
    \A t \in Tabs : /\ sequence[t] <= sequence'[t]
                    /\ \A i \in Ids(t)' : i \in Ids(t) \/ sequence[t] < i

\* No session moves, though its place may be cleared.
SessionsKept ==
    \A s \in Ids("sessions")' :
        /\ s \in Ids("sessions")
        /\ \A c \in {"room", "building"} :
              db'["sessions"][s][c] \in {Null, db["sessions"][s][c]}

\* A room that moves is remembered.
RoomsKept ==
    /\ moved \subseteq moved'
    /\ \A r \in Ids("rooms") \cap Ids("rooms")' :
          db'["rooms"][r]["building"] = db["rooms"][r]["building"] \/ r \in moved'

\* A subject stays a subject of its program until one of them goes.
LinksKept ==
    \A i \in Ids("subjectprograms") : \A s, p :
        db["subjectprograms"][i] = [subject |-> s, program |-> p] =>
            \/ s \notin Ids("subjects")' \/ p \notin Ids("programs")'
            \/ i \in Ids("subjectprograms")' /\ db'["subjectprograms"][i] = [subject |-> s, program |-> p]

\* Roles stay with their persons, and a new one that is called Teacher has its
\* request or its reason.
RolesKept ==
    \A i \in Ids("staffroles")' :
        \/ /\ i \in Ids("staffroles")
           /\ db'["staffroles"][i]["person"] = db["staffroles"][i]["person"]
           /\ db'["staffroles"][i]["role"] = db["staffroles"][i]["role"]
        \/ /\ i \notin Ids("staffroles")
           /\ \/ ~ CalledTeacher(db', i)
              \/ i \in lapsed'
              \/ \E q \in pending' : q.pc = "teach" /\ q.row = i

\* A role type that becomes Teacher leaves a reason with the roles of its name.
NamesKept ==
    /\ lapsed \subseteq lapsed'
    /\ \A r \in Ids("roletypes") \cap Ids("roletypes")' :
          \/ db'["roletypes"][r]["code"] = db["roletypes"][r]["code"]
          \/ db'["roletypes"][r]["code"] # TeacherName
          \/ \A i \in Ids("staffroles") : db["staffroles"][i]["role"] = r => i \in lapsed'

TeachersKept ==
    \A j \in Ids("teachers") :
        j \in Ids("teachers")' /\ db'["teachers"][j]["person"] = db["teachers"][j]["person"]

\* A request to make a teacher ends with a teacher or with a reason.
TeachingRequestsKept ==
    \A q \in pending : q.pc = "teach" =>
        q \in pending' \/ q.row \in lapsed' \/ IsTeacher(db', q.person)

\* A promised link is asked for until it is made.
PromisesKept ==
    \A l \in promised' :
        \/ Link(l[1], l[2]) \in pending'
        \/ /\ l \in promised
           /\ \/ Link(l[1], l[2]) \notin pending
              \/ \E i \in Ids("subjectprograms")' :
                    db'["subjectprograms"][i] = [subject |-> l[1], program |-> l[2]]

TablesKept ==
    /\ TablesInv' /\ NumbersGrow /\ SessionsKept /\ LinksKept
    /\ TeachersKept /\ \A t \in Teaching : Ids(t) \subseteq Ids(t)'

Kept ==
    /\ TablesKept /\ RoomsKept /\ RolesKept /\ NamesKept
    /\ RequestsOK' /\ TeachingRequestsKept /\ PromisesKept

-----------------------------------------------------------------------------
(* The invariant follows                                                   *)

\* The numbers of the rows that a row names.
LEMMA References ==
    ASSUME NEW d, Columned(d), Whole(d, Keys)
    PROVE  /\ \A s \in DOMAIN d["sessions"] :
                 /\ d["sessions"][s]["room"] \in DOMAIN d["rooms"] \cup {Null}
                 /\ d["sessions"][s]["building"] \in DOMAIN d["buildings"] \cup {Null}
           /\ \A i \in DOMAIN d["staffroles"] : d["staffroles"][i]["role"] \in DOMAIN d["roletypes"]
           /\ \A i \in DOMAIN d["subjectprograms"] :
                 /\ d["subjectprograms"][i]["subject"] \in DOMAIN d["subjects"]
                 /\ d["subjectprograms"][i]["program"] \in DOMAIN d["programs"]
<1>1. ASSUME NEW t \in Tabs, NEW i \in DOMAIN d[t], NEW k \in Keys, k.from = t
      PROVE  d[t][i][k.col] \in DOMAIN d[k.to] \/ (k.optional /\ d[t][i][k.col] = Null)
  BY <1>1 DEF Columned, Whole, Refers
<1>2. /\ Key("sessions", "room", "rooms", "set_null", TRUE) \in Keys
      /\ Key("sessions", "building", "buildings", "set_null", TRUE) \in Keys
      /\ Key("staffroles", "role", "roletypes", "restrict", FALSE) \in Keys
      /\ Key("subjectprograms", "subject", "subjects", "cascade", FALSE) \in Keys
      /\ Key("subjectprograms", "program", "programs", "cascade", FALSE) \in Keys
  BY DEF Keys, PlaceKeys, CurriculumKeys
<1>3. {"sessions", "staffroles", "subjectprograms"} \subseteq Tabs
  BY DEF Tabs
<1> HIDE DEF Keys
<1>4. ASSUME NEW s \in DOMAIN d["sessions"]
      PROVE  d["sessions"][s]["room"] \in DOMAIN d["rooms"] \cup {Null}
  BY <1>1, <1>2, <1>3 DEF Key
<1>5. ASSUME NEW s \in DOMAIN d["sessions"]
      PROVE  d["sessions"][s]["building"] \in DOMAIN d["buildings"] \cup {Null}
  BY <1>1, <1>2, <1>3 DEF Key
<1>6. ASSUME NEW i \in DOMAIN d["staffroles"]
      PROVE  d["staffroles"][i]["role"] \in DOMAIN d["roletypes"]
  BY <1>1, <1>2, <1>3 DEF Key
<1>7. ASSUME NEW i \in DOMAIN d["subjectprograms"]
      PROVE  d["subjectprograms"][i]["subject"] \in DOMAIN d["subjects"]
  BY <1>1, <1>2, <1>3 DEF Key
<1>8. ASSUME NEW i \in DOMAIN d["subjectprograms"]
      PROVE  d["subjectprograms"][i]["program"] \in DOMAIN d["programs"]
  BY <1>1, <1>2, <1>3 DEF Key
<1> QED
  BY <1>4, <1>5, <1>6, <1>7, <1>8

\* Sessions and rooms that stay where they are stay in their buildings.
LEMMA KeptSessions ==
    ASSUME TablesInv, SessionsKnowTheirBuilding, TablesInv', NumbersGrow, SessionsKept, RoomsKept
    PROVE  SessionsKnowTheirBuilding'
<1> SUFFICES ASSUME NEW s \in Ids("sessions")', Astray(db', s)
             PROVE  db'["sessions"][s]["room"] \in moved'
  BY DEF SessionsKnowTheirBuilding
<1> DEFINE r == db'["sessions"][s]["room"]
           b == db'["sessions"][s]["building"]
<1>1. r # Null /\ b # Null /\ b # db'["rooms"][r]["building"]
  BY DEF Astray, RoomsBuilding
<1>2. /\ s \in Ids("sessions")
      /\ r = db["sessions"][s]["room"] /\ b = db["sessions"][s]["building"]
  BY <1>1 DEF SessionsKept
<1>3. r \in Ids("rooms") /\ r \in Ids("rooms")'
  <2>1. r \in Ids("rooms") \cup {Null}
    BY <1>2, References DEF TablesInv, TablesOK, Columned, Ids
  <2>2. r \in Ids("rooms")' \cup {Null}
    BY References DEF TablesInv, TablesOK, Columned, Ids
  <2> QED
    BY <1>1, <2>1, <2>2
<1>4. CASE db'["rooms"][r]["building"] = db["rooms"][r]["building"]
  <2>1. Astray(db, s)
    BY <1>1, <1>2, <1>4 DEF Astray, RoomsBuilding
  <2> QED
    BY <1>2, <2>1 DEF SessionsKnowTheirBuilding, RoomsKept
<1>5. CASE r \in moved'
  BY <1>5
<1> QED
  BY <1>3, <1>4, <1>5 DEF RoomsKept

\* Links that stay, and promises that are carried on, keep subjects linked.
LEMMA KeptLinks ==
    ASSUME TablesInv, RequestsOK, NewSubjectsAreLinked, NumbersGrow, LinksKept, PromisesKept
    PROVE  NewSubjectsAreLinked'
<1> SUFFICES ASSUME NEW l \in promised', l[1] \in Ids("subjects")', l[2] \in Ids("programs")',
                    Link(l[1], l[2]) \notin pending'
             PROVE  \E i \in Ids("subjectprograms")' :
                        db'["subjectprograms"][i] = [subject |-> l[1], program |-> l[2]]
  BY DEF NewSubjectsAreLinked, Link
<1>1. SUFFICES ASSUME l \in promised, Link(l[1], l[2]) \notin pending
               PROVE  \E i \in Ids("subjectprograms")' :
                          db'["subjectprograms"][i] = [subject |-> l[1], program |-> l[2]]
  BY DEF PromisesKept
<1>2. l[1] \in Ids("subjects") /\ l[2] \in Ids("programs")
  <2>1. l[1] \in 1 .. sequence["subjects"] /\ l[2] \in 1 .. sequence["programs"]
    BY <1>1 DEF RequestsOK
  <2>2. "subjects" \in Tabs /\ "programs" \in Tabs
    BY DEF Tabs
  <2>3. sequence["subjects"] \in Nat /\ sequence["programs"] \in Nat
    BY <2>2, NewIdIsNew
  <2>4. /\ l[1] \in Ids("subjects") \/ sequence["subjects"] < l[1]
        /\ l[2] \in Ids("programs") \/ sequence["programs"] < l[2]
    BY <2>2 DEF NumbersGrow
  <2> QED
    BY <2>1, <2>3, <2>4
<1>3. PICK i \in Ids("subjectprograms") : db["subjectprograms"][i] = [subject |-> l[1], program |-> l[2]]
  BY <1>1, <1>2 DEF NewSubjectsAreLinked
<1> QED
  BY <1>3 DEF LinksKept

\* Teachers who stay, and requests that are carried on, keep roles taught.
LEMMA KeptRoles ==
    ASSUME TablesInv, RequestsOK, RolesMakeTeachers, TablesInv', NumbersGrow,
           RolesKept, NamesKept, TeachersKept, TeachingRequestsKept
    PROVE  RolesMakeTeachers'
<1>1. ASSUME NEW p, IsTeacher(db, p) PROVE IsTeacher(db', p)
  BY <1>1 DEF IsTeacher, TeachersKept, Ids
<1> SUFFICES ASSUME NEW i \in Ids("staffroles")', CalledTeacher(db', i)
             PROVE  MadeTeacher(i)'
  BY DEF RolesMakeTeachers
<1>2. CASE /\ i \notin Ids("staffroles")
           /\ \/ ~ CalledTeacher(db', i)
              \/ i \in lapsed'
              \/ \E q \in pending' : q.pc = "teach" /\ q.row = i
  BY <1>2 DEF MadeTeacher
<1>3. CASE /\ i \in Ids("staffroles")
           /\ db'["staffroles"][i]["person"] = db["staffroles"][i]["person"]
           /\ db'["staffroles"][i]["role"] = db["staffroles"][i]["role"]
  <2> DEFINE r == db["staffroles"][i]["role"]
             p == db["staffroles"][i]["person"]
  <2>1. r \in Ids("roletypes")
    BY <1>3, References DEF TablesInv, TablesOK, Columned, Ids
  <2>2. r \in Ids("roletypes")'
    BY <1>3, References DEF TablesInv, TablesOK, Columned, Ids
  <2>3. db'["roletypes"][r]["code"] = TeacherName
    BY <1>3 DEF CalledTeacher
  <2>4. CASE db["roletypes"][r]["code"] = TeacherName
    <3>1. MadeTeacher(i)
      BY <1>3, <2>4 DEF RolesMakeTeachers, CalledTeacher
    <3>2. CASE IsTeacher(db, p)
      BY <1>1, <1>3, <3>2 DEF MadeTeacher
    <3>3. CASE i \in lapsed
      BY <3>3 DEF MadeTeacher, NamesKept
    <3>4. CASE \E q \in pending : q.pc = "teach" /\ q.row = i
      <4>1. PICK q \in pending : q.pc = "teach" /\ q.row = i
        BY <3>4
      <4>2. q.person = p
        BY <1>3, <4>1 DEF RequestsOK, RequestOK
      <4>3. q \in pending' \/ i \in lapsed' \/ IsTeacher(db', p)
        BY <4>1, <4>2 DEF TeachingRequestsKept
      <4> QED
        BY <1>3, <4>1, <4>3 DEF MadeTeacher
    <3> QED
      BY <3>1, <3>2, <3>3, <3>4 DEF MadeTeacher
  <2>5. CASE db["roletypes"][r]["code"] # TeacherName
    BY <1>3, <2>1, <2>2, <2>3, <2>5 DEF NamesKept, MadeTeacher
  <2> QED
    BY <2>4, <2>5
<1> QED
  BY <1>2, <1>3 DEF RolesKept

\* The invariant survives whatever keeps its parts.
LEMMA KeptIsEnough ==
    ASSUME CampusInv, Kept PROVE CampusInv'
<1>1. TablesInv' /\ RequestsOK'
  BY DEF Kept, TablesKept
<1>2. SessionsKnowTheirBuilding'
  BY KeptSessions DEF CampusInv, Kept, TablesKept
<1>3. NewSubjectsAreLinked'
  BY KeptLinks DEF CampusInv, Kept, TablesKept
<1>4. RolesMakeTeachers'
  BY KeptRoles DEF CampusInv, Kept, TablesKept
<1> QED
  BY <1>1, <1>2, <1>3, <1>4 DEF CampusInv
-----------------------------------------------------------------------------
(* Statements keep what the invariant needs                                *)

\* The tables that properties look at, and the columns of them.
LEMMA WatchedTables ==
    /\ {"sessions", "rooms", "subjects", "programs", "subjectprograms", "staffroles",
        "roletypes", "teachers"} \subseteq Tabs
    /\ Teaching \subseteq Tabs
    /\ "room" \in Columns["sessions"] /\ "building" \in Columns["sessions"]
    /\ "building" \in Columns["rooms"] /\ "code" \in Columns["roletypes"]
    /\ "subject" \in Columns["subjectprograms"] /\ "program" \in Columns["subjectprograms"]
    /\ "person" \in Columns["staffroles"] /\ "role" \in Columns["staffroles"]
    /\ "person" \in Columns["teachers"]
  BY DEF Tabs, Teaching, Columns

\* The roles that stay keep their persons and their types.
PersonsKept ==
    \A i \in Ids("staffroles") \cap Ids("staffroles")' :
        /\ db'["staffroles"][i]["person"] = db["staffroles"][i]["person"]
        /\ db'["staffroles"][i]["role"] = db["staffroles"][i]["role"]

\* The rooms and the role types that stay, as they were.
BuildingsKept ==
    \A r \in Ids("rooms") \cap Ids("rooms")' :
        db'["rooms"][r]["building"] = db["rooms"][r]["building"]
CodesKept ==
    \A r \in Ids("roletypes") \cap Ids("roletypes")' :
        db'["roletypes"][r]["code"] = db["roletypes"][r]["code"]

\* A request stays a request, whatever statement of another one comes between.
LEMMA OldRequests ==
    ASSUME TablesInv, RequestsOK, TablesInv', NumbersGrow, PersonsKept
    PROVE  /\ \A q \in pending : RequestOK(q)'
           /\ promised \subseteq (1 .. sequence'["subjects"]) \X (1 .. sequence'["programs"])
<1>1. /\ sequence["staffroles"] \in Nat /\ sequence["subjects"] \in Nat /\ sequence["programs"] \in Nat
      /\ sequence \in [Tabs -> 0 .. MaxRow] /\ sequence' \in [Tabs -> 0 .. MaxRow] /\ MaxRow \in Nat
  BY WatchedTables, NewIdIsNew, CampusAssumption DEF TablesInv, TablesOK
<1>2. /\ sequence["staffroles"] <= sequence'["staffroles"]
      /\ sequence["subjects"] <= sequence'["subjects"]
      /\ sequence["programs"] <= sequence'["programs"]
      /\ \A i \in Ids("staffroles")' : i \in Ids("staffroles") \/ sequence["staffroles"] < i
  BY WatchedTables DEF NumbersGrow
<1>3. sequence'["staffroles"] \in Nat /\ sequence'["subjects"] \in Nat /\ sequence'["programs"] \in Nat
  BY <1>1, WatchedTables
<1>4. ASSUME NEW q \in pending PROVE RequestOK(q)'
  <2>1. RequestOK(q)
    BY DEF RequestsOK
  <2>2. q.pc = "teach" => q.row \in 1 .. sequence'["staffroles"]
    BY <1>1, <1>2, <1>3, <2>1 DEF RequestOK
  <2>3. q.pc = "teach" /\ q.row \in Ids("staffroles")' =>
            db'["staffroles"][q.row]["person"] = q.person
    BY <1>1, <1>2, <2>1 DEF RequestOK, PersonsKept
  <2> QED
    BY <2>1, <2>2, <2>3 DEF RequestOK, Link
<1>5. promised \subseteq (1 .. sequence'["subjects"]) \X (1 .. sequence'["programs"])
  <2>1. /\ 1 .. sequence["subjects"] \subseteq 1 .. sequence'["subjects"]
        /\ 1 .. sequence["programs"] \subseteq 1 .. sequence'["programs"]
    BY <1>1, <1>2, <1>3
  <2> QED
    BY <2>1 DEF RequestsOK
<1> QED
  BY <1>4, <1>5

\* A new row takes nothing from the others.
LEMMA InsertKeeps ==
    ASSUME TablesInv, NEW t \in Tabs \ {"sessions"}, NEW row, Insert(t, row), Fits(t, row)
    PROVE  TablesKept /\ BuildingsKept /\ CodesKept /\ PersonsKept
<1>1. /\ TablesInv'
      /\ \A u \in Tabs \ {t} : db'[u] = db[u] /\ sequence'[u] = sequence[u]
      /\ sequence'[t] = NewId(t)
      /\ Ids(t)' = Ids(t) \cup {NewId(t)}
      /\ \A j \in Ids(t) : db'[t][j] = db[t][j]
  BY Inserted DEF Ids
<1>2. \A u \in Tabs : \A j \in Ids(u) : j \in Ids(u)' /\ db'[u][j] = db[u][j]
  BY <1>1 DEF Ids
<1>3. NumbersGrow
  <2> SUFFICES ASSUME NEW u \in Tabs
               PROVE  /\ sequence[u] <= sequence'[u]
                      /\ \A i \in Ids(u)' : i \in Ids(u) \/ sequence[u] < i
    BY DEF NumbersGrow
  <2>1. sequence[u] \in Nat
    BY NewIdIsNew
  <2>2. CASE u = t
    BY <1>1, <2>1, <2>2 DEF NewId
  <2>3. CASE u # t
    BY <1>1, <2>1, <2>3 DEF Ids
  <2> QED
    BY <2>2, <2>3
<1>4. db'["sessions"] = db["sessions"]
  BY <1>1, WatchedTables
<1>5. SessionsKept
  BY <1>4 DEF SessionsKept, Ids
<1>6. LinksKept
  BY <1>2, WatchedTables DEF LinksKept
<1>7. TeachersKept /\ BuildingsKept /\ CodesKept /\ PersonsKept
  BY <1>2, WatchedTables DEF TeachersKept, BuildingsKept, CodesKept, PersonsKept
<1>8. \A u \in Teaching : Ids(u) \subseteq Ids(u)'
  BY <1>2, WatchedTables
<1> QED
  BY <1>1, <1>3, <1>5, <1>6, <1>7, <1>8 DEF TablesKept

\* Nor does another row in the place of one.
LEMMA UpdateKeeps ==
    ASSUME TablesInv, NEW t \in Tabs \ {"sessions", "subjectprograms", "teachers"}, NEW i, NEW row,
           Update(t, i, row), Fits(t, row)
    PROVE  /\ TablesKept
           /\ t # "rooms" => BuildingsKept
           /\ t # "roletypes" => CodesKept
           /\ t # "staffroles" => PersonsKept
<1>1. /\ TablesInv' /\ sequence' = sequence
      /\ \A u \in Tabs : Ids(u)' = Ids(u)
      /\ \A u \in Tabs \ {t} : db'[u] = db[u]
  BY Updated DEF Ids
<1>2. NumbersGrow
  <2> SUFFICES ASSUME NEW u \in Tabs
               PROVE  /\ sequence[u] <= sequence'[u]
                      /\ \A j \in Ids(u)' : j \in Ids(u) \/ sequence[u] < j
    BY DEF NumbersGrow
  <2>1. sequence[u] \in Nat
    BY NewIdIsNew
  <2> QED
    BY <1>1, <2>1
<1>3. /\ db'["sessions"] = db["sessions"] /\ db'["subjectprograms"] = db["subjectprograms"]
      /\ db'["teachers"] = db["teachers"]
  BY <1>1, WatchedTables
<1>4. SessionsKept /\ LinksKept /\ TeachersKept
  BY <1>1, <1>3, WatchedTables DEF SessionsKept, LinksKept, TeachersKept, Ids
<1>5. \A u \in Teaching : Ids(u) \subseteq Ids(u)'
  BY <1>1, WatchedTables
<1>6. /\ t # "rooms" => BuildingsKept
      /\ t # "roletypes" => CodesKept
      /\ t # "staffroles" => PersonsKept
  BY <1>1, WatchedTables DEF BuildingsKept, CodesKept, PersonsKept
<1> QED
  BY <1>1, <1>2, <1>4, <1>5, <1>6 DEF TablesKept

\* References are cleared only in these tables.
LEMMA ClearedTables ==
    \A k \in Keys : k.rule = "set_null" =>
        k.from \in {"sessions", "departments", "classes", "enrolments"}
  BY DEF Keys, PlaceKeys, CurriculumKeys, TeachingKeys, Key

\* A link goes only with its subject or its program.
LEMMA LinkCascades ==
    \A k \in Keys : k.from = "subjectprograms" =>
        \/ k.to = "subjects" /\ k.col = "subject"
        \/ k.to = "programs" /\ k.col = "program"
  BY DEF Keys, PlaceKeys, CurriculumKeys, TeachingKeys, Key

\* No cascade ends in teachers.
LEMMA NoCascadeToTeachers == \A k \in Keys : k.from # "teachers"
  BY DEF Keys, PlaceKeys, CurriculumKeys, TeachingKeys, Key

\* A deletion clears the places of sessions and takes links with their
\* subjects and programs; the rest that matters stays.
LEMMA DeleteKeeps ==
    ASSUME TablesInv, NEW t \in Tabs \ (Teaching \cup {"teachers", "subjectprograms"}), NEW i,
           Delete(t, i)
    PROVE  TablesKept /\ BuildingsKept /\ CodesKept /\ PersonsKept
<1> DEFINE D == Doomed(db, Keys, {Row(t, i)})
<1>1. /\ TablesInv' /\ sequence' = sequence
      /\ \A u \in Tabs : Ids(u)' = {j \in Ids(u) : Row(u, j) \notin D}
      /\ \A u \in Tabs : \A j \in Ids(u)' :
            db'[u][j] = [c \in Columns[u] |-> db'[u][j][c]]
      /\ \A u \in Tabs : \A j \in Ids(u)', c \in Columns[u] :
            IF \E k \in Keys : /\ k.from = u /\ k.col = c /\ k.rule = "set_null"
                               /\ Row(k.to, db[u][j][c]) \in D
            THEN db'[u][j][c] = Null
            ELSE db'[u][j][c] = db[u][j][c]
  BY Deleted DEF Ids
<1>2. \A r \in D : r[1] \in Tabs \ Teaching
  <2>1. Sealed(Tabs \ Teaching)
    BY NoCascadeIntoTeaching, KeysAreTyped DEF Sealed
  <2> QED
    BY <2>1, DoomedStays
<1>3. \A r \in D : r[1] \in Tabs \ {"teachers"}
  <2>1. Sealed(Tabs \ {"teachers"})
    BY NoCascadeToTeachers, KeysAreTyped DEF Sealed
  <2> QED
    BY <2>1, DoomedStays
<1>4. \A r \in D : \/ r = Row(t, i)
                   \/ \E k \in Keys : \E j \in DOMAIN db[k.from] :
                         /\ k.rule = "cascade" /\ r = Row(k.from, j)
                         /\ Row(k.to, db[k.from][j][k.col]) \in D
  BY WhyDoomed
<1> HIDE DEF D
<1>5. NumbersGrow
  <2> SUFFICES ASSUME NEW u \in Tabs
               PROVE  /\ sequence[u] <= sequence'[u]
                      /\ \A j \in Ids(u)' : j \in Ids(u) \/ sequence[u] < j
    BY DEF NumbersGrow
  <2>1. sequence[u] \in Nat
    BY NewIdIsNew
  <2> QED
    BY <1>1, <2>1
<1>6. SessionsKept
  <2> SUFFICES ASSUME NEW s \in Ids("sessions")', NEW c \in {"room", "building"}
               PROVE  s \in Ids("sessions") /\ db'["sessions"][s][c] \in {Null, db["sessions"][s][c]}
    BY DEF SessionsKept
  <2> QED
    BY <1>1, WatchedTables
<1>7. \A u \in Tabs \ {"sessions", "departments", "classes", "enrolments"} :
          \A j \in Ids(u)', c \in Columns[u] : db'[u][j][c] = db[u][j][c]
  BY <1>1, ClearedTables
<1>8. BuildingsKept /\ CodesKept /\ PersonsKept
  BY <1>7, WatchedTables DEF BuildingsKept, CodesKept, PersonsKept
<1>9. TeachersKept
  <2> SUFFICES ASSUME NEW j \in Ids("teachers")
               PROVE  j \in Ids("teachers")' /\ db'["teachers"][j]["person"] = db["teachers"][j]["person"]
    BY DEF TeachersKept
  <2>1. Row("teachers", j) \notin D
    BY <1>3, RowTable
  <2>2. j \in Ids("teachers")'
    BY <1>1, <2>1, WatchedTables
  <2> QED
    BY <1>7, <2>2, WatchedTables
<1>10. \A u \in Teaching : Ids(u) \subseteq Ids(u)'
  BY <1>1, <1>2, RowTable, WatchedTables
<1>11. LinksKept
  <2> SUFFICES ASSUME NEW j \in Ids("subjectprograms"), NEW s, NEW p,
                      db["subjectprograms"][j] = [subject |-> s, program |-> p],
                      s \in Ids("subjects")', p \in Ids("programs")'
               PROVE  /\ j \in Ids("subjectprograms")'
                      /\ db'["subjectprograms"][j] = [subject |-> s, program |-> p]
    BY DEF LinksKept
  <2>1. Row("subjectprograms", j) \notin D
    <3> SUFFICES ASSUME Row("subjectprograms", j) \in D PROVE FALSE
      OBVIOUS
    <3>1. Row("subjectprograms", j) # Row(t, i)
      BY RowTable
    <3>2. PICK k \in Keys : \E l \in DOMAIN db[k.from] :
              /\ Row("subjectprograms", j) = Row(k.from, l)
              /\ Row(k.to, db[k.from][l][k.col]) \in D
      BY <1>4, <3>1
    <3>3. k.from = "subjectprograms" /\ Row(k.to, db["subjectprograms"][j][k.col]) \in D
      BY <3>2 DEF Row
    <3>4. Row("subjects", s) \in D \/ Row("programs", p) \in D
      BY <3>3, LinkCascades
    <3> QED
      BY <1>1, <3>4, WatchedTables
  <2>2. j \in Ids("subjectprograms")'
    BY <1>1, <2>1, WatchedTables
  <2>3. Columns["subjectprograms"] = {"subject", "program"}
    BY WrittenColumns
  <2>4. /\ db'["subjectprograms"][j]["subject"] = s
        /\ db'["subjectprograms"][j]["program"] = p
    BY <1>7, <2>2, WatchedTables
  <2>5. db'["subjectprograms"][j] =
            [c \in Columns["subjectprograms"] |-> db'["subjectprograms"][j][c]]
    BY <1>1, <2>2, WatchedTables
  <2> QED
    BY <2>2, <2>3, <2>4, <2>5
<1> QED
  BY <1>1, <1>5, <1>6, <1>8, <1>9, <1>10, <1>11 DEF TablesKept
-----------------------------------------------------------------------------
(* Steps                                                                   *)

\* The requests are as many as before, or one less, or one more while there
\* is room for it.
LEMMA CountRequests ==
    ASSUME RequestsOK, NEW q \in pending, NEW r
    PROVE  /\ IsFiniteSet(pending \ {q}) /\ Cardinality(pending \ {q}) <= MaxPending
           /\ IsFiniteSet((pending \ {q}) \cup {r}) /\ Cardinality((pending \ {q}) \cup {r}) <= MaxPending
<1>1. IsFiniteSet(pending) /\ Cardinality(pending) <= MaxPending /\ MaxPending \in Nat
  BY CampusAssumption DEF RequestsOK
<1>2. IsFiniteSet(pending \ {q}) /\ Cardinality(pending \ {q}) = Cardinality(pending) - 1
  BY <1>1, FS_RemoveElement
<1>3. Cardinality(pending) \in Nat
  BY <1>1, FS_CardinalityType
<1>4. /\ IsFiniteSet((pending \ {q}) \cup {r})
      /\ \/ Cardinality((pending \ {q}) \cup {r}) = Cardinality(pending \ {q})
         \/ Cardinality((pending \ {q}) \cup {r}) = Cardinality(pending \ {q}) + 1
  BY <1>2, FS_AddElement
<1> QED
  BY <1>1, <1>2, <1>3, <1>4

\* A request more is within the bound while there was room for one.
LEMMA CountNewRequest ==
    ASSUME RequestsOK, Cardinality(pending) < MaxPending, NEW r
    PROVE  IsFiniteSet(pending \cup {r}) /\ Cardinality(pending \cup {r}) <= MaxPending
<1>1. IsFiniteSet(pending) /\ MaxPending \in Nat /\ Cardinality(pending) \in Nat
  BY CampusAssumption, FS_CardinalityType DEF RequestsOK
<1>2. /\ IsFiniteSet(pending \cup {r})
      /\ \/ Cardinality(pending \cup {r}) = Cardinality(pending)
         \/ Cardinality(pending \cup {r}) = Cardinality(pending) + 1
  BY <1>1, FS_AddElement
<1> QED
  BY <1>1, <1>2

\* Tables that are left alone.
LEMMA SameTables ==
    ASSUME TablesInv, UNCHANGED <<db, sequence>>
    PROVE  /\ TablesKept /\ BuildingsKept /\ CodesKept /\ PersonsKept
           /\ Ids("staffroles")' \subseteq Ids("staffroles")
<1>1. TablesInv'
  BY DEF TablesInv, TablesOK, Ids
<1>2. NumbersGrow
  <2> SUFFICES ASSUME NEW t \in Tabs PROVE sequence[t] <= sequence'[t]
    BY DEF NumbersGrow, Ids
  <2> QED
    BY NewIdIsNew
<1>3. SessionsKept /\ LinksKept /\ TeachersKept
  BY DEF SessionsKept, LinksKept, TeachersKept, Ids
<1> QED
  BY <1>1, <1>2, <1>3 DEF TablesKept, BuildingsKept, CodesKept, PersonsKept, Ids

\* A statement on tables that no part of the invariant reads keeps them all.
LEMMA KeptByPlainStep ==
    ASSUME CampusInv, PlainStep
    PROVE  Kept
<1> USE DEF history
<1>1. TablesInv /\ RequestsOK /\ UNCHANGED <<pending, moved, promised, lapsed>>
  BY DEF CampusInv, PlainStep
<1>2. /\ TablesKept /\ BuildingsKept /\ CodesKept /\ PersonsKept
      /\ Ids("staffroles")' \subseteq Ids("staffroles")
  <2>1. CASE PlainInsert
    <3>1. PICK t \in PlainTables : \E row : Fits(t, row) /\ Insert(t, row)
      BY <2>1 DEF PlainInsert
    <3>2. PICK row : Fits(t, row) /\ Insert(t, row)
      BY <3>1
    <3>3. t \in Tabs \ {"sessions"} /\ t # "staffroles"
      BY <3>1 DEF PlainTables, Teaching
    <3>4. Ids("staffroles")' = Ids("staffroles")
      BY <1>1, <3>2, <3>3, Inserted, WatchedTables DEF Ids
    <3> QED
      BY <1>1, <3>2, <3>3, <3>4, InsertKeeps
  <2>2. CASE PlainUpdate
    <3>1. PICK t \in PlainTables \ {"rooms", "roletypes"} : \E i, row : Fits(t, row) /\ Update(t, i, row)
      BY <2>2 DEF PlainUpdate
    <3>2. PICK i, row : Fits(t, row) /\ Update(t, i, row)
      BY <3>1
    <3>3. /\ t \in Tabs \ {"sessions", "subjectprograms", "teachers"}
          /\ t \notin {"rooms", "roletypes", "staffroles"}
      BY <3>1 DEF PlainTables, Teaching
    <3>4. Ids("staffroles")' = Ids("staffroles")
      BY <1>1, <3>2, <3>3, Updated, WatchedTables DEF Ids
    <3> QED
      BY <1>1, <3>2, <3>3, <3>4, UpdateKeeps
  <2>3. CASE PlainDelete
    <3>1. PICK t \in PlainTables \cup {"staffroles"} : \E i : Delete(t, i)
      BY <2>3 DEF PlainDelete
    <3>2. PICK i : Delete(t, i)
      BY <3>1
    <3>3. t \in Tabs \ (Teaching \cup {"teachers", "subjectprograms"})
      BY <3>1, WatchedTables DEF PlainTables, Teaching
    <3>4. Ids("staffroles")' \subseteq Ids("staffroles")
      BY <1>1, <3>2, <3>3, Deleted, WatchedTables DEF Ids
    <3> QED
      BY <1>1, <3>2, <3>3, <3>4, DeleteKeeps
  <2>4. CASE EndChange
    <3>1. PICK i, ended : SetEnd(i, ended)
      BY <2>4 DEF EndChange
    <3> DEFINE row == [db["staffroles"][i] EXCEPT !["ended"] = ended]
    <3>2. Update("staffroles", i, row) /\ i \in Ids("staffroles")
      BY <3>1 DEF SetEnd, Update
    <3>3. /\ DOMAIN row = Columns["staffroles"]
          /\ row["person"] = db["staffroles"][i]["person"]
          /\ row["role"] = db["staffroles"][i]["role"]
      <4>1. DOMAIN db["staffroles"][i] = Columns["staffroles"]
        BY <1>1, <3>2, WatchedTables DEF TablesInv, TablesOK
      <4> QED
        BY <4>1, WatchedTables
    <3> HIDE DEF row
    <3>4. Fits("staffroles", row)
      BY <3>3 DEF Fits
    <3>5. /\ Ids("staffroles")' = Ids("staffroles")
          /\ db'["staffroles"][i] = row
          /\ \A j \in Ids("staffroles") \ {i} : db'["staffroles"][j] = db["staffroles"][j]
      BY <1>1, <3>2, <3>4, Updated, WatchedTables DEF Ids
    <3>6. PersonsKept
      BY <3>3, <3>5 DEF PersonsKept
    <3>7. "staffroles" \in Tabs \ {"sessions", "subjectprograms", "teachers"}
      BY WatchedTables
    <3> QED
      BY <1>1, <3>2, <3>4, <3>5, <3>6, <3>7, UpdateKeeps
  <2> QED
    BY <2>1, <2>2, <2>3, <2>4 DEF PlainStep
<1>3. RoomsKept /\ RolesKept /\ NamesKept
  BY <1>1, <1>2 DEF RoomsKept, RolesKept, NamesKept, BuildingsKept, PersonsKept, CodesKept
<1>4. RequestsOK'
  <2>1. /\ \A q \in pending : RequestOK(q)'
        /\ promised \subseteq (1 .. sequence'["subjects"]) \X (1 .. sequence'["programs"])
    BY <1>1, <1>2, OldRequests DEF TablesKept
  <2> QED
    BY <1>1, <2>1 DEF RequestsOK
<1>5. TeachingRequestsKept /\ PromisesKept
  BY <1>1 DEF TeachingRequestsKept, PromisesKept
<1> QED
  BY <1>2, <1>3, <1>4, <1>5 DEF Kept
\* What a step has to say of the requests, when it says what it adds.
LEMMA NewRequests ==
    ASSUME TablesInv, RequestsOK, TablesInv', NumbersGrow, PersonsKept,
           IsFiniteSet(pending'), Cardinality(pending') <= MaxPending,
           \A q \in pending' : q \in pending \/ RequestOK(q)',
           promised' \subseteq promised \cup
               ((1 .. sequence'["subjects"]) \X (1 .. sequence'["programs"]))
    PROVE  RequestsOK'
<1>1. /\ \A q \in pending : RequestOK(q)'
      /\ promised \subseteq (1 .. sequence'["subjects"]) \X (1 .. sequence'["programs"])
  BY OldRequests
<1>2. \A q \in pending' : RequestOK(q)'
  BY <1>1
<1>3. promised' \subseteq (1 .. sequence'["subjects"]) \X (1 .. sequence'["programs"])
  BY <1>1
<1> QED
  BY <1>2, <1>3 DEF RequestsOK

\* A room moves: it is remembered, if its building is another one.
LEMMA KeptByRoomUpdate == ASSUME CampusInv, AdminRoomUpdate PROVE Kept
<1>1. TablesInv /\ RequestsOK /\ UNCHANGED <<pending, promised, lapsed>>
  BY DEF CampusInv, AdminRoomUpdate
<1>2. PICK i \in Ids("rooms"), b \in Ids("buildings"), code \in Labels :
          /\ Update("rooms", i, Place("building", b, code))
          /\ moved' = IF b = db["rooms"][i]["building"] THEN moved ELSE moved \cup {i}
  BY DEF AdminRoomUpdate, UpdateRoom
<1> DEFINE row == Place("building", b, code)
<1>3. Fits("rooms", row) /\ row["building"] = b
  BY WrittenColumns DEF Fits, Place
<1> HIDE DEF row
<1>4. "rooms" \in Tabs \ {"sessions", "subjectprograms", "teachers"}
  BY WatchedTables
<1>5. TablesKept /\ CodesKept /\ PersonsKept
  BY <1>1, <1>2, <1>3, <1>4, UpdateKeeps DEF row
<1>6. /\ \A u \in Tabs : Ids(u)' = Ids(u)
      /\ db'["rooms"][i] = row
      /\ \A j \in Ids("rooms") \ {i} : db'["rooms"][j] = db["rooms"][j]
  BY <1>1, <1>2, <1>3, <1>4, Updated DEF Ids, row
<1>7. RoomsKept
  BY <1>2, <1>3, <1>6 DEF RoomsKept
<1>8. RolesKept /\ NamesKept
  BY <1>1, <1>5, <1>6, WatchedTables DEF RolesKept, NamesKept, PersonsKept, CodesKept
<1>9. RequestsOK'
  BY <1>1, <1>5, NewRequests DEF TablesKept, RequestsOK
<1>10. TeachingRequestsKept /\ PromisesKept
  BY <1>1 DEF TeachingRequestsKept, PromisesKept
<1> QED
  BY <1>5, <1>7, <1>8, <1>9, <1>10 DEF Kept

\* A role type is renamed: the roles that become Teacher's have their reason.
LEMMA KeptByRoleTypeUpdate == ASSUME CampusInv, AdminRoleTypeUpdate PROVE Kept
<1>1. TablesInv /\ RequestsOK /\ UNCHANGED <<pending, moved, promised>>
  BY DEF CampusInv, AdminRoleTypeUpdate
<1>2. PICK i \in Ids("roletypes"), name \in Labels :
          /\ Update("roletypes", i, [code |-> name])
          /\ LET renamed == name = TeacherName /\ db["roletypes"][i]["code"] # name
             IN  lapsed' = lapsed \cup
                     {j \in Ids("staffroles") : renamed /\ db["staffroles"][j]["role"] = i}
  BY DEF AdminRoleTypeUpdate, UpdateRoleType
<1>3. Fits("roletypes", [code |-> name])
  BY WrittenColumns DEF Fits
<1>4. "roletypes" \in Tabs \ {"sessions", "subjectprograms", "teachers"}
  BY WatchedTables
<1>5. TablesKept /\ BuildingsKept /\ PersonsKept
  BY <1>1, <1>2, <1>3, <1>4, UpdateKeeps
<1>6. /\ \A u \in Tabs : Ids(u)' = Ids(u)
      /\ db'["roletypes"][i] = [code |-> name]
      /\ \A j \in Ids("roletypes") \ {i} : db'["roletypes"][j] = db["roletypes"][j]
  BY <1>1, <1>2, <1>3, <1>4, Updated DEF Ids
<1>7. RoomsKept /\ RolesKept
  BY <1>1, <1>5, <1>6, WatchedTables DEF RoomsKept, RolesKept, BuildingsKept, PersonsKept
<1>8. NamesKept
  <2>1. lapsed \subseteq lapsed'
    BY <1>2
  <2>2. ASSUME NEW r \in Ids("roletypes"), r # i
        PROVE  db'["roletypes"][r]["code"] = db["roletypes"][r]["code"]
    BY <1>6, <2>2
  <2>3. \/ db'["roletypes"][i]["code"] = db["roletypes"][i]["code"]
        \/ db'["roletypes"][i]["code"] # TeacherName
        \/ \A j \in Ids("staffroles") : db["staffroles"][j]["role"] = i => j \in lapsed'
    BY <1>2, <1>6
  <2> QED
    BY <2>1, <2>2, <2>3 DEF NamesKept
<1>9. RequestsOK'
  BY <1>1, <1>5, NewRequests DEF TablesKept, RequestsOK
<1>10. TeachingRequestsKept /\ PromisesKept
  BY <1>1 DEF TeachingRequestsKept, PromisesKept
<1> QED
  BY <1>5, <1>7, <1>8, <1>9, <1>10 DEF Kept

\* A subject is created: its link is promised and asked for.
LEMMA KeptBySubjectCreate == ASSUME CampusInv, AdminSubjectCreate PROVE Kept
<1>1. TablesInv /\ RequestsOK /\ UNCHANGED <<moved, lapsed>> /\ Cardinality(pending) < MaxPending
  BY DEF CampusInv, AdminSubjectCreate
<1>2. PICK code \in Labels, p \in Ids("programs") \cup {Null} :
          /\ Insert("subjects", [code |-> code])
          /\ LET links == IF p = Null THEN {} ELSE {<<NewId("subjects"), p>>}
             IN  /\ promised' = promised \cup links
                 /\ pending' = pending \cup {Link(l[1], l[2]) : l \in links}
  BY DEF AdminSubjectCreate, CreateSubject
<1>3. Fits("subjects", [code |-> code]) /\ "subjects" \in Tabs \ {"sessions"}
  BY WrittenColumns, WatchedTables DEF Fits
<1>4. TablesKept /\ BuildingsKept /\ CodesKept /\ PersonsKept
  BY <1>1, <1>2, <1>3, InsertKeeps
<1>5. /\ \A u \in Tabs \ {"subjects"} : db'[u] = db[u] /\ sequence'[u] = sequence[u]
      /\ sequence'["subjects"] = NewId("subjects")
  BY <1>1, <1>2, <1>3, Inserted
<1>6. Ids("staffroles")' = Ids("staffroles") /\ sequence'["programs"] = sequence["programs"]
  BY <1>5, WatchedTables DEF Ids
<1>7. RoomsKept /\ RolesKept /\ NamesKept
  BY <1>1, <1>4, <1>6 DEF RoomsKept, RolesKept, NamesKept, BuildingsKept, PersonsKept, CodesKept
<1>8. CASE p = Null
  <2>1. promised' = promised /\ pending' = pending
    BY <1>2, <1>8
  <2>2. RequestsOK'
    BY <1>1, <1>4, <2>1, NewRequests DEF TablesKept, RequestsOK
  <2>3. TeachingRequestsKept /\ PromisesKept
    BY <2>1 DEF TeachingRequestsKept, PromisesKept
  <2> QED
    BY <1>4, <1>7, <2>2, <2>3 DEF Kept
<1>9. CASE p # Null
  <2> DEFINE s == NewId("subjects")
  <2>1. promised' = promised \cup {<<s, p>>} /\ pending' = pending \cup {Link(s, p)}
    BY <1>2, <1>9
  <2>2. s \in 1 .. sequence'["subjects"] /\ p \in 1 .. sequence'["programs"]
    <3>1. s \in Nat /\ s > 0
      BY <1>1, <1>3, NewIdIsNew
    <3>2. p \in Ids("programs") /\ Ids("programs") \subseteq 1 .. sequence["programs"]
      BY <1>1, <1>9, WatchedTables DEF TablesInv, TablesOK
    <3> QED
      BY <1>5, <1>6, <3>1, <3>2
  <2> HIDE DEF s
  <2>3. \A w : w = Link(s, p) => RequestOK(w)'
    BY DEF RequestOK, Link
  <2>4. IsFiniteSet(pending') /\ Cardinality(pending') <= MaxPending
    BY <1>1, <2>1, CountNewRequest
  <2>5. RequestsOK'
    BY <1>1, <1>4, <2>1, <2>2, <2>3, <2>4, NewRequests DEF TablesKept
  <2>6. TeachingRequestsKept
    BY <2>1 DEF TeachingRequestsKept
  <2>7. PromisesKept
    BY <2>1 DEF PromisesKept
  <2> QED
    BY <1>4, <1>7, <2>5, <2>6, <2>7 DEF Kept
<1> QED
  BY <1>8, <1>9

\* A role is asked for: nothing is written yet.
LEMMA KeptByOrgRoleAdd == ASSUME CampusInv, AdminOrgRoleAdd PROVE Kept
<1>1. /\ TablesInv /\ RequestsOK /\ UNCHANGED <<db, sequence, moved, promised, lapsed>>
      /\ Cardinality(pending) < MaxPending
  BY DEF CampusInv, AdminOrgRoleAdd, history
<1>2. PICK p \in Staff, r \in Ids("roletypes") :
          pending' = pending \cup {[pc |-> "add", person |-> p, role |-> r, name |-> GetRoleTypeName(r)]}
  BY DEF AdminOrgRoleAdd
<1> DEFINE q == [pc |-> "add", person |-> p, role |-> r, name |-> GetRoleTypeName(r)]
<1>3. /\ TablesKept /\ BuildingsKept /\ CodesKept /\ PersonsKept
      /\ Ids("staffroles")' \subseteq Ids("staffroles")
  BY <1>1, SameTables
<1>4. RoomsKept /\ RolesKept /\ NamesKept
  BY <1>1, <1>3 DEF RoomsKept, RolesKept, NamesKept, BuildingsKept, PersonsKept, CodesKept
<1>5. q.pc = "add"
  OBVIOUS
<1>6. pending' = pending \cup {q}
  BY <1>2
<1> HIDE DEF q
<1>7. IsFiniteSet(pending') /\ Cardinality(pending') <= MaxPending
  BY <1>1, <1>6, CountNewRequest
<1>8. \A w : w = q => RequestOK(w)'
  BY <1>5 DEF RequestOK
<1>9. RequestsOK'
  BY <1>1, <1>3, <1>6, <1>7, <1>8, NewRequests DEF TablesKept
<1>10. TeachingRequestsKept /\ PromisesKept
  BY <1>1, <1>6 DEF TeachingRequestsKept, PromisesKept
<1> QED
  BY <1>3, <1>4, <1>9, <1>10 DEF Kept

\* The link of a new subject is made, ...
LEMMA KeptByLink ==
    ASSUME CampusInv, NEW q \in pending, LinkNewSubject(q) PROVE Kept
<1>1. /\ TablesInv /\ RequestsOK /\ UNCHANGED <<moved, promised, lapsed>>
      /\ q.pc = "link" /\ pending' = pending \ {q}
      /\ Insert("subjectprograms", [subject |-> q.subject, program |-> q.program])
  BY DEF CampusInv, LinkNewSubject, LinkSubjectToProgram, history
<1> DEFINE row == [subject |-> q.subject, program |-> q.program]
<1>2. Fits("subjectprograms", row) /\ "subjectprograms" \in Tabs \ {"sessions"}
  BY WrittenColumns, WatchedTables DEF Fits
<1>3. TablesKept /\ BuildingsKept /\ CodesKept /\ PersonsKept
  BY <1>1, <1>2, InsertKeeps
<1>4. /\ \A u \in Tabs \ {"subjectprograms"} : db'[u] = db[u]
      /\ NewId("subjectprograms") \in Ids("subjectprograms")'
      /\ db'["subjectprograms"][NewId("subjectprograms")] = row
  BY <1>1, <1>2, Inserted DEF Ids
<1>5. Ids("staffroles")' = Ids("staffroles")
  BY <1>4, WatchedTables DEF Ids
<1>6. RoomsKept /\ RolesKept /\ NamesKept
  BY <1>1, <1>3, <1>5 DEF RoomsKept, RolesKept, NamesKept, BuildingsKept, PersonsKept, CodesKept
<1>7. IsFiniteSet(pending') /\ Cardinality(pending') <= MaxPending
  BY <1>1, CountRequests
<1>8. RequestsOK'
  BY <1>1, <1>3, <1>7, NewRequests DEF TablesKept
<1>9. TeachingRequestsKept
  BY <1>1 DEF TeachingRequestsKept
<1>10. PromisesKept
  <2> SUFFICES ASSUME NEW l \in promised', Link(l[1], l[2]) = q
               PROVE  \E i \in Ids("subjectprograms")' :
                          db'["subjectprograms"][i] = [subject |-> l[1], program |-> l[2]]
    BY <1>1 DEF PromisesKept
  <2>1. q.subject = l[1] /\ q.program = l[2]
    BY DEF Link
  <2> QED
    BY <1>4, <2>1
<1> QED
  BY <1>3, <1>6, <1>8, <1>9, <1>10 DEF Kept

\* ... or its promise is taken back.
LEMMA KeptByLinkFails ==
    ASSUME CampusInv, NEW q \in pending, LinkFails(q) PROVE Kept
<1>1. /\ TablesInv /\ RequestsOK /\ UNCHANGED <<db, sequence, moved, lapsed>>
      /\ q.pc = "link" /\ pending' = pending \ {q}
      /\ promised' = promised \ {<<q.subject, q.program>>}
  BY DEF CampusInv, LinkFails
<1>2. /\ TablesKept /\ BuildingsKept /\ CodesKept /\ PersonsKept
      /\ Ids("staffroles")' \subseteq Ids("staffroles")
  BY <1>1, SameTables
<1>3. RoomsKept /\ RolesKept /\ NamesKept
  BY <1>1, <1>2 DEF RoomsKept, RolesKept, NamesKept, BuildingsKept, PersonsKept, CodesKept
<1>4. IsFiniteSet(pending') /\ Cardinality(pending') <= MaxPending
  BY <1>1, CountRequests
<1>5. RequestsOK'
  BY <1>1, <1>2, <1>4, NewRequests DEF TablesKept
<1>6. TeachingRequestsKept
  BY <1>1 DEF TeachingRequestsKept
<1>7. PromisesKept
  <2> SUFFICES ASSUME NEW l \in promised', Link(l[1], l[2]) = q PROVE FALSE
    BY <1>1 DEF PromisesKept
  <2>1. q.subject = l[1] /\ q.program = l[2]
    BY DEF Link
  <2>2. l = <<l[1], l[2]>>
    BY <1>1 DEF RequestsOK
  <2> QED
    BY <1>1, <2>1, <2>2
<1> QED
  BY <1>2, <1>3, <1>5, <1>6, <1>7 DEF Kept
\* A role is added.  If its type was read as Teacher, a teacher is asked for.
LEMMA KeptByRole ==
    ASSUME CampusInv, NEW q \in pending, AddRole(q) PROVE Kept
<1> DEFINE n == NewId("staffroles")
           row == [person |-> q.person, role |-> q.role, ended |-> FALSE]
           new == [pc |-> "teach", person |-> q.person, row |-> n]
<1>1. /\ TablesInv /\ RequestsOK /\ UNCHANGED <<moved, promised>>
      /\ q.pc = "add" /\ Insert("staffroles", row)
      /\ pending' = (pending \ {q}) \cup (IF q.name = TeacherName THEN {new} ELSE {})
      /\ lapsed' = IF q.name # TeacherName /\ GetRoleTypeName(q.role) = TeacherName
                   THEN lapsed \cup {n} ELSE lapsed
  BY DEF CampusInv, AddRole, AddStaffOrgRole
<1>2. Fits("staffroles", row) /\ "staffroles" \in Tabs \ {"sessions"}
  BY WrittenColumns, WatchedTables DEF Fits
<1>3. TablesKept /\ BuildingsKept /\ CodesKept /\ PersonsKept
  BY <1>1, <1>2, InsertKeeps
<1>4. /\ \A u \in Tabs \ {"staffroles"} : db'[u] = db[u]
      /\ Ids("staffroles")' = Ids("staffroles") \cup {n}
      /\ db'["staffroles"][n] = row
      /\ sequence'["staffroles"] = n
  BY <1>1, <1>2, Inserted DEF Ids
<1>5. n \notin Ids("staffroles") /\ n \in Nat /\ n > 0
  BY <1>1, <1>2, NewIdIsNew
<1>6. new.pc = "teach" /\ new.row = n /\ new.person = q.person
  OBVIOUS
<1>7. row["person"] = q.person /\ row["role"] = q.role
  OBVIOUS
<1> HIDE DEF n, row, new
<1>8. RoomsKept /\ NamesKept
  BY <1>1, <1>3 DEF RoomsKept, NamesKept, BuildingsKept, CodesKept
<1>9. RolesKept
  <2>1. ASSUME q.name # TeacherName, GetRoleTypeName(q.role) # TeacherName
        PROVE  ~ CalledTeacher(db', n)
    <3>1. db'["roletypes"] = db["roletypes"]
      BY <1>4, WatchedTables
    <3> QED
      BY <1>4, <1>7, <2>1, <3>1 DEF CalledTeacher, GetRoleTypeName
  <2>2. \/ ~ CalledTeacher(db', n)
        \/ n \in lapsed'
        \/ \E w \in pending' : w.pc = "teach" /\ w.row = n
    BY <1>1, <1>6, <2>1
  <2>3. ASSUME NEW i \in Ids("staffroles")', i # n
        PROVE  i \in Ids("staffroles")
    BY <1>4, <2>3
  <2> QED
    BY <1>3, <1>5, <2>2, <2>3 DEF RolesKept, PersonsKept
<1>10. RequestsOK'
  <2>1. \A w : w = new => RequestOK(w)'
    <3> SUFFICES ASSUME NEW w, w = new PROVE RequestOK(w)'
      OBVIOUS
    <3>1. w.pc = "teach" /\ w.row = n /\ w.person = q.person
      BY <1>6
    <3>2. w.row \in 1 .. sequence'["staffroles"]
      BY <1>4, <1>5, <3>1
    <3>3. db'["staffroles"][w.row]["person"] = w.person
      BY <1>4, <1>7, <3>1
    <3> QED
      BY <3>1, <3>2, <3>3 DEF RequestOK
  <2>2. IsFiniteSet(pending') /\ Cardinality(pending') <= MaxPending
    <3>1. pending' = pending \ {q} \/ pending' = (pending \ {q}) \cup {new}
      BY <1>1
    <3> QED
      BY <1>1, <3>1, CountRequests
  <2>3. \A w \in pending' : w \in pending \/ w = new
    BY <1>1
  <2> QED
    BY <1>1, <1>3, <2>1, <2>2, <2>3, NewRequests DEF TablesKept
<1>11. TeachingRequestsKept
  BY <1>1 DEF TeachingRequestsKept
<1>12. PromisesKept
  BY <1>1 DEF PromisesKept, Link
<1> QED
  BY <1>3, <1>8, <1>9, <1>10, <1>11, <1>12 DEF Kept

\* The other ends of a request: the role is not added, ...
LEMMA KeptByRoleFails ==
    ASSUME CampusInv, NEW q \in pending, AddRoleFails(q) PROVE Kept
<1>1. /\ TablesInv /\ RequestsOK /\ UNCHANGED <<db, sequence, moved, promised, lapsed>>
      /\ q.pc = "add" /\ pending' = pending \ {q}
  BY DEF CampusInv, AddRoleFails, history
<1>2. /\ TablesKept /\ BuildingsKept /\ CodesKept /\ PersonsKept
      /\ Ids("staffroles")' \subseteq Ids("staffroles")
  BY <1>1, SameTables
<1>3. RoomsKept /\ RolesKept /\ NamesKept
  BY <1>1, <1>2 DEF RoomsKept, RolesKept, NamesKept, BuildingsKept, PersonsKept, CodesKept
<1>4. IsFiniteSet(pending') /\ Cardinality(pending') <= MaxPending
  BY <1>1, CountRequests
<1>5. RequestsOK'
  BY <1>1, <1>2, <1>4, NewRequests DEF TablesKept
<1>6. TeachingRequestsKept
  BY <1>1 DEF TeachingRequestsKept
<1>7. PromisesKept
  BY <1>1 DEF PromisesKept, Link
<1> QED
  BY <1>2, <1>3, <1>5, <1>6, <1>7 DEF Kept

\* ... the person is a teacher, ...
LEMMA KeptByMakeTeacher ==
    ASSUME CampusInv, NEW q \in pending, MakeTeacher(q) PROVE Kept
<1>1. /\ TablesInv /\ RequestsOK /\ UNCHANGED <<moved, promised, lapsed>>
      /\ q.pc = "teach" /\ pending' = pending \ {q} /\ AddTeacherRole(q.person)
  BY DEF CampusInv, MakeTeacher, history
<1>2. /\ TablesKept /\ BuildingsKept /\ CodesKept /\ PersonsKept
      /\ Ids("staffroles")' \subseteq Ids("staffroles")
      /\ IsTeacher(db', q.person)
  <2>1. CASE IsTeacher(db, q.person)
    <3>1. UNCHANGED <<db, sequence>>
      BY <1>1, <2>1 DEF AddTeacherRole
    <3> QED
      BY <1>1, <2>1, <3>1, SameTables
  <2>2. CASE ~ IsTeacher(db, q.person)
    <3> DEFINE row == [person |-> q.person]
    <3>1. Insert("teachers", row)
      BY <1>1, <2>2 DEF AddTeacherRole
    <3>2. Fits("teachers", row) /\ "teachers" \in Tabs \ {"sessions"}
      BY WrittenColumns, WatchedTables DEF Fits
    <3>3. row["person"] = q.person
      OBVIOUS
    <3> HIDE DEF row
    <3>4. /\ \A u \in Tabs \ {"teachers"} : db'[u] = db[u]
          /\ NewId("teachers") \in DOMAIN db'["teachers"]
          /\ db'["teachers"][NewId("teachers")] = row
      BY <1>1, <3>1, <3>2, Inserted
    <3>5. IsTeacher(db', q.person)
      BY <3>3, <3>4 DEF IsTeacher
    <3>6. Ids("staffroles")' = Ids("staffroles")
      BY <3>4, WatchedTables DEF Ids
    <3> QED
      BY <1>1, <3>1, <3>2, <3>5, <3>6, InsertKeeps
  <2> QED
    BY <2>1, <2>2
<1>3. RoomsKept /\ RolesKept /\ NamesKept
  BY <1>1, <1>2 DEF RoomsKept, RolesKept, NamesKept, BuildingsKept, PersonsKept, CodesKept
<1>4. IsFiniteSet(pending') /\ Cardinality(pending') <= MaxPending
  BY <1>1, CountRequests
<1>5. RequestsOK'
  BY <1>1, <1>2, <1>4, NewRequests DEF TablesKept
<1>6. TeachingRequestsKept
  BY <1>1, <1>2 DEF TeachingRequestsKept
<1>7. PromisesKept
  BY <1>1 DEF PromisesKept, Link
<1> QED
  BY <1>2, <1>3, <1>5, <1>6, <1>7 DEF Kept

\* ... or is not, and the role has its reason.
LEMMA KeptByMakeTeacherFails ==
    ASSUME CampusInv, NEW q \in pending, MakeTeacherFails(q) PROVE Kept
<1>1. /\ TablesInv /\ RequestsOK /\ UNCHANGED <<db, sequence, moved, promised>>
      /\ q.pc = "teach" /\ pending' = pending \ {q} /\ lapsed' = lapsed \cup {q.row}
  BY DEF CampusInv, MakeTeacherFails
<1>2. /\ TablesKept /\ BuildingsKept /\ CodesKept /\ PersonsKept
      /\ Ids("staffroles")' \subseteq Ids("staffroles")
  BY <1>1, SameTables
<1>3. RoomsKept /\ RolesKept /\ NamesKept
  BY <1>1, <1>2 DEF RoomsKept, RolesKept, NamesKept, BuildingsKept, PersonsKept, CodesKept
<1>4. IsFiniteSet(pending') /\ Cardinality(pending') <= MaxPending
  BY <1>1, CountRequests
<1>5. RequestsOK'
  BY <1>1, <1>2, <1>4, NewRequests DEF TablesKept
<1>6. TeachingRequestsKept
  BY <1>1 DEF TeachingRequestsKept
<1>7. PromisesKept
  BY <1>1 DEF PromisesKept, Link
<1> QED
  BY <1>2, <1>3, <1>5, <1>6, <1>7 DEF Kept

\* Every step keeps what the invariant needs.
LEMMA StepsKeep ==
    ASSUME CampusInv, [CampusNext]_campusVars PROVE Kept
<1>1. CASE UNCHANGED campusVars
  <2>1. /\ TablesInv /\ RequestsOK
        /\ UNCHANGED <<db, sequence, pending, moved, promised, lapsed>>
    BY <1>1 DEF CampusInv, campusVars
  <2>2. /\ TablesKept /\ BuildingsKept /\ CodesKept /\ PersonsKept
        /\ Ids("staffroles")' \subseteq Ids("staffroles")
    BY <2>1, SameTables
  <2>3. RoomsKept /\ RolesKept /\ NamesKept
    BY <2>1, <2>2 DEF RoomsKept, RolesKept, NamesKept, BuildingsKept, PersonsKept, CodesKept
  <2>4. RequestsOK'
    BY <2>1, <2>2, NewRequests DEF TablesKept, RequestsOK
  <2>5. TeachingRequestsKept /\ PromisesKept
    BY <2>1 DEF TeachingRequestsKept, PromisesKept
  <2> QED
    BY <2>2, <2>3, <2>4, <2>5 DEF Kept
<1>2. CASE CampusNext
  <2>1. PlainStep \/ SpecialStep
    BY <1>2, StepsAreKnown DEF CampusInv
  <2>2. CASE PlainStep
    BY <2>2, KeptByPlainStep
  <2>3. CASE SpecialStep
    <3>1. CASE \E q \in pending :
                  \/ LinkNewSubject(q) \/ LinkFails(q)
                  \/ AddRole(q) \/ AddRoleFails(q)
                  \/ MakeTeacher(q) \/ MakeTeacherFails(q)
      BY <3>1, KeptByLink, KeptByLinkFails, KeptByRole, KeptByRoleFails, KeptByMakeTeacher,
         KeptByMakeTeacherFails
    <3> QED
      BY <2>3, <3>1, KeptByRoomUpdate, KeptBySubjectCreate, KeptByRoleTypeUpdate, KeptByOrgRoleAdd
         DEF SpecialStep
  <2> QED
    BY <2>1, <2>2, <2>3
<1> QED
  BY <1>1, <1>2
-----------------------------------------------------------------------------
(* The start                                                               *)

\* Of sets of elements of a finite set, one has none of the others inside.
LEMMA SmallestSet ==
    ASSUME NEW U, IsFiniteSet(U), NEW F, \A A \in F : A \in SUBSET U, \E A : A \in F
    PROVE  \E A \in F : \A B \in F : ~ (B \subseteq A /\ B # A)
<1> DEFINE R == StrictSubsetOrdering(U)
<1>1. IsWellFoundedOn(R, FiniteSubsetsOf(U))
  BY FS_StrictSubsetOrderingWellFounded
<1>2. F \subseteq FiniteSubsetsOf(U)
  BY FS_Subset DEF FiniteSubsetsOf
<1> HIDE DEF R
<1>3. \E A \in F : \A B \in F : <<B, A>> \notin R
  BY <1>1, <1>2, WFMin
<1>4. PICK A \in F : \A B \in F : <<B, A>> \notin R
  BY <1>3
<1>5. ASSUME NEW B \in F, B \subseteq A, B # A PROVE FALSE
  <2>1. <<B, A>> \in R
    BY <1>5 DEF R, StrictSubsetOrdering
  <2> QED
    BY <1>4, <2>1
<1> QED
  BY <1>4, <1>5

\* A finite set of numbers has a largest one.
LEMMA Largest ==
    ASSUME NEW S, S \subseteq Int, IsFiniteSet(S), S # {}
    PROVE  \E i \in S : \A j \in S : j <= i
<1> DEFINE Above(i) == {j \in S : j > i}
           F == {Above(i) : i \in S}
<1>1. (\A A \in F : A \in SUBSET S) /\ (\E A : A \in F) /\ IsFiniteSet(S)
  OBVIOUS
<1> HIDE DEF F
<1>2. \E A \in F : \A B \in F : ~ (B \subseteq A /\ B # A)
  BY <1>1, SmallestSet
<1> PICK A \in F : \A B \in F : ~ (B \subseteq A /\ B # A)
  BY <1>2
<1>3. PICK i \in S : A = Above(i)
  BY <1>2 DEF F
<1>4. ASSUME NEW j \in S, j > i PROVE FALSE
  <2>1. Above(j) \in F
    BY DEF F
  <2>2. ASSUME NEW k \in Above(j) PROVE k \in A
    <3>1. k \in S /\ k > j
      BY <2>2
    <3>2. i \in Int /\ j \in Int /\ k \in Int
      BY <3>1
    <3>3. k > i
      BY <1>4, <3>1, <3>2
    <3> QED
      BY <1>3, <3>1, <3>3
  <2>3. j \in A /\ j \notin Above(j)
    BY <1>3, <1>4
  <2> QED
    BY <1>2, <2>1, <2>2, <2>3
<1> QED
  BY <1>4

\* The sequences start at the last number of their tables.
LEMMA HighestIsLast ==
    ASSUME NEW S, S \subseteq 1 .. MaxRow
    PROVE  Highest(S) \in 0 .. MaxRow /\ S \subseteq 1 .. Highest(S)
<1>1. MaxRow \in Nat
  BY CampusAssumption
<1>2. CASE S = {}
  BY <1>1, <1>2 DEF Highest
<1>3. CASE S # {}
  <2>1. IsFiniteSet(S) /\ S \subseteq Int
    <3>1. IsFiniteSet(1 .. MaxRow)
      BY <1>1, FS_Interval
    <3>2. S \in SUBSET (1 .. MaxRow)
      OBVIOUS
    <3>3. IsFiniteSet(S)
      BY <3>1, <3>2, FS_Subset
    <3>4. S \subseteq Int
      BY <1>1
    <3> QED
      BY <3>3, <3>4
  <2>2. \E i \in S : \A j \in S : j <= i
    BY <1>3, <2>1, Largest
  <2>3. Highest(S) \in S /\ \A j \in S : j <= Highest(S)
    BY <1>3, <2>2 DEF Highest
  <2> DEFINE h == Highest(S)
  <2>4. h \in 1 .. MaxRow
    BY <2>3
  <2> HIDE DEF h
  <2>5. h \in 0 .. MaxRow
    BY <1>1, <2>4
  <2>6. \A j \in S : j \in 1 .. h
    <3> SUFFICES ASSUME NEW j \in S PROVE j \in 1 .. h
      OBVIOUS
    <3>1. j \in 1 .. MaxRow /\ j <= h
      BY <2>3 DEF h
    <3> QED
      BY <1>1, <2>4, <3>1
  <2> QED
    BY <2>5, <2>6 DEF h
<1> QED
  BY <1>2, <1>3

\* The seeds are whole, and nothing is under way in them.
LEMMA CampusStarts == CampusInit => CampusInv
<1> SUFFICES ASSUME CampusInit PROVE CampusInv
  OBVIOUS
<1>1. /\ db \in Seeds /\ sequence = [t \in Tabs |-> Highest(Ids(t))]
      /\ pending = {} /\ moved = {} /\ promised = {} /\ lapsed = {}
  BY DEF CampusInit
<1>2. /\ DOMAIN db = Tabs /\ \A t \in Tabs : Ids(t) \subseteq 1 .. MaxRow
      /\ MaxPending \in Nat
  BY <1>1, CampusAssumption DEF Ids
<1>3. /\ \A t \in Tabs : \A i \in Ids(t) : DOMAIN db[t][i] = Columns[t]
      /\ Whole(db, Keys)
      /\ \A s \in Ids("sessions") : ~ Astray(db, s)
      /\ \A i \in Ids("issues") :
            db["issues"][i]["resolved"] => db["issues"][i]["status"] = "Resolved"
      /\ \A i \in Ids("staffroles") :
            CalledTeacher(db, i) => IsTeacher(db, db["staffroles"][i]["person"])
  BY <1>1, SeedAssumption DEF Ids
<1>4. \A t \in Tabs : Highest(Ids(t)) \in 0 .. MaxRow /\ Ids(t) \subseteq 1 .. Highest(Ids(t))
  BY <1>2, HighestIsLast
<1>5. TablesInv
  BY <1>1, <1>2, <1>3, <1>4 DEF TablesInv, TablesOK
<1>6. RequestsOK
  BY <1>1, <1>2, FS_EmptySet DEF RequestsOK
<1>7. SessionsKnowTheirBuilding /\ NewSubjectsAreLinked /\ RolesMakeTeachers
  BY <1>1, <1>3 DEF SessionsKnowTheirBuilding, NewSubjectsAreLinked, RolesMakeTeachers, MadeTeacher
<1> QED
  BY <1>5, <1>6, <1>7 DEF CampusInv
-----------------------------------------------------------------------------
(* Theorems                                                                *)

\* The invariant holds whatever the screens do and whichever statement fails.
LEMMA CampusInvariant == CampusSpec => []CampusInv
<1>1. CampusInit => CampusInv
  BY CampusStarts
<1>2. CampusInv /\ [CampusNext]_campusVars => CampusInv'
  BY StepsKeep, KeptIsEnough
<1> QED
  BY <1>1, <1>2, PTL DEF CampusSpec

\* Tables hold rows of their columns, numbered by their sequences; an issue has
\* a time of resolution only while it is resolved.
THEOREM CampusTyping == CampusSpec => []CampusTypeOK
<1>1. CampusInv => CampusTypeOK
  BY DEF CampusInv, TablesInv, TablesOK, RequestsOK, CampusTypeOK
<1> QED
  BY <1>1, CampusInvariant, PTL

\* No deletion, with all that it takes along and clears, leaves a row that
\* names a row which is not there.
THEOREM ReferencesStand == CampusSpec => []Whole(db, Keys)
<1>1. CampusInv => Whole(db, Keys)
  BY DEF CampusInv, TablesInv
<1> QED
  BY <1>1, CampusInvariant, PTL

\* A session is astray only because its room was given another building.
THEOREM PlacesAgree == CampusSpec => []SessionsKnowTheirBuilding
<1>1. CampusInv => SessionsKnowTheirBuilding
  BY DEF CampusInv
<1> QED
  BY <1>1, CampusInvariant, PTL

\* The second statement of a new subject's form makes the link, unless it failed.
THEOREM LinksAreMade == CampusSpec => []NewSubjectsAreLinked
<1>1. CampusInv => NewSubjectsAreLinked
  BY DEF CampusInv
<1> QED
  BY <1>1, CampusInvariant, PTL

\* Who holds the role Teacher is a teacher, or there is a reason.
THEOREM RolesAreTaught == CampusSpec => []TeachersAreMade
<1>1. CampusInv => TeachersAreMade
  BY DEF CampusInv, RolesMakeTeachers, MadeTeacher, TeachersAreMade, TeacherRole
<1> QED
  BY <1>1, CampusInvariant, PTL

\* No step of these screens takes away a class, a session, an enrolment or a
\* unit enrolment.
THEOREM TeachingStays == CampusSpec => TeachingSurvives
<1>1. CampusInv /\ [CampusNext]_campusVars => \A t \in Teaching : Ids(t) \subseteq Ids(t)'
  BY StepsKeep DEF Kept, TablesKept
<1> QED
  BY <1>1, CampusInvariant, PTL DEF CampusSpec, TeachingSurvives

\* The references that the joins of the listings follow.
LEMMA JoinedReferences ==
    ASSUME TablesInv
    PROVE  /\ \A i \in Ids("programs") : db["programs"][i]["faculty"] \in Ids("faculties")
           /\ \A i \in Ids("groups") : db["groups"][i]["intake"] \in Ids("intakes")
           /\ \A i \in Ids("classes") : /\ db["classes"][i]["period"] \in Ids("periods")
                                        /\ db["classes"][i]["location"] \in Ids("locations")
                                        /\ db["classes"][i]["group"] \in Ids("groups") \cup {Null}
           /\ \A i \in Ids("locations") : db["locations"][i]["org"] \in Ids("orgs")
           /\ \A i \in Ids("buildings") : db["buildings"][i]["location"] \in Ids("locations")
           /\ \A i \in Ids("rooms") : db["rooms"][i]["building"] \in Ids("buildings")
           /\ \A i \in Ids("intakes") : /\ db["intakes"][i]["period"] \in Ids("periods")
                                        /\ db["intakes"][i]["location"] \in Ids("locations")
                                        /\ db["intakes"][i]["program"] \in Ids("programs")
           /\ \A i \in Ids("staffroles") : db["staffroles"][i]["role"] \in Ids("roletypes")
           /\ \A i \in Ids("sessions") : db["sessions"][i]["class"] \in Ids("classes")
           /\ \A i \in Ids("classsubjects") : db["classsubjects"][i]["class"] \in Ids("classes")
<1>1. ASSUME NEW t \in Tabs, NEW i \in Ids(t), NEW k \in Keys, k.from = t
      PROVE  db[t][i][k.col] \in Ids(k.to) \/ (k.optional /\ db[t][i][k.col] = Null)
  BY <1>1 DEF TablesInv, TablesOK, Whole, Refers, Ids
<1>2. ASSUME NEW t \in Tabs, NEW c, NEW u, NEW rule, Key(t, c, u, rule, FALSE) \in Keys,
             NEW i \in Ids(t)
      PROVE  db[t][i][c] \in Ids(u)
  BY <1>1, <1>2 DEF Key
<1>3. /\ Key("programs", "faculty", "faculties", "restrict", FALSE) \in Keys
      /\ Key("groups", "intake", "intakes", "cascade", FALSE) \in Keys
      /\ Key("classes", "period", "periods", "no_action", FALSE) \in Keys
      /\ Key("classes", "location", "locations", "no_action", FALSE) \in Keys
      /\ Key("classes", "group", "groups", "set_null", TRUE) \in Keys
      /\ Key("locations", "org", "orgs", "cascade", FALSE) \in Keys
      /\ Key("buildings", "location", "locations", "cascade", FALSE) \in Keys
      /\ Key("rooms", "building", "buildings", "cascade", FALSE) \in Keys
      /\ Key("intakes", "period", "periods", "restrict", FALSE) \in Keys
      /\ Key("intakes", "location", "locations", "restrict", FALSE) \in Keys
      /\ Key("intakes", "program", "programs", "restrict", FALSE) \in Keys
      /\ Key("staffroles", "role", "roletypes", "restrict", FALSE) \in Keys
      /\ Key("sessions", "class", "classes", "cascade", FALSE) \in Keys
      /\ Key("classsubjects", "class", "classes", "cascade", FALSE) \in Keys
  BY DEF Keys, PlaceKeys, CurriculumKeys, TeachingKeys
<1>4. {"programs", "groups", "classes", "locations", "buildings", "rooms", "intakes",
       "staffroles", "sessions", "classsubjects"} \subseteq Tabs
  BY DEF Tabs
<1>5. \A i \in Ids("classes") : db["classes"][i]["group"] \in Ids("groups") \cup {Null}
  BY <1>1, <1>3, <1>4 DEF Key
<1>6. /\ \A i \in Ids("programs") : db["programs"][i]["faculty"] \in Ids("faculties")
      /\ \A i \in Ids("groups") : db["groups"][i]["intake"] \in Ids("intakes")
  BY <1>2, <1>3, <1>4
<1>7. /\ \A i \in Ids("classes") : db["classes"][i]["period"] \in Ids("periods")
      /\ \A i \in Ids("classes") : db["classes"][i]["location"] \in Ids("locations")
  BY <1>2, <1>3, <1>4
<1>8. /\ \A i \in Ids("locations") : db["locations"][i]["org"] \in Ids("orgs")
      /\ \A i \in Ids("buildings") : db["buildings"][i]["location"] \in Ids("locations")
      /\ \A i \in Ids("rooms") : db["rooms"][i]["building"] \in Ids("buildings")
  BY <1>2, <1>3, <1>4
<1>9. /\ \A i \in Ids("intakes") : db["intakes"][i]["period"] \in Ids("periods")
      /\ \A i \in Ids("intakes") : db["intakes"][i]["location"] \in Ids("locations")
      /\ \A i \in Ids("intakes") : db["intakes"][i]["program"] \in Ids("programs")
  BY <1>2, <1>3, <1>4
<1>10. /\ \A i \in Ids("staffroles") : db["staffroles"][i]["role"] \in Ids("roletypes")
       /\ \A i \in Ids("sessions") : db["sessions"][i]["class"] \in Ids("classes")
       /\ \A i \in Ids("classsubjects") : db["classsubjects"][i]["class"] \in Ids("classes")
  BY <1>2, <1>3, <1>4
<1> QED
  BY <1>5, <1>6, <1>7, <1>8, <1>9, <1>10

\* Every row is in its listing: no inner join loses it.
THEOREM ListingsAreComplete == CampusSpec => []EverythingListed
<1>1. CampusInv => EverythingListed
  <2> SUFFICES ASSUME TablesInv PROVE EverythingListed
    BY DEF CampusInv
  <2> USE JoinedReferences
  <2>1. ListPrograms = Ids("programs") /\ ListIntakeGroups = Ids("groups")
    BY DEF ListPrograms, ListIntakeGroups, Joined
  <2>2. ListClasses = Ids("classes")
    BY DEF ListClasses, Joined
  <2>3. ListDeliveryLocationsFull = Ids("locations") /\ ListBuildings = Ids("buildings")
    BY DEF ListDeliveryLocationsFull, ListBuildings, Joined
  <2>4. ListRooms = Ids("rooms")
    BY <2>3 DEF ListRooms, Joined
  <2>5. ListIntakesFull = Ids("intakes") /\ ListStaffOrgRoles = Ids("staffroles")
    BY DEF ListIntakesFull, ListStaffOrgRoles, Joined
  <2>6. \A i \in Ids("departments") : i \in ListDepartments \/ db["departments"][i]["deleted"]
    BY DEF ListDepartments
  <2>7. ASSUME NEW s \in Ids("sessions"), NotObserved(s)
        PROVE  /\ s \in TimetableRange
               /\ LET r == db["sessions"][s]["room"]
                      g == db["classes"][db["sessions"][s]["class"]]["group"]
                  IN  /\ r # Null => s \in WeekSessionsForRoom(r)
                      /\ g # Null => s \in ScheduleForIntakeGroup(g)
    BY <2>2, <2>7 DEF TimetableRange, WeekSessionsForRoom, ScheduleForIntakeGroup, Joined
  <2>8. ASSUME NEW cs \in Ids("classsubjects")
        PROVE  LET c == db["classsubjects"][cs]["class"]
                   t == db["classes"][c]["period"]
                   g == db["classes"][c]["group"]
                   p == db["intakes"][db["groups"][g]["intake"]]["program"]
                   linked == \E i \in Ids("subjectprograms") :
                                db["subjectprograms"][i] =
                                    [subject |-> db["classsubjects"][cs]["subject"], program |-> p]
               IN  g # Null /\ linked =>
                     /\ p \in ProgramsForPeriod(t)
                     /\ g \in GroupsForProgram(t, p)
                     /\ c \in ClassesForGroup(t, g)
    <3> DEFINE c == db["classsubjects"][cs]["class"]
               t == db["classes"][c]["period"]
               g == db["classes"][c]["group"]
               p == db["intakes"][db["groups"][g]["intake"]]["program"]
    <3> SUFFICES ASSUME g # Null,
                        NEW i \in Ids("subjectprograms"),
                        db["subjectprograms"][i] =
                            [subject |-> db["classsubjects"][cs]["subject"], program |-> p]
                 PROVE  /\ p \in ProgramsForPeriod(t)
                        /\ g \in GroupsForProgram(t, p)
                        /\ c \in ClassesForGroup(t, g)
      OBVIOUS
    <3>1. c \in Ids("classes") /\ g \in Ids("groups")
      OBVIOUS
    <3>2. p \in Ids("programs")
      <4>1. db["groups"][g]["intake"] \in Ids("intakes")
        BY <3>1
      <4> QED
        BY <4>1
    <3>3. /\ db["subjectprograms"][i]["program"] = p
          /\ db["subjectprograms"][i]["subject"] = db["classsubjects"][cs]["subject"]
      <4> DEFINE s == db["classsubjects"][cs]["subject"]
      <4>1. db["subjectprograms"][i] = [subject |-> s, program |-> p]
        OBVIOUS
      <4> HIDE DEF s, p
      <4>2. db["subjectprograms"][i]["program"] = p /\ db["subjectprograms"][i]["subject"] = s
        BY <4>1
      <4> QED
        BY <4>2 DEF s
    <3>4. p \in ProgramsForPeriod(t)
      BY <3>2, <3>3 DEF ProgramsForPeriod
    <3>5. g \in GroupsForProgram(t, p)
      BY <3>1 DEF GroupsForProgram
    <3>6. c \in ClassesForGroup(t, g)
      BY <3>1 DEF ClassesForGroup
    <3> QED
      BY <3>4, <3>5, <3>6
  <2> QED
    BY <2>1, <2>2, <2>3, <2>4, <2>5, <2>6, <2>7, <2>8 DEF EverythingListed
<1> QED
  BY <1>1, CampusInvariant, PTL
=============================================================================
