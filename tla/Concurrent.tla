------------------------------ MODULE Concurrent ------------------------------
(***************************************************************************)
(* The statements that create, move, staff and delete a class session, run *)
(* by several transactions at once.                                        *)
(*                                                                         *)
(* Timetable takes a statement with its triggers as one step.  Here it is  *)
(* what it is under READ COMMITTED: its triggers read what others have     *)
(* committed by then, its locks make others wait, and its own writes stay  *)
(* its own until it commits.                                               *)
(*                                                                         *)
(* What PostgreSQL contributes: a query in a trigger takes a new snapshot; *)
(* a BEFORE UPDATE trigger runs once the row is locked, for key share no   *)
(* less, because UpdateSession names columns of uq_session_natural; the    *)
(* foreign key's trigger comes before trg_session_teacher_hours, by its    *)
(* name; a unique or exclusion constraint waits for whoever is inserting   *)
(* or changing a row in its way.                                           *)
(*                                                                         *)
(* Sessions are those this page creates, with one teacher at most.  Bulk   *)
(* creation, changes of a class and the balances of a period are left to   *)
(* Timetable.                                                              *)
(***************************************************************************)
EXTENDS Integers, Sequences, FiniteSets

CONSTANTS
    Teachers,
    Unstaffed,      \* no teacher
    GroupOf,        \* class -> its intake group, or Ungrouped
    Ungrouped,
    SessionForms,   \* the session forms submitted
    Roomless,       \* a form without a room
    YearOf,         \* date -> its year
    YearCap,        \* teacher -> teachers.default_max_hours_per_year
    MaxSessions,    \* bound: the sessions that are ever created
    Workers         \* bound: requests under way at once

SessionIds == 1 .. MaxSessions
NoSession == [class |-> Ungrouped]
Years == {YearOf[d] : d \in DOMAIN YearOf}
YearlyBalances == Teachers \X Years

Lasts(row) == row.to - row.from

ASSUME ConcurrentAssumption ==
    /\ MaxSessions \in Nat
    /\ Unstaffed \notin Teachers
    /\ \A row \in SessionForms :
          /\ row.class \in DOMAIN GroupOf /\ row.day \in DOMAIN YearOf
          /\ row.from \in Nat /\ row.to \in Nat
          /\ DOMAIN row = {"class", "day", "from", "to", "room"}
    /\ YearCap \in [Teachers -> Nat]

VARIABLES
    sessions,       \* the committed rows of class_sessions
    staffing,       \* the committed teacher of each session
    booked,         \* the committed balances
    lastSession,    \* the sequence of the ids
    work,           \* the requests and their transactions
    crossed,        \* history: pairs of sessions whose groups were checked without
                    \* sight of each other
    paired,         \* history: pairs of sessions whose teachers were
    relocated       \* history: sessions moved with a teacher on them, or coming

concurrentVars == <<sessions, staffing, booked, lastSession, work, crossed, paired, relocated>>

\* pc: the next part of the statement; op: the statement; row: what it writes;
\* todo: the balances it has still to adjust; held: those it has locked, with
\* the amounts it has given them
Resting == [pc |-> "idle", op |-> "none", s |-> 0, t |-> Unstaffed, row |-> NoSession,
            todo |-> <<>>, held |-> [b \in {} |-> 0]]

ConcurrentInit ==
    /\ sessions = [s \in SessionIds |-> NoSession]
    /\ staffing = [s \in SessionIds |-> Unstaffed]
    /\ booked = [b \in YearlyBalances |-> 0]
    /\ lastSession = 0
    /\ work = [w \in Workers |-> Resting]
    /\ crossed = {}
    /\ paired = {}
    /\ relocated = {}

-----------------------------------------------------------------------------
(* What a statement sees and waits for                                     *)

Present == {s \in SessionIds : sessions[s] # NoSession}

\* timerange(a) && timerange(b) on one date
Meet(a, b) == a.day = b.day /\ a.from < b.to /\ b.from < a.to

\* Mutant: only sessions of the same class are looked at.
ClassTaken(s, row) == \E q \in Present \ {s} : sessions[q].class = row.class /\ Meet(sessions[q], row)

\* fn_check_group_session_conflict
GroupTaken(s, row) ==
    /\ GroupOf[row.class] # Ungrouped
    /\ \E q \in Present \ {s} :
          GroupOf[sessions[q].class] = GroupOf[row.class] /\ Meet(sessions[q], row)

\* Mutant: only sessions that begin together are looked at.
TeacherTakenAtStart(t, s) ==
    /\ s \in Present
    /\ \E q \in Present \ {s} : staffing[q] = t /\ sessions[q].day = sessions[s].day
                                              /\ sessions[q].from = sessions[s].from

\* fn_check_teacher_session_conflict; a session that is gone meets none.
TeacherTaken(t, s) ==
    /\ s \in Present
    /\ \E q \in Present \ {s} : staffing[q] = t /\ Meet(sessions[q], sessions[s])

\* uq_session_natural, no_room_session_double_booking
Collide(a, b) ==
    \/ a.class = b.class /\ a.day = b.day /\ a.from = b.from
    \/ a.room = b.room /\ a.room # Roomless /\ Meet(a, b)

\* The transaction has written its row of class_sessions.
Written(w) == work[w].pc \in {"inserted", "adjust"} /\ work[w].op \in {"create", "move"}

\* Somebody has, or is about to commit, a row in the way of this one.
Contested(w) ==
    \/ \E q \in Present \ {work[w].s} : Collide(sessions[q], work[w].row)
    \/ \E v \in Workers \ {w} : Written(v) /\ Collide(work[v].row, work[w].row)

\* FOR UPDATE on the session, by an update or a delete of it.
Changing(s) ==
    {w \in Workers : work[w].s = s /\ work[w].op \in {"move", "delete"}
                     /\ work[w].pc \notin {"idle", "lock"}}

\* FOR KEY SHARE on the session, by the foreign key of its new teacher.
Referring(s) ==
    {w \in Workers : work[w].s = s /\ work[w].op = "staff" /\ work[w].pc \in {"hours", "adjust"}}

\* The transactions that have made their checks and have not committed.
Checked(op) ==
    {w \in Workers : work[w].op \in op
                     /\ work[w].pc \in {"insert", "inserted", "refer", "hours", "adjust"}}

Crossing(w, op) == {{work[w].s, work[v].s} : v \in Checked(op) \ {w}}

-----------------------------------------------------------------------------
(* AdminSessionCreate: the session, and then its teacher                   *)

Goes(w, q) == work' = [work EXCEPT ![w] = q]
Proceed(w, pc) == Goes(w, [work[w] EXCEPT !.pc = pc])

\* The id comes from the sequence before any trigger runs.
AdminSessionCreate(w) ==
    /\ work[w].pc = "idle" /\ lastSession < MaxSessions
    /\ \E row \in SessionForms, t \in Teachers \cup {Unstaffed} :
          /\ Lasts(row) > 0
          /\ Goes(w, [Resting EXCEPT !.pc = "check", !.op = "create", !.s = lastSession + 1,
                                     !.t = t, !.row = row])
    /\ lastSession' = lastSession + 1
    /\ UNCHANGED <<sessions, staffing, booked, crossed, paired, relocated>>

\* BEFORE INSERT OR UPDATE ON class_sessions
CheckGroup(w) ==
    /\ work[w].pc = "check"
    /\ ~ GroupTaken(work[w].s, work[w].row)
    /\ Proceed(w, "insert")
    /\ crossed' = crossed \cup Crossing(w, {"create", "move"})
    /\ UNCHANGED <<sessions, staffing, booked, lastSession, paired, relocated>>

CreateSession(w) ==
    /\ work[w].pc = "insert" /\ work[w].op = "create"
    /\ ~ Contested(w)
    /\ Proceed(w, "inserted")
    /\ UNCHANGED <<sessions, staffing, booked, lastSession, crossed, paired, relocated>>

CommitCreate(w) ==
    LET q == work[w]
    IN  /\ q.pc = "inserted"
        /\ sessions' = [sessions EXCEPT ![q.s] = q.row]
        /\ Goes(w, IF q.t = Unstaffed THEN Resting
                   ELSE [Resting EXCEPT !.pc = "vet", !.op = "staff", !.s = q.s, !.t = q.t])
        /\ UNCHANGED <<staffing, booked, lastSession, crossed, paired, relocated>>

\* BEFORE INSERT ON session_teachers, and the insert
AddSessionTeacher(w) ==
    /\ work[w].pc = "vet"
    /\ ~ TeacherTaken(work[w].t, work[w].s)
    /\ Proceed(w, "refer")
    /\ paired' = paired \cup Crossing(w, {"staff"})
    /\ UNCHANGED <<sessions, staffing, booked, lastSession, crossed, relocated>>

\* Mutant: an update that leaves the key columns alone, which a foreign key
\* does not wait for.
ReferMeanwhile(w) ==
    /\ work[w].pc = "refer"
    /\ work[w].s \in Present /\ \A v \in Changing(work[w].s) : work[v].op = "move"
    /\ Proceed(w, "hours")
    /\ UNCHANGED <<sessions, staffing, booked, lastSession, crossed, paired, relocated>>

\* The foreign key: the session must be there, and stay.
Refer(w) ==
    /\ work[w].pc = "refer"
    /\ work[w].s \in Present /\ Changing(work[w].s) = {}
    /\ Proceed(w, "hours")
    /\ UNCHANGED <<sessions, staffing, booked, lastSession, crossed, paired, relocated>>

Entry(t, row, hours) == [key |-> <<t, YearOf[row.day]>>, delta |-> hours]

\* fn_session_teacher_hours
ReadHours(w) ==
    LET q == work[w]
        row == sessions[q.s]
    IN  /\ q.pc = "hours"
        /\ Goes(w, [q EXCEPT !.pc = "adjust", !.todo = <<Entry(q.t, row, Lasts(row))>>])
        /\ UNCHANGED <<sessions, staffing, booked, lastSession, crossed, paired, relocated>>

CommitStaff(w) ==
    LET q == work[w]
    IN  /\ q.pc = "adjust" /\ q.op = "staff" /\ q.todo = <<>>
        /\ staffing' = [staffing EXCEPT ![q.s] = q.t]
        /\ booked' = [b \in YearlyBalances |-> IF b \in DOMAIN q.held THEN q.held[b] ELSE booked[b]]
        /\ Goes(w, Resting)
        /\ UNCHANGED <<sessions, lastSession, crossed, paired, relocated>>

\* The teacher is refused, and DeleteSession follows.
UndoCreate(w) ==
    /\ work[w].op = "staff"
    /\ Goes(w, [Resting EXCEPT !.pc = "lock", !.op = "delete", !.s = work[w].s])
    /\ UNCHANGED <<sessions, staffing, booked, lastSession, crossed, paired, relocated>>

-----------------------------------------------------------------------------
(* fn_adjust_teacher_balance: the row is locked, read, checked and updated  *)

Holds(w, key) == key \in DOMAIN work[w].held

\* Mutant: without FOR UPDATE.
AdjustUnlocked(w) ==
    LET q == work[w]
        key == Head(q.todo).key
        delta == Head(q.todo).delta
        current == IF Holds(w, key) THEN q.held[key] ELSE booked[key]
        after == IF current + delta < 0 THEN 0 ELSE current + delta
    IN  /\ q.pc = "adjust" /\ q.todo # <<>>
        /\ delta > 0 => current + delta <= YearCap[key[1]]
        /\ Goes(w, [q EXCEPT !.todo = Tail(@),
                             !.held = [b \in DOMAIN q.held \cup {key} |->
                                          IF b = key THEN after ELSE q.held[b]]])
        /\ UNCHANGED <<sessions, staffing, booked, lastSession, crossed, paired, relocated>>

AdjustBalance(w) ==
    LET q == work[w]
        key == Head(q.todo).key
        delta == Head(q.todo).delta
        current == IF Holds(w, key) THEN q.held[key] ELSE booked[key]
        after == IF current + delta < 0 THEN 0 ELSE current + delta
    IN  /\ q.pc = "adjust" /\ q.todo # <<>>
        /\ \A v \in Workers \ {w} : ~ Holds(v, key)
        /\ delta > 0 => current + delta <= YearCap[key[1]]
        /\ Goes(w, [q EXCEPT !.todo = Tail(@),
                             !.held = [b \in DOMAIN q.held \cup {key} |->
                                          IF b = key THEN after ELSE q.held[b]]])
        /\ UNCHANGED <<sessions, staffing, booked, lastSession, crossed, paired, relocated>>

-----------------------------------------------------------------------------
(* UpdateSession, DeleteSession                                            *)

\* The class of a session is not on the form.
AdminSessionUpdate(w) ==
    /\ work[w].pc = "idle"
    /\ \E s \in Present : \E row \in {r \in SessionForms : r.class = sessions[s].class} :
          /\ Lasts(row) > 0
          /\ Goes(w, [Resting EXCEPT !.pc = "lock", !.op = "move", !.s = s, !.row = row])
    /\ UNCHANGED <<sessions, staffing, booked, lastSession, crossed, paired, relocated>>

AdminSessionDelete(w) ==
    /\ work[w].pc = "idle"
    /\ \E s \in Present : Goes(w, [Resting EXCEPT !.pc = "lock", !.op = "delete", !.s = s])
    /\ UNCHANGED <<sessions, staffing, booked, lastSession, crossed, paired, relocated>>

LockSession(w) ==
    LET q == work[w]
    IN  /\ q.pc = "lock"
        /\ q.s \in Present /\ Changing(q.s) = {} /\ Referring(q.s) = {}
        /\ Proceed(w, IF q.op = "move" THEN "check" ELSE "delete")
        /\ UNCHANGED <<sessions, staffing, booked, lastSession, crossed, paired, relocated>>

\* fn_session_change_hours, for the teacher that is on the session by now
UpdateSession(w) ==
    LET q == work[w]
        old == sessions[q.s]
        t == staffing[q.s]
        same == <<old.day, old.from, old.to>> = <<q.row.day, q.row.from, q.row.to>>
    IN  /\ q.pc = "insert" /\ q.op = "move"
        /\ ~ Contested(w)
        /\ Goes(w, [q EXCEPT !.pc = "adjust",
                             !.todo = IF same \/ t = Unstaffed THEN <<>>
                                      ELSE <<Entry(t, old, -Lasts(old)), Entry(t, q.row, Lasts(q.row))>>])
        /\ UNCHANGED <<sessions, staffing, booked, lastSession, crossed, paired, relocated>>

\* A teacher whose check read the session before it moved is on it, or coming.
CommitMove(w) ==
    LET q == work[w]
        coming == {v \in Checked({"staff"}) : work[v].s = q.s}
    IN  /\ q.pc = "adjust" /\ q.op = "move" /\ q.todo = <<>>
        /\ sessions' = [sessions EXCEPT ![q.s] = q.row]
        /\ booked' = [b \in YearlyBalances |-> IF b \in DOMAIN q.held THEN q.held[b] ELSE booked[b]]
        /\ relocated' = IF staffing[q.s] # Unstaffed \/ coming # {}
                        THEN relocated \cup {q.s} ELSE relocated
        /\ Goes(w, Resting)
        /\ UNCHANGED <<staffing, lastSession, crossed, paired>>

\* The teacher goes with the session; fn_session_teacher_hours finds none, and
\* refunds nothing.
DeleteSession(w) ==
    LET q == work[w]
    IN  /\ q.pc = "delete"
        /\ sessions' = [sessions EXCEPT ![q.s] = NoSession]
        /\ staffing' = [staffing EXCEPT ![q.s] = Unstaffed]
        /\ Goes(w, Resting)
        /\ UNCHANGED <<booked, lastSession, crossed, paired, relocated>>

\* A statement is refused, is the victim of a deadlock, or ends with its
\* client or the server; the next ones are not sent.
Abort(w) ==
    /\ work[w].pc # "idle"
    /\ Goes(w, Resting)
    /\ UNCHANGED <<sessions, staffing, booked, lastSession, crossed, paired, relocated>>

-----------------------------------------------------------------------------
ConcurrentNext ==
    \E w \in Workers :
        \/ AdminSessionCreate(w) \/ CheckGroup(w) \/ CreateSession(w) \/ CommitCreate(w)
        \/ AddSessionTeacher(w) \/ Refer(w) \/ ReadHours(w) \/ CommitStaff(w) \/ UndoCreate(w)
        \/ AdjustBalance(w)
        \/ AdminSessionUpdate(w) \/ AdminSessionDelete(w) \/ LockSession(w)
        \/ UpdateSession(w) \/ CommitMove(w) \/ DeleteSession(w)
        \/ Abort(w)

ConcurrentSpec == ConcurrentInit /\ [][ConcurrentNext]_concurrentVars
-----------------------------------------------------------------------------
(* Properties                                                              *)

Account == INSTANCE Ledger WITH
    Accounts  <- YearlyBalances,
    Bookable  <- SessionIds,
    NoBooking <- NoSession,
    Amounts   <- {Lasts(row) : row \in {r \in SessionForms : Lasts(r) > 0}},
    Cap       <- [b \in YearlyBalances |-> YearCap[b[1]]],
    bookings  <- [s \in SessionIds |->
                     IF s \in Present /\ staffing[s] # Unstaffed
                     THEN [account |-> <<staffing[s], YearOf[sessions[s].day]>>,
                           hours |-> Lasts(sessions[s])]
                     ELSE NoSession],
    balance   <- booked

\* Whatever runs together, the balances are an account of the sessions: each
\* commit charges, or refunds and charges, exactly what its session lasts now,
\* and a deleted session keeps its hours.
HoursAreAnAccount == Account!LedgerSpec

\* So a balance covers the hours on the timetable and keeps to the cap.
BalancesCover == Account!Balanced

\* Two sessions of one intake group meet only when both were checked while
\* the other was not yet committed.
GroupsApartUnlessRacing ==
    \A s, q \in Present :
        /\ s # q /\ Meet(sessions[s], sessions[q])
        /\ GroupOf[sessions[s].class] = GroupOf[sessions[q].class]
        /\ GroupOf[sessions[s].class] # Ungrouped
        => {s, q} \in crossed

\* A teacher's sessions meet only when the teacher was put on both at the same
\* time, or one of them was moved with the teacher on it or coming.
TeachersApartUnlessRacing ==
    \A s, q \in Present :
        /\ s # q /\ Meet(sessions[s], sessions[q])
        /\ staffing[s] = staffing[q] /\ staffing[s] # Unstaffed
        => {s, q} \in paired \/ s \in relocated \/ q \in relocated
=============================================================================
