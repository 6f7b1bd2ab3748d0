------------------------------ MODULE Timetable ------------------------------
(***************************************************************************)
(* Class sessions, the teachers on them and the teaching-hour balances.    *)
(*                                                                         *)
(* The state is the part of the PostgreSQL database that the session       *)
(* screens read and write, with the triggers and constraints of nvims.sql  *)
(* folded into the statement that fires them, and the web requests that    *)
(* issue more than one statement.  One statement, or one bulk transaction, *)
(* is one step: requests interleave between statements, and a request may  *)
(* be cut off between two of them (the client goes away, which cancels the *)
(* request's context, or the server stops).                                *)
(*                                                                         *)
(* A constraint and a row lock wait for the other transactions and see     *)
(* what they did.  A conflict trigger does not: it queries the rows that   *)
(* are committed, and others may commit theirs between its query and the   *)
(* end of its transaction.  With Racing the answer of such a query says    *)
(* nothing of the rows that are there when the step takes effect, and the  *)
(* trigger may let it pass or refuse it; without, nobody else is at work.  *)
(* The races themselves are taken apart in Concurrent.                     *)
(*                                                                         *)
(* A date is a day number and a time of day an hour number.  Every weekly  *)
(* recurrence adds Week days (7 in the code).  No code under src/ ever     *)
(* sets class_sessions.cancelled or a session_teachers.role other than     *)
(* 'Lead', so neither column is kept.                                      *)
(***************************************************************************)
EXTENDS Integers, FiniteSets

CONSTANTS
    Teachers, Classes, Rooms, Groups, Periods,
    InitialClasses, \* the classes there are at the start
    SessionIds,     \* bound: rows that class_sessions can hold
    Requests,       \* bound: multi-statement requests under way at once
    Days,           \* bound: the dates sessions can fall on
    Years,
    YearOf,         \* [Days -> Years]
    Week,
    Hours,          \* the start and end times a form can carry
    Forms,          \* bound: the session forms submitted, a set of rows
    ClassForms,     \* bound: the class forms submitted, a set of rows
    PeriodEnds,     \* bound: the period ends a repeat or autofill runs to
    YearCap,        \* teachers.default_max_hours_per_year
    PeriodCap,      \* teachers.max_hours_per_period, NoCap when NULL
    Racing,         \* whether other transactions may commit in the middle of a step
    NoCap, NoRoom, NoGroup, NoClass, NoSession

SessionRow ==
    [class: Classes, day: Days, start: Hours, end: Hours, room: Rooms \cup {NoRoom}]

ClassRow == [period: Periods, group: Groups \cup {NoGroup}]

ASSUME FiniteAssumption ==
    /\ IsFiniteSet(SessionIds)
    /\ IsFiniteSet(Days)

ASSUME CalendarAssumption ==
    /\ Days \subseteq Nat \ {0}
    /\ Hours \subseteq 0 .. 24
    /\ Week \in Nat \ {0}
    /\ YearOf \in [Days -> Years]

ASSUME CapAssumption ==
    /\ YearCap \in [Teachers -> Nat]
    /\ PeriodCap \in [Teachers -> Nat \cup {NoCap}]

ASSUME RacingAssumption == Racing \in BOOLEAN

ASSUME FormsAssumption ==
    /\ Forms \subseteq SessionRow
    /\ ClassForms \subseteq ClassRow
    /\ PeriodEnds \subseteq Days
    /\ InitialClasses \in [Classes -> ClassRow \cup {NoClass}]

ASSUME NullAssumption ==
    /\ NoSession \notin SessionRow \cup SessionIds
    /\ NoRoom \notin Rooms
    /\ NoGroup \notin Groups
    /\ NoClass \notin ClassRow

VARIABLES
    classes,        \* classes: id -> period and intake group
    sessions,       \* class_sessions: id -> row
    staffing,       \* session_teachers: session id -> teachers
    booked,         \* teacher_yearly_balances.booked_hours
    periodBooked,   \* teacher_period_allocations.booked_hours
    requests        \* requests between two of their statements

vars == <<classes, sessions, staffing, booked, periodBooked, requests>>

balances == <<booked, periodBooked>>

Idle == [pc |-> "idle", sid |-> NoSession, row |-> NoSession, teachers |-> {}, until |-> 0]

Request ==
    [pc: {"idle", "assign", "undo", "autofill", "readteachers", "repeat"},
     sid: SessionIds \cup {NoSession},
     row: SessionRow \cup {NoSession},
     teachers: SUBSET Teachers,
     until: Days \cup {0}]

TypeOK ==
    /\ classes \in [Classes -> ClassRow \cup {NoClass}]
    /\ sessions \in [SessionIds -> SessionRow \cup {NoSession}]
    /\ staffing \in [SessionIds -> SUBSET Teachers]
    /\ booked \in [Teachers -> [Years -> Nat]]
    /\ periodBooked \in [Teachers -> [Periods -> Nat]]
    /\ requests \in [Requests -> Request]

Init ==
    /\ classes = InitialClasses
    /\ sessions = [s \in SessionIds |-> NoSession]
    /\ staffing = [s \in SessionIds |-> {}]
    /\ booked = [t \in Teachers |-> [y \in Years |-> 0]]
    /\ periodBooked = [t \in Teachers |-> [p \in Periods |-> 0]]
    /\ requests = [r \in Requests |-> Idle]

-----------------------------------------------------------------------------
(* The rows present, and what the constraints and triggers look at. *)

Live == {s \in SessionIds : sessions[s] # NoSession}

\* A bigserial id is never handed out twice: not to a row while another has
\* it, and not while a request still remembers a deleted row's id.
FreshIds == (SessionIds \ Live) \ {requests[r].sid : r \in Requests}

Length(row) == row.end - row.start

\* timerange(a) && timerange(b) on one date: the ranges are half-open
Overlap(a, b) == a.day = b.day /\ a.start < b.end /\ b.start < a.end

\* What fn_check_group_session_conflict, BEFORE INSERT OR UPDATE ON
\* class_sessions, looks for
GroupClash(s, row) ==
    /\ classes[row.class] # NoClass
    /\ classes[row.class].group # NoGroup
    /\ \E q \in Live \ {s} :
        /\ classes[sessions[q].class].group = classes[row.class].group
        /\ Overlap(sessions[q], row)

\* Mutant: the constraint without timerange, UNIQUE (room, date, start).
RoomTaken(s, row) ==
    /\ row.room # NoRoom
    /\ \E q \in Live \ {s} :
        /\ sessions[q].room = row.room
        /\ sessions[q].day = row.day /\ sessions[q].start = row.start

\* EXCLUDE constraint no_room_session_double_booking
RoomClash(s, row) ==
    /\ row.room # NoRoom
    /\ \E q \in Live \ {s} :
        sessions[q].room = row.room /\ Overlap(sessions[q], row)

\* uq_session_natural, the target of every ON CONFLICT DO NOTHING
SlotTaken(s, row) ==
    \E q \in Live \ {s} :
        /\ sessions[q].class = row.class
        /\ sessions[q].day = row.day
        /\ sessions[q].start = row.start

\* What fn_check_teacher_session_conflict, BEFORE INSERT ON session_teachers,
\* looks for
TeacherClash(t, s, row) ==
    \E q \in Live \ {s} : t \in staffing[q] /\ Overlap(sessions[q], row)

\* A conflict trigger that looks for clash may let the row pass.
Passes(clash) == Racing \/ ~clash

\* It may raise its exception.
Raises(clash) == Racing \/ clash

-----------------------------------------------------------------------------
(* Balances: fn_adjust_teacher_balance, fn_adjust_teacher_period_balance. *)

\* Mutant: without GREATEST.
AdjustedFreely(balance, key, delta) == [balance EXCEPT ![key] = @ + delta]

\* booked_hours = GREATEST(booked_hours + delta, 0)
Adjusted(balance, key, delta) ==
    [balance EXCEPT ![key] = IF @ + delta < 0 THEN 0 ELSE @ + delta]

\* Mutant: the balance is compared before the hours are added.
ExceedsAlready(balance, key, delta, cap) == delta > 0 /\ balance[key] > cap

Exceeds(balance, key, delta, cap) == delta > 0 /\ balance[key] + delta > cap

\* Hours that sessions like row on each of days add to year y.
YearHours(row, days, y) ==
    Length(row) * Cardinality({d \in days : YearOf[d] = y})

\* fn_session_teacher_hours on insert would pass a cap for one of teachers,
\* were they put on sessions like row on each of days.
CapRefuses(teachers, row, days) ==
    \E t \in teachers :
        \/ \E y \in Years : Exceeds(booked[t], y, YearHours(row, days, y), YearCap[t])
        \/ /\ PeriodCap[t] # NoCap
           /\ Exceeds(periodBooked[t], classes[row.class].period,
                      Length(row) * Cardinality(days), PeriodCap[t])

\* The balances once those hours are added.
HoursCharged(teachers, row, days) ==
    /\ booked' = [t \in Teachers |->
            IF t \in teachers
            THEN [y \in Years |-> booked[t][y] + YearHours(row, days, y)]
            ELSE booked[t]]
    /\ periodBooked' = [t \in Teachers |->
            IF t \in teachers /\ PeriodCap[t] # NoCap
            THEN Adjusted(periodBooked[t], classes[row.class].period,
                          Length(row) * Cardinality(days))
            ELSE periodBooked[t]]

\* fn_session_change_hours: the old hours come off the old row's year, the new
\* ones go on the new row's year; both sides use the class's present period.
Refunded(t, old) == Adjusted(booked[t], YearOf[old.day], -Length(old))

PeriodRefunded(t, old) ==
    Adjusted(periodBooked[t], classes[old.class].period, -Length(old))

\* Mutant: the early return forgets the times.
DateChanged(old, row) == old.day # row.day

HoursChanged(old, row) ==
    <<old.start, old.end, old.day>> # <<row.start, row.end, row.day>>

MoveRefused(s, row) ==
    /\ HoursChanged(sessions[s], row)
    /\ \E t \in staffing[s] :
        \/ Exceeds(Refunded(t, sessions[s]), YearOf[row.day], Length(row), YearCap[t])
        \/ /\ PeriodCap[t] # NoCap
           /\ Exceeds(PeriodRefunded(t, sessions[s]), classes[row.class].period,
                      Length(row), PeriodCap[t])

HoursMoved(s, row) ==
    /\ booked' = [t \in Teachers |->
            IF t \in staffing[s] /\ HoursChanged(sessions[s], row)
            THEN Adjusted(Refunded(t, sessions[s]), YearOf[row.day], Length(row))
            ELSE booked[t]]
    /\ periodBooked' = [t \in Teachers |->
            IF t \in staffing[s] /\ HoursChanged(sessions[s], row) /\ PeriodCap[t] # NoCap
            THEN Adjusted(PeriodRefunded(t, sessions[s]), classes[row.class].period,
                          Length(row))
            ELSE periodBooked[t]]

-----------------------------------------------------------------------------
(* Bulk transactions: BulkCreateSessions, and the second half of           *)
(* RepeatSessionWeekly.  The loops go on after an error, but the error has *)
(* aborted the transaction: every later statement fails and Commit rolls   *)
(* back.  The dates of a batch differ, so its rows cannot clash with each  *)
(* other, and only the hours add up over it.                               *)

OnDay(row, d) == [row EXCEPT !.day = d]

\* Mutant: dates on which the room is taken are passed over, and the rest kept.
MissingAndFree(row, days) ==
    {d \in days : ~SlotTaken(NoSession, OnDay(row, d)) /\ ~RoomClash(NoSession, OnDay(row, d))}

\* The dates for which INSERT ... ON CONFLICT DO NOTHING inserts a row.
Missing(row, days) == {d \in days : ~SlotTaken(NoSession, OnDay(row, d))}

\* A row of the batch violates a constraint or passes a cap.
BatchRefused(row, days, teachers) ==
    /\ days # {}
    /\ (classes[row.class] # NoClass /\ row.start < row.end) =>
        \/ \E d \in Missing(row, days) : RoomClash(NoSession, OnDay(row, d))
        \/ CapRefuses(teachers, row, Missing(row, days))

\* A row of the batch clashes for a conflict trigger.  The BEFORE triggers of
\* class_sessions come before ON CONFLICT is looked at, that of
\* session_teachers after.
BatchClashes(row, days, teachers) ==
    \/ \E d \in days : GroupClash(NoSession, OnDay(row, d))
    \/ \E d \in Missing(row, days), t \in teachers :
            TeacherClash(t, NoSession, OnDay(row, d))

BatchCommits(row, days, teachers) ==
    /\ ~BatchRefused(row, days, teachers)
    /\ Passes(BatchClashes(row, days, teachers))
    /\ \E id \in [Missing(row, days) -> FreshIds] :
        /\ \A d, e \in Missing(row, days) : id[d] = id[e] => d = e
        /\ sessions' = [s \in SessionIds |->
                IF \E d \in Missing(row, days) : id[d] = s
                THEN OnDay(row, CHOOSE d \in Missing(row, days) : id[d] = s)
                ELSE sessions[s]]
        /\ staffing' = [s \in SessionIds |->
                IF \E d \in Missing(row, days) : id[d] = s THEN teachers ELSE staffing[s]]
    /\ IF days = {}
       THEN UNCHANGED balances
       ELSE HoursCharged(teachers, row, Missing(row, days))

BatchRolledBack(row, days, teachers) ==
    /\ days # {}
    /\ BatchRefused(row, days, teachers) \/ Raises(BatchClashes(row, days, teachers))
    /\ UNCHANGED <<sessions, staffing, balances>>

\* The dates Week, 2 * Week, ... after day, up to and including until.
WeeklyAfter(day, until) ==
    {d \in Days : d > day /\ d <= until /\ (d - day) % Week = 0}

-----------------------------------------------------------------------------
(* AdminSessionCreate: insert the session, then its teacher, then fill the *)
(* weeks that follow.  A refusal of the first statement changes nothing.   *)

Finish(r) == requests' = [requests EXCEPT ![r] = Idle]

\* What is left of a create once its session stands: the weeks to fill, if any.
ThenAutofill(row, teachers, until) ==
    IF WeeklyAfter(row.day, until) = {}
    THEN Idle
    ELSE [pc |-> "autofill", sid |-> NoSession, row |-> row,
          teachers |-> teachers, until |-> until]

CreateSession(r) ==
    /\ requests[r].pc = "idle"
    /\ \E row \in Forms, s \in FreshIds, until \in PeriodEnds,
          teachers \in {{}} \cup {{t} : t \in Teachers} :
        /\ row.start < row.end
        /\ classes[row.class] # NoClass
        /\ Passes(GroupClash(s, row))
        /\ ~SlotTaken(s, row)
        /\ ~RoomClash(s, row)
        /\ sessions' = [sessions EXCEPT ![s] = row]
        /\ requests' = [requests EXCEPT ![r] =
                IF teachers = {}
                THEN ThenAutofill(row, {}, until)
                ELSE [pc |-> "assign", sid |-> s, row |-> row,
                      teachers |-> teachers, until |-> until]]
    /\ UNCHANGED <<classes, staffing, balances>>

\* AddSessionTeacher cannot succeed: the session is gone (foreign key), or a cap
\* would be passed.
TeacherRefused(t, s) ==
    s \in Live => CapRefuses({t} \ staffing[s], sessions[s], {sessions[s].day})

AddSessionTeacher(r) ==
    LET q == requests[r]
        s == q.sid
    IN
    /\ q.pc = "assign"
    /\ \A t \in q.teachers :
        ~TeacherRefused(t, s) /\ Passes(TeacherClash(t, s, sessions[s]))
    /\ staffing' = [staffing EXCEPT ![s] = @ \cup q.teachers]
    /\ HoursCharged(q.teachers \ staffing[s], sessions[s], {sessions[s].day})
    /\ requests' = [requests EXCEPT ![r] = ThenAutofill(q.row, q.teachers, q.until)]
    /\ UNCHANGED <<classes, sessions>>

AddSessionTeacherFails(r) ==
    LET s == requests[r].sid IN
    /\ requests[r].pc = "assign"
    /\ \E t \in requests[r].teachers :
        \/ TeacherRefused(t, s)
        \/ s \in Live /\ Raises(TeacherClash(t, s, sessions[s]))
    /\ requests' = [requests EXCEPT ![r] = [Idle EXCEPT !.pc = "undo", !.sid = s]]
    /\ UNCHANGED <<classes, sessions, staffing, balances>>

\* Rows of class_sessions go, and ON DELETE CASCADE takes their teachers with
\* them.  fn_session_teacher_hours runs for every teacher removed, but the
\* session it looks up is no longer there: COALESCE(v_cancelled, true), so the
\* balances stay as they are.
Removed(ids) ==
    /\ sessions' = [s \in SessionIds |-> IF s \in ids THEN NoSession ELSE sessions[s]]
    /\ staffing' = [s \in SessionIds |-> IF s \in ids THEN {} ELSE staffing[s]]
    /\ UNCHANGED balances

\* The compensating DeleteSession.
UndoCreate(r) ==
    /\ requests[r].pc = "undo"
    /\ Removed({requests[r].sid})
    /\ Finish(r)
    /\ UNCHANGED classes

\* BulkCreateSessions with the form's values; its error is only logged.
Autofill(r) ==
    LET q == requests[r]
        days == WeeklyAfter(q.row.day, q.until)
    IN
    /\ q.pc = "autofill"
    /\ \/ BatchCommits(q.row, days, q.teachers)
       \/ BatchRolledBack(q.row, days, q.teachers)
    /\ Finish(r)
    /\ UNCHANGED classes

\* The request ends between two statements.  Its context is cancelled, so the
\* compensating delete of a refused session does not run either.
Abandon(r) ==
    /\ requests[r].pc # "idle"
    /\ Finish(r)
    /\ UNCHANGED <<classes, sessions, staffing, balances>>

-----------------------------------------------------------------------------
(* RepeatSessionWeekly: read the session, read its teachers, then copy both *)
(* into the weeks that follow in one transaction.                           *)

ReadTemplate(r) ==
    /\ requests[r].pc = "idle"
    /\ \E s \in Live, until \in PeriodEnds :
        /\ sessions[s].day < until
        /\ requests' = [requests EXCEPT ![r] =
                [pc |-> "readteachers", sid |-> s, row |-> sessions[s],
                 teachers |-> {}, until |-> until]]
    /\ UNCHANGED <<classes, sessions, staffing, balances>>

ReadTemplateTeachers(r) ==
    /\ requests[r].pc = "readteachers"
    /\ requests' = [requests EXCEPT ![r].pc = "repeat",
                                    ![r].sid = NoSession,
                                    ![r].teachers = staffing[requests[r].sid]]
    /\ UNCHANGED <<classes, sessions, staffing, balances>>

RepeatSessionWeekly(r) ==
    LET q == requests[r]
        days == WeeklyAfter(q.row.day, q.until)
    IN
    /\ q.pc = "repeat"
    /\ \/ BatchCommits(q.row, days, q.teachers)
       \/ BatchRolledBack(q.row, days, q.teachers)
    /\ Finish(r)
    /\ UNCHANGED classes

-----------------------------------------------------------------------------
(* Single-statement operations. *)

Roomless(form) == [form EXCEPT !.room = NoRoom]

ChosenDays(from, to, weekdays) ==
    {d \in Days : from <= d /\ d <= to /\ d % Week \in weekdays}

\* AdminSessionsGenerate: the chosen weekdays between two dates, without room
\* or teacher.
GenerateSessions ==
    /\ \E form \in Forms, from, to \in Days, weekdays \in SUBSET (0 .. Week - 1) :
        /\ from <= to
        /\ weekdays # {}
        /\ BatchCommits(Roomless(form), ChosenDays(from, to, weekdays), {})
    /\ UNCHANGED <<classes, requests>>

\* AdminSessionUpdate.  No trigger looks at the session's teachers' other
\* sessions when a session moves.
UpdateSession ==
    /\ \E s \in Live, form \in Forms :
        LET row == [form EXCEPT !.class = sessions[s].class] IN
        /\ row.start < row.end
        /\ Passes(GroupClash(s, row))
        /\ ~SlotTaken(s, row)
        /\ ~RoomClash(s, row)
        /\ ~MoveRefused(s, row)
        /\ sessions' = [sessions EXCEPT ![s] = row]
        /\ HoursMoved(s, row)
    /\ UNCHANGED <<classes, staffing, requests>>

DeleteSession ==
    /\ \E s \in Live : Removed({s})
    /\ UNCHANGED <<classes, requests>>

SessionsOf(c) == {s \in Live : sessions[s].class = c}

DeleteSessionsForClass ==
    /\ \E c \in Classes : SessionsOf(c) # {} /\ Removed(SessionsOf(c))
    /\ UNCHANGED <<classes, requests>>

CreateClass ==
    /\ \E c \in Classes, row \in ClassForms :
        /\ classes[c] = NoClass
        /\ classes' = [classes EXCEPT ![c] = row]
    /\ UNCHANGED <<sessions, staffing, balances, requests>>

\* AdminClassUpdate moves a class to any period and group, its sessions with it.
UpdateClass ==
    /\ \E c \in Classes, row \in ClassForms :
        /\ classes[c] # NoClass
        /\ classes' = [classes EXCEPT ![c] = row]
    /\ UNCHANGED <<sessions, staffing, balances, requests>>

DeleteClass ==
    /\ \E c \in Classes :
        /\ classes[c] # NoClass
        /\ classes' = [classes EXCEPT ![c] = NoClass]
        /\ Removed(SessionsOf(c))
    /\ UNCHANGED requests

-----------------------------------------------------------------------------
Next ==
    \/ \E r \in Requests :
        \/ CreateSession(r)
        \/ AddSessionTeacher(r)
        \/ AddSessionTeacherFails(r)
        \/ UndoCreate(r)
        \/ Autofill(r)
        \/ ReadTemplate(r)
        \/ ReadTemplateTeachers(r)
        \/ RepeatSessionWeekly(r)
        \/ Abandon(r)
    \/ GenerateSessions
    \/ UpdateSession
    \/ DeleteSession
    \/ DeleteSessionsForClass
    \/ CreateClass
    \/ UpdateClass
    \/ DeleteClass

Spec == Init /\ [][Next]_vars

-----------------------------------------------------------------------------
(* Safety. *)

\* No room holds two sessions at once, whatever mix of single creates, bulk
\* transactions and edits put them there (nvims.sql:1113).
NoRoomDoubleBooking ==
    \A s, q \in Live :
        (s # q /\ sessions[s].room = sessions[q].room /\ sessions[s].room # NoRoom)
            => ~Overlap(sessions[s], sessions[q])

\* No balance ever passes its cap, yearly or per period: the triggers check
\* the sum before they write it (nvims.sql:1808, 1846).
CapsRespected ==
    \A t \in Teachers :
        /\ \A y \in Years : booked[t][y] <= YearCap[t]
        /\ PeriodCap[t] # NoCap =>
            \A p \in Periods : periodBooked[t][p] <= PeriodCap[t]

TaughtSessions(t, y) ==
    {s \in Live : t \in staffing[s] /\ YearOf[sessions[s].day] = y}

\* The hours of year y that teacher t is on the timetable for, one element to
\* an hour of a session.
TaughtHours(t, y) ==
    UNION {{s} \X (sessions[s].start .. sessions[s].end - 1) : s \in TaughtSessions(t, y)}

\* A teacher's sessions in a year never add up to more than the balance says,
\* so the yearly cap binds what is taught and not only what is recorded: no
\* sequence of assigning, moving between years, repeating and deleting makes
\* the balance too small (nvims.sql:1861, 1908).
HoursCovered ==
    \A t \in Teachers, y \in Years : Cardinality(TaughtHours(t, y)) <= booked[t][y]

\* After the step, row's class has a session at row's date and start time.
HeldAfter(row) ==
    \E s \in SessionIds :
        /\ sessions'[s] # NoSession
        /\ sessions'[s].class = row.class
        /\ sessions'[s].day = row.day
        /\ sessions'[s].start = row.start

\* A batch that adds any session leaves a session on every date it was for
\* (store.go:3041, 2798): there is no half-filled term.
BatchCompletes ==
    [][\A r \in Requests :
        (requests[r].pc \in {"autofill", "repeat"} /\ requests'[r].pc = "idle"
            /\ sessions' # sessions) =>
                \A d \in WeeklyAfter(requests[r].row.day, requests[r].until) :
                    HeldAfter(OnDay(requests[r].row, d))]_vars

-----------------------------------------------------------------------------
(* What the repository's documents and comments say, and the code does not. *)

\* DATABASE.md: teacher_yearly_balances is the maintained cache of the hours
\* in class_sessions and session_teachers.
BalanceIsCacheOfSessions ==
    \A t \in Teachers, y \in Years : booked[t][y] = Cardinality(TaughtHours(t, y))

Clashing(t, s, q) ==
    /\ s # q
    /\ t \in staffing[s] /\ t \in staffing[q]
    /\ s \in Live /\ q \in Live
    /\ Overlap(sessions[s], sessions[q])

\* DATABASE.md: a trigger prevents a teacher in two overlapping sessions.
NoTeacherDoubleBooking ==
    \A t \in Teachers, s, q \in SessionIds : ~Clashing(t, s, q)

\* The weeks that a repeat or an autofill is for.
Weeks(r) ==
    {OnDay(requests[r].row, d) : d \in WeeklyAfter(requests[r].row.day, requests[r].until)}

\* The class is gone, or the hours asked for may pass a cap.
ClassOrCapInTheWay(r) ==
    \/ classes[requests[r].row.class] = NoClass
    \/ CapRefuses(requests[r].teachers, requests[r].row, Days)

TeacherBusy(r, row) ==
    \E t \in requests[r].teachers : TeacherClash(t, NoSession, row)

\* RepeatSessionWeekly's comment: "Teacher conflicts are silently skipped."
\* With no other obstacle, every week without a teacher conflict gets its
\* session.
TeacherConflictsAreSkipped ==
    [][\A r \in Requests :
        (/\ RepeatSessionWeekly(r)
         /\ ~ClassOrCapInTheWay(r)
         /\ \A row \in Weeks(r) : ~GroupClash(NoSession, row) /\ ~RoomClash(NoSession, row))
        => \A row \in Weeks(r) : TeacherBusy(r, row) \/ HeldAfter(row)]_vars

\* BulkCreateSessions' comment: it "inserts sessions idempotently, skipping
\* any that already exist."  With no other session in the way, every week
\* has its session afterwards.
ExistingSessionsAreSkipped ==
    [][\A r \in Requests :
        (/\ Autofill(r)
         /\ ~ClassOrCapInTheWay(r)
         /\ \A row \in Weeks(r) :
                ~SlotTaken(NoSession, row) =>
                    /\ ~GroupClash(NoSession, row)
                    /\ ~RoomClash(NoSession, row)
                    /\ ~TeacherBusy(r, row))
        => \A row \in Weeks(r) : HeldAfter(row)]_vars
=============================================================================
