--------------------------- MODULE TimetableProofs ---------------------------
(***************************************************************************)
(* What holds of the timetable for every set of teachers, rooms, classes,  *)
(* dates and hours.                                                        *)
(***************************************************************************)
EXTENDS Timetable, FiniteSetTheorems, TLAPS

USE FiniteAssumption, CalendarAssumption, CapAssumption, FormsAssumption, NullAssumption

\* A request carries the values that its next statement uses.
RequestInOrder(q) ==
    /\ q.pc \in {"assign", "readteachers"} => q.sid \in SessionIds
    /\ q.pc = "assign" => q.teachers # {}
    /\ q.pc \in {"assign", "autofill", "readteachers", "repeat"} => q.row \in SessionRow

WellFormed ==
    /\ \A s \in Live : sessions[s].start < sessions[s].end
    /\ \A r \in Requests : RequestInOrder(requests[r])

TypeInv == TypeOK /\ WellFormed

-----------------------------------------------------------------------------
(* The operators. *)

\* What a session row is made of.
LEMMA RowType ==
    ASSUME NEW row \in SessionRow
    PROVE  /\ row.class \in Classes /\ row.day \in Days
           /\ row.start \in 0 .. 24 /\ row.end \in 0 .. 24
           /\ Length(row) \in Int
           /\ row.start < row.end => Length(row) \in Nat
           /\ \A d \in Days : OnDay(row, d) \in SessionRow
BY DEF SessionRow, Length, OnDay

\* Adjusting one balance leaves balances.
LEMMA AdjustedType ==
    ASSUME NEW K, NEW b \in [K -> Nat], NEW k, NEW delta \in Int
    PROVE  Adjusted(b, k, delta) \in [K -> Nat]
<1>1. CASE k \in K
    BY <1>1 DEF Adjusted
<1>2. CASE k \notin K
    BY <1>2 DEF Adjusted
<1> QED
    BY <1>1, <1>2

\* The hours that days of one row add to a year are a number.
LEMMA YearHoursType ==
    ASSUME NEW row \in SessionRow, row.start < row.end,
           NEW days \in SUBSET Days, NEW y
    PROVE  /\ Cardinality(days) \in Nat
           /\ YearHours(row, days, y) \in Nat
<1>1. IsFiniteSet(days) /\ IsFiniteSet({d \in days : YearOf[d] = y})
    BY FS_Subset
<1>2. /\ Cardinality(days) \in Nat
      /\ Cardinality({d \in days : YearOf[d] = y}) \in Nat
    BY <1>1, FS_CardinalityType
<1>3. Length(row) \in Nat
    BY RowType
<1> QED
    BY <1>2, <1>3 DEF YearHours

\* Charging a batch leaves balances.
LEMMA ChargedType ==
    ASSUME TypeOK,
           NEW row \in SessionRow, row.start < row.end,
           NEW days \in SUBSET Days, NEW teachers,
           HoursCharged(teachers, row, days)
    PROVE  /\ booked' \in [Teachers -> [Years -> Nat]]
           /\ periodBooked' \in [Teachers -> [Periods -> Nat]]
<1>1. ASSUME NEW t \in Teachers
      PROVE  [y \in Years |-> booked[t][y] + YearHours(row, days, y)] \in [Years -> Nat]
    <2>1. \A y \in Years : YearHours(row, days, y) \in Nat
        BY YearHoursType
    <2>2. booked[t] \in [Years -> Nat]
        BY DEF TypeOK
    <2> QED
        BY <2>1, <2>2
<1>2. booked' \in [Teachers -> [Years -> Nat]]
    BY <1>1 DEF HoursCharged, TypeOK
<1>3. Length(row) * Cardinality(days) \in Int
    BY YearHoursType, RowType
<1>4. periodBooked' \in [Teachers -> [Periods -> Nat]]
    BY <1>3, AdjustedType DEF HoursCharged, TypeOK
<1> QED
    BY <1>2, <1>4

\* Refunding the old row and charging the new one leaves balances.
LEMMA MovedType ==
    ASSUME TypeOK, NEW s \in Live, NEW row \in SessionRow, HoursMoved(s, row)
    PROVE  /\ booked' \in [Teachers -> [Years -> Nat]]
           /\ periodBooked' \in [Teachers -> [Periods -> Nat]]
<1>1. sessions[s] \in SessionRow
    BY DEF TypeOK, Live
<1>2. -Length(sessions[s]) \in Int /\ Length(row) \in Int
    BY <1>1, RowType
<1>3. ASSUME NEW t \in Teachers
      PROVE  /\ Refunded(t, sessions[s]) \in [Years -> Nat]
             /\ PeriodRefunded(t, sessions[s]) \in [Periods -> Nat]
    BY <1>2, AdjustedType DEF Refunded, PeriodRefunded, TypeOK
<1>4. booked' \in [Teachers -> [Years -> Nat]]
    BY <1>2, <1>3, AdjustedType DEF HoursMoved, TypeOK
<1>5. periodBooked' \in [Teachers -> [Periods -> Nat]]
    BY <1>2, <1>3, AdjustedType DEF HoursMoved, TypeOK
<1> QED
    BY <1>4, <1>5

\* A row that a batch added: on a date that had none, with the batch's teachers.
Added(s, row, days, teachers) ==
    /\ s \notin Live
    /\ \E d \in Missing(row, days) : sessions'[s] = OnDay(row, d)
    /\ staffing'[s] = teachers

\* The rows that a batch added fall on different dates.
AddedOnDifferentDays(row, days, teachers) ==
    \A s, q \in SessionIds :
        (s # q /\ Added(s, row, days, teachers) /\ Added(q, row, days, teachers))
            => sessions'[s].day # sessions'[q].day

\* A batch leaves the rows there are and adds one to a missing date.
LEMMA BatchRows ==
    ASSUME TypeOK,
           NEW row \in SessionRow, NEW days \in SUBSET Days, NEW teachers,
           BatchCommits(row, days, teachers)
    PROVE  /\ sessions' = [s \in SessionIds |-> sessions'[s]]
           /\ staffing' = [s \in SessionIds |-> staffing'[s]]
           /\ \A s \in SessionIds :
                \/ sessions'[s] = sessions[s] /\ staffing'[s] = staffing[s]
                \/ Added(s, row, days, teachers)
           /\ AddedOnDifferentDays(row, days, teachers)
           /\ days # {} => row.start < row.end /\ classes[row.class] # NoClass
<1> DEFINE M == Missing(row, days)
<1>1. PICK id \in [M -> FreshIds] :
        /\ \A d, e \in M : id[d] = id[e] => d = e
        /\ sessions' = [s \in SessionIds |->
                IF \E d \in M : id[d] = s
                THEN OnDay(row, CHOOSE d \in M : id[d] = s)
                ELSE sessions[s]]
        /\ staffing' = [s \in SessionIds |->
                IF \E d \in M : id[d] = s THEN teachers ELSE staffing[s]]
    BY DEF BatchCommits
<1>2. \A d \in M : d \in Days /\ id[d] \notin Live /\ OnDay(row, d) \in SessionRow
                   /\ OnDay(row, d).day = d
    BY <1>1, RowType DEF Missing, FreshIds, OnDay, SessionRow
<1>3. ASSUME NEW d \in M, NEW s \in SessionIds, id[d] = s
      PROVE  sessions'[s] = OnDay(row, d) /\ Added(s, row, days, teachers)
    <2>1. (CHOOSE e \in M : id[e] = s) = d
        BY <1>1, <1>3
    <2> HIDE DEF M
    <2>2. sessions'[s] = OnDay(row, d) /\ staffing'[s] = teachers
        BY <1>1, <1>3, <2>1
    <2> QED
        BY <1>2, <1>3, <2>2 DEF Added, M
<1>4. ASSUME NEW s \in SessionIds, \A d \in M : id[d] # s
      PROVE  sessions'[s] = sessions[s] /\ staffing'[s] = staffing[s]
    BY <1>1, <1>4
<1>5. ASSUME NEW s \in SessionIds, NEW q \in SessionIds, s # q,
             Added(s, row, days, teachers), Added(q, row, days, teachers)
      PROVE  sessions'[s].day # sessions'[q].day
    <2>1. sessions'[s] \in SessionRow /\ sessions'[q] \in SessionRow
        BY <1>2, <1>5 DEF Added
    <2>2. sessions[s] = NoSession /\ sessions[q] = NoSession
        BY <1>5 DEF Added, Live
    <2>3. PICK d \in M : id[d] = s
        BY <1>4, <2>1, <2>2
    <2>4. PICK e \in M : id[e] = q
        BY <1>4, <2>1, <2>2
    <2> QED
        BY <1>2, <1>3, <1>5, <2>3, <2>4
<1>6. days # {} => row.start < row.end /\ classes[row.class] # NoClass
    BY DEF BatchCommits, BatchRefused
<1>7. /\ sessions' = [s \in SessionIds |-> sessions'[s]]
      /\ staffing' = [s \in SessionIds |-> staffing'[s]]
    BY <1>1
<1> HIDE DEF M
<1> QED
    BY <1>3, <1>4, <1>5, <1>6, <1>7 DEF AddedOnDifferentDays

-----------------------------------------------------------------------------
(* Type correctness. *)

\* What a batch of inserts leaves, committed or rolled back, has its type.
LEMMA BatchType ==
    ASSUME TypeInv,
           NEW row \in SessionRow, NEW days \in SUBSET Days, NEW teachers \in SUBSET Teachers,
           \/ BatchCommits(row, days, teachers)
           \/ BatchRolledBack(row, days, teachers)
    PROVE  /\ sessions' \in [SessionIds -> SessionRow \cup {NoSession}]
           /\ staffing' \in [SessionIds -> SUBSET Teachers]
           /\ booked' \in [Teachers -> [Years -> Nat]]
           /\ periodBooked' \in [Teachers -> [Periods -> Nat]]
           /\ \A s \in SessionIds :
                sessions'[s] # NoSession => sessions'[s].start < sessions'[s].end
<1>1. CASE BatchRolledBack(row, days, teachers)
    BY <1>1 DEF BatchRolledBack, balances, TypeInv, TypeOK, WellFormed, Live
<1>2. CASE BatchCommits(row, days, teachers)
    <2>1. ASSUME NEW s \in SessionIds, Added(s, row, days, teachers)
          PROVE  /\ sessions'[s] \in SessionRow /\ staffing'[s] = teachers
                 /\ sessions'[s].start < sessions'[s].end
        <3>1. PICK d \in Missing(row, days) : sessions'[s] = OnDay(row, d)
            BY <2>1 DEF Added
        <3>2. d \in days /\ row.start < row.end
            BY <1>2, BatchRows DEF TypeInv, Missing
        <3>3. OnDay(row, d).start = row.start /\ OnDay(row, d).end = row.end
            BY DEF OnDay, SessionRow
        <3> QED
            BY <2>1, <3>1, <3>2, <3>3, RowType DEF Added
    <2>2. ASSUME NEW s \in SessionIds
          PROVE  /\ sessions'[s] \in SessionRow \cup {NoSession}
                 /\ staffing'[s] \in SUBSET Teachers
                 /\ sessions'[s] # NoSession => sessions'[s].start < sessions'[s].end
        <3>1. CASE sessions'[s] = sessions[s] /\ staffing'[s] = staffing[s]
            BY <3>1 DEF TypeInv, TypeOK, WellFormed, Live
        <3>2. CASE Added(s, row, days, teachers)
            BY <2>1, <3>2
        <3> QED
            BY <1>2, <3>1, <3>2, BatchRows DEF TypeInv
    <2>3. /\ sessions' \in [SessionIds -> SessionRow \cup {NoSession}]
          /\ staffing' \in [SessionIds -> SUBSET Teachers]
        BY <1>2, <2>2, BatchRows DEF TypeInv
    <2>4. CASE days = {}
        BY <1>2, <2>2, <2>3, <2>4 DEF BatchCommits, balances, TypeInv, TypeOK
    <2>5. CASE days # {}
        <3>1. row.start < row.end
            BY <1>2, <2>5, BatchRows DEF TypeInv
        <3>2. Missing(row, days) \in SUBSET Days
            BY DEF Missing
        <3> QED
            BY <1>2, <2>2, <2>3, <2>5, <3>1, <3>2, ChargedType DEF BatchCommits, TypeInv
    <2> QED
        BY <2>4, <2>5
<1> QED
    BY <1>1, <1>2

\* Deleting sessions leaves tables of their type.
LEMMA RemovedType ==
    ASSUME TypeInv, NEW ids, Removed(ids)
    PROVE  /\ sessions' \in [SessionIds -> SessionRow \cup {NoSession}]
           /\ staffing' \in [SessionIds -> SUBSET Teachers]
           /\ booked' \in [Teachers -> [Years -> Nat]]
           /\ periodBooked' \in [Teachers -> [Periods -> Nat]]
           /\ \A s \in SessionIds :
                sessions'[s] # NoSession => sessions'[s].start < sessions'[s].end
BY DEF Removed, balances, TypeInv, TypeOK, WellFormed, Live

\* The weekly repetitions of a day are days.
LEMMA WeeklyType ==
    ASSUME NEW d, NEW until
    PROVE  WeeklyAfter(d, until) \in SUBSET Days
BY DEF WeeklyAfter

\* A worker with nothing to do is a request in good order.
LEMMA IdleType == Idle \in Request /\ RequestInOrder(Idle)
BY DEF Idle, Request, RequestInOrder

\* What ThenAutofill leaves is a request in good order.
LEMMA ThenAutofillType ==
    ASSUME NEW row \in SessionRow, NEW teachers \in SUBSET Teachers, NEW until \in Days \cup {0}
    PROVE  /\ ThenAutofill(row, teachers, until) \in Request
           /\ RequestInOrder(ThenAutofill(row, teachers, until))
<1>1. CASE WeeklyAfter(row.day, until) = {}
    BY <1>1, IdleType DEF ThenAutofill
<1>2. CASE WeeklyAfter(row.day, until) # {}
    BY <1>2 DEF ThenAutofill, Request, RequestInOrder
<1> QED
    BY <1>1, <1>2

\* One request changes and the others stay in good order.
LEMMA OneRequest ==
    ASSUME TypeInv, NEW r \in Requests, NEW q \in Request, RequestInOrder(q),
           requests' = [requests EXCEPT ![r] = q]
    PROVE  /\ requests' \in [Requests -> Request]
           /\ \A p \in Requests : RequestInOrder(requests'[p])
BY DEF TypeInv, TypeOK, WellFormed

\* A request that ends leaves the requests in good order.
LEMMA FinishType ==
    ASSUME TypeInv, NEW r \in Requests, Finish(r)
    PROVE  /\ requests' \in [Requests -> Request]
           /\ \A p \in Requests : RequestInOrder(requests'[p])
BY OneRequest, IdleType DEF Finish

\* The update form with the class of the session is a session row.
LEMMA UpdatedRow ==
    ASSUME TypeOK, NEW s \in Live, NEW form \in Forms
    PROVE  [form EXCEPT !.class = sessions[s].class] \in SessionRow
BY DEF TypeOK, Live, SessionRow

\* What the generator inserts are session rows, on days.
LEMMA GeneratedRows ==
    ASSUME NEW form \in Forms, NEW from, NEW to, NEW weekdays
    PROVE  /\ Roomless(form) \in SessionRow
           /\ ChosenDays(from, to, weekdays) \in SUBSET Days
BY DEF Roomless, ChosenDays, SessionRow

\* The type invariant holds at first.
LEMMA InitType == Init => TypeInv
BY IdleType DEF Init, TypeInv, TypeOK, WellFormed, Live, SessionRow

\* Every action keeps the type invariant.
LEMMA NextType == TypeInv /\ [Next]_vars => TypeInv'
<1> SUFFICES ASSUME TypeInv, [Next]_vars PROVE TypeInv'
    OBVIOUS
<1> USE DEF TypeInv
<1>1. ASSUME NEW r \in Requests, CreateSession(r) PROVE TypeInv'
    <2>1. PICK row \in Forms, s \in FreshIds, until \in PeriodEnds,
               teachers \in {{}} \cup {{t} : t \in Teachers} :
            /\ row.start < row.end
            /\ sessions' = [sessions EXCEPT ![s] = row]
            /\ requests' = [requests EXCEPT ![r] =
                    IF teachers = {}
                    THEN ThenAutofill(row, {}, until)
                    ELSE [pc |-> "assign", sid |-> s, row |-> row,
                          teachers |-> teachers, until |-> until]]
        BY <1>1 DEF CreateSession
    <2>2. row \in SessionRow /\ s \in SessionIds /\ until \in Days
          /\ teachers \in SUBSET Teachers
        BY DEF FreshIds
    <2>3. CASE teachers = {}
        BY <2>1, <2>2, <2>3, OneRequest, ThenAutofillType, <1>1
        DEF CreateSession, balances, TypeOK, WellFormed, Live
    <2>4. CASE teachers # {}
        <3> DEFINE q == [pc |-> "assign", sid |-> s, row |-> row,
                         teachers |-> teachers, until |-> until]
        <3>1. q \in Request /\ RequestInOrder(q)
            BY <2>2, <2>4 DEF Request, RequestInOrder
        <3> QED
            BY <2>1, <2>2, <2>4, <3>1, OneRequest, <1>1
            DEF CreateSession, balances, TypeOK, WellFormed, Live
    <2> QED
        BY <2>3, <2>4
<1>2. ASSUME NEW r \in Requests, AddSessionTeacher(r) PROVE TypeInv'
    <2> DEFINE q == requests[r]
               s == requests[r].sid
    <2>1. q \in Request /\ RequestInOrder(q) /\ q.pc = "assign"
        BY <1>2 DEF AddSessionTeacher, TypeOK, WellFormed
    <2>2. s \in Live /\ q.row \in SessionRow /\ q.teachers \in SUBSET Teachers
          /\ q.until \in Days \cup {0}
        BY <1>2, <2>1 DEF AddSessionTeacher, TeacherRefused, RequestInOrder, Request
    <2>3. sessions[s] \in SessionRow /\ sessions[s].start < sessions[s].end
        BY <2>2 DEF TypeOK, WellFormed, Live
    <2>4. {sessions[s].day} \in SUBSET Days
        BY <2>3, RowType
    <2>5. HoursCharged(q.teachers \ staffing[s], sessions[s], {sessions[s].day})
        BY <1>2 DEF AddSessionTeacher
    <2>6. /\ booked' \in [Teachers -> [Years -> Nat]]
          /\ periodBooked' \in [Teachers -> [Periods -> Nat]]
        BY <2>3, <2>4, <2>5, ChargedType
    <2>7. /\ requests' \in [Requests -> Request]
          /\ \A p \in Requests : RequestInOrder(requests'[p])
        BY <1>2, <2>2, OneRequest, ThenAutofillType DEF AddSessionTeacher
    <2> QED
        BY <1>2, <2>2, <2>6, <2>7 DEF AddSessionTeacher, TypeOK, WellFormed, Live
<1>3. ASSUME NEW r \in Requests, AddSessionTeacherFails(r) PROVE TypeInv'
    <2> DEFINE q == [Idle EXCEPT !.pc = "undo", !.sid = requests[r].sid]
    <2>1. q \in Request /\ RequestInOrder(q)
        BY DEF Idle, Request, RequestInOrder, TypeOK
    <2> QED
        BY <1>3, <2>1, OneRequest
        DEF AddSessionTeacherFails, balances, TypeOK, WellFormed, Live
<1>4. ASSUME NEW r \in Requests, UndoCreate(r) PROVE TypeInv'
    BY <1>4, RemovedType, FinishType DEF UndoCreate, TypeOK, WellFormed, Live
<1>5. ASSUME NEW r \in Requests, Autofill(r) \/ RepeatSessionWeekly(r) PROVE TypeInv'
    <2> DEFINE row == requests[r].row
               days == WeeklyAfter(row.day, requests[r].until)
    <2>1. row \in SessionRow /\ requests[r].teachers \in SUBSET Teachers
        BY <1>5 DEF Autofill, RepeatSessionWeekly, TypeOK, WellFormed, RequestInOrder, Request
    <2>2. days \in SUBSET Days
        BY WeeklyType
    <2>3. \/ BatchCommits(row, days, requests[r].teachers)
          \/ BatchRolledBack(row, days, requests[r].teachers)
        BY <1>5 DEF Autofill, RepeatSessionWeekly
    <2> QED
        BY <1>5, <2>1, <2>2, <2>3, BatchType, FinishType
        DEF Autofill, RepeatSessionWeekly, TypeOK, WellFormed, Live
<1>6. ASSUME NEW r \in Requests, Abandon(r) PROVE TypeInv'
    BY <1>6, FinishType DEF Abandon, balances, TypeOK, WellFormed, Live
<1>7. ASSUME NEW r \in Requests, ReadTemplate(r) PROVE TypeInv'
    <2>1. PICK s \in Live, until \in PeriodEnds :
            requests' = [requests EXCEPT ![r] =
                [pc |-> "readteachers", sid |-> s, row |-> sessions[s],
                 teachers |-> {}, until |-> until]]
        BY <1>7 DEF ReadTemplate
    <2> DEFINE q == [pc |-> "readteachers", sid |-> s, row |-> sessions[s],
                     teachers |-> {}, until |-> until]
    <2>2. q \in Request /\ RequestInOrder(q)
        BY DEF Request, RequestInOrder, TypeOK, Live
    <2> QED
        BY <1>7, <2>1, <2>2, OneRequest DEF ReadTemplate, balances, TypeOK, WellFormed, Live
<1>8. ASSUME NEW r \in Requests, ReadTemplateTeachers(r) PROVE TypeInv'
    <2> DEFINE q == [requests[r] EXCEPT !.pc = "repeat", !.sid = NoSession,
                                        !.teachers = staffing[requests[r].sid]]
    <2>1. q \in Request /\ RequestInOrder(q)
        BY <1>8 DEF ReadTemplateTeachers, Request, RequestInOrder, TypeOK, WellFormed
    <2>2. requests' = [requests EXCEPT ![r] = q]
        BY <1>8 DEF ReadTemplateTeachers, TypeOK
    <2> QED
        BY <1>8, <2>1, <2>2, OneRequest
        DEF ReadTemplateTeachers, balances, TypeOK, WellFormed, Live
<1>9. ASSUME GenerateSessions PROVE TypeInv'
    <2>1. PICK row \in SessionRow, days \in SUBSET Days : BatchCommits(row, days, {})
        BY <1>9, GeneratedRows DEF GenerateSessions
    <2>2. {} \in SUBSET Teachers
        OBVIOUS
    <2>3. /\ sessions' \in [SessionIds -> SessionRow \cup {NoSession}]
          /\ staffing' \in [SessionIds -> SUBSET Teachers]
          /\ booked' \in [Teachers -> [Years -> Nat]]
          /\ periodBooked' \in [Teachers -> [Periods -> Nat]]
          /\ \A s \in SessionIds :
                sessions'[s] # NoSession => sessions'[s].start < sessions'[s].end
        <3> HIDE DEF TypeInv
        <3> QED
            BY <2>1, <2>2, BatchType
    <2>4. classes' = classes /\ requests' = requests
        BY <1>9 DEF GenerateSessions
    <2> QED
        BY <2>3, <2>4 DEF TypeOK, WellFormed, Live
<1>10. ASSUME UpdateSession PROVE TypeInv'
    <2>1. PICK s \in Live, row \in SessionRow :
            /\ row.start < row.end
            /\ sessions' = [sessions EXCEPT ![s] = row]
            /\ HoursMoved(s, row)
        BY <1>10, UpdatedRow DEF UpdateSession
    <2> QED
        BY <1>10, <2>1, MovedType DEF UpdateSession, TypeOK, WellFormed, Live
<1>11. ASSUME DeleteSession PROVE TypeInv'
    BY <1>11, RemovedType DEF DeleteSession, TypeOK, WellFormed, Live
<1>12. ASSUME DeleteSessionsForClass PROVE TypeInv'
    BY <1>12, RemovedType DEF DeleteSessionsForClass, TypeOK, WellFormed, Live
<1>13. ASSUME CreateClass \/ UpdateClass PROVE TypeInv'
    BY <1>13 DEF CreateClass, UpdateClass, balances, TypeOK, WellFormed, Live
<1>14. ASSUME DeleteClass PROVE TypeInv'
    <2>1. classes' \in [Classes -> ClassRow \cup {NoClass}]
        BY <1>14 DEF DeleteClass, TypeOK
    <2> QED
        BY <1>14, <2>1, RemovedType DEF DeleteClass, TypeOK, WellFormed, Live
<1>15. CASE UNCHANGED vars
    BY <1>15 DEF vars, TypeOK, WellFormed, Live
<1> QED
    BY <1>1, <1>2, <1>3, <1>4, <1>5, <1>6, <1>7, <1>8, <1>9, <1>10, <1>11, <1>12,
       <1>13, <1>14, <1>15 DEF Next

\* Every state of the timetable has its type, with sessions of positive length
\* and requests that hold what their next statement needs.
THEOREM TypeCorrect == Spec => []TypeInv
BY InitType, NextType, PTL DEF Spec

\* The type invariant that TLC checks.
THEOREM TypeOKAlways == Spec => []TypeOK
<1>1. TypeInv => TypeOK
    BY DEF TypeInv
<1> QED
    BY <1>1, TypeCorrect, PTL

-----------------------------------------------------------------------------
(* What a step does to the sessions.  Each of the actions does one of six   *)
(* things to them, and the safety proofs go through the six.                *)

Kept ==
    /\ UNCHANGED <<sessions, staffing, balances>>
    /\ \A c \in Classes : classes[c] # NoClass => classes'[c] # NoClass

Batch(row, days, teachers) ==
    /\ BatchCommits(row, days, teachers)
    /\ classes' = classes

Inserted(s, row) ==
    /\ s \in SessionIds \ Live
    /\ classes[row.class] # NoClass
    /\ ~RoomClash(s, row)
    /\ sessions' = [sessions EXCEPT ![s] = row]
    /\ UNCHANGED <<classes, staffing, balances>>

Assigned(s, teachers) ==
    /\ s \in Live
    /\ \A t \in teachers : ~TeacherRefused(t, s)
    /\ staffing' = [staffing EXCEPT ![s] = @ \cup teachers]
    /\ HoursCharged(teachers \ staffing[s], sessions[s], {sessions[s].day})
    /\ UNCHANGED <<classes, sessions>>

Moved(s, row) ==
    /\ s \in Live
    /\ row.start < row.end
    /\ row.class = sessions[s].class
    /\ ~RoomClash(s, row)
    /\ ~MoveRefused(s, row)
    /\ sessions' = [sessions EXCEPT ![s] = row]
    /\ HoursMoved(s, row)
    /\ UNCHANGED <<classes, staffing>>

Deleted(ids) ==
    /\ Removed(ids)
    /\ \A s \in Live \ ids :
            classes'[sessions[s].class] = classes[sessions[s].class]

\* Every step is one of the six.
LEMMA Steps ==
    ASSUME TypeInv, [Next]_vars
    PROVE  \/ Kept
           \/ \E row \in SessionRow, days \in SUBSET Days, teachers \in SUBSET Teachers :
                Batch(row, days, teachers)
           \/ \E s \in SessionIds, row \in SessionRow : Inserted(s, row)
           \/ \E s \in SessionIds, teachers \in SUBSET Teachers : Assigned(s, teachers)
           \/ \E ids : Deleted(ids)
           \/ \E s \in SessionIds, row \in SessionRow : Moved(s, row)
<1>1. ASSUME NEW r \in Requests, CreateSession(r)
      PROVE  \E s \in SessionIds, row \in SessionRow : Inserted(s, row)
    BY <1>1 DEF CreateSession, Inserted, FreshIds, balances
<1>2. ASSUME NEW r \in Requests, AddSessionTeacher(r)
      PROVE  \E s \in SessionIds, teachers \in SUBSET Teachers : Assigned(s, teachers)
    <2>1. requests[r] \in Request /\ requests[r].pc = "assign" /\ RequestInOrder(requests[r])
        BY <1>2 DEF AddSessionTeacher, TypeInv, TypeOK, WellFormed
    <2>2. requests[r].sid \in Live /\ requests[r].teachers \in SUBSET Teachers
        BY <1>2, <2>1 DEF AddSessionTeacher, TeacherRefused, RequestInOrder, Request
    <2>3. Assigned(requests[r].sid, requests[r].teachers)
        BY <1>2, <2>2 DEF AddSessionTeacher, Assigned
    <2> QED
        BY <2>2, <2>3 DEF Live
<1>3. ASSUME NEW r \in Requests, Autofill(r) \/ RepeatSessionWeekly(r)
      PROVE  \/ Kept
             \/ \E row \in SessionRow, days \in SUBSET Days, teachers \in SUBSET Teachers :
                  Batch(row, days, teachers)
    <2> DEFINE row == requests[r].row
               days == WeeklyAfter(row.day, requests[r].until)
    <2>1. row \in SessionRow /\ requests[r].teachers \in SUBSET Teachers
        BY <1>3 DEF Autofill, RepeatSessionWeekly, TypeInv, TypeOK, WellFormed,
                    RequestInOrder, Request
    <2>2. days \in SUBSET Days
        BY WeeklyType
    <2>3. CASE BatchCommits(row, days, requests[r].teachers)
        BY <1>3, <2>1, <2>2, <2>3 DEF Batch, Autofill, RepeatSessionWeekly
    <2>4. CASE BatchRolledBack(row, days, requests[r].teachers)
        BY <1>3, <2>4 DEF BatchRolledBack, Kept, Autofill, RepeatSessionWeekly
    <2> QED
        BY <1>3, <2>3, <2>4 DEF Autofill, RepeatSessionWeekly
<1>4. ASSUME GenerateSessions
      PROVE  \E row \in SessionRow, days \in SUBSET Days, teachers \in SUBSET Teachers :
                Batch(row, days, teachers)
    <2>1. PICK row \in SessionRow, days \in SUBSET Days : BatchCommits(row, days, {})
        BY <1>4, GeneratedRows DEF GenerateSessions
    <2>2. Batch(row, days, {})
        BY <1>4, <2>1 DEF GenerateSessions, Batch
    <2> QED
        BY <2>2
<1>5. ASSUME UpdateSession
      PROVE  \E s \in SessionIds, row \in SessionRow : Moved(s, row)
    <2>1. PICK s \in Live, form \in Forms :
            LET row == [form EXCEPT !.class = sessions[s].class] IN
            /\ row.start < row.end
            /\ ~SlotTaken(s, row)
            /\ ~RoomClash(s, row)
            /\ ~MoveRefused(s, row)
            /\ sessions' = [sessions EXCEPT ![s] = row]
            /\ HoursMoved(s, row)
        BY <1>5 DEF UpdateSession
    <2> DEFINE row == [form EXCEPT !.class = sessions[s].class]
    <2>2. row.class = sessions[s].class
        BY DEF SessionRow
    <2>3. row \in SessionRow
        BY UpdatedRow DEF TypeInv
    <2>4. Moved(s, row)
        BY <1>5, <2>1, <2>2 DEF UpdateSession, Moved
    <2> QED
        BY <2>3, <2>4 DEF Live
<1>6. ASSUME \/ \E r \in Requests : UndoCreate(r)
             \/ DeleteSession \/ DeleteSessionsForClass
      PROVE  \E ids : Deleted(ids)
    BY <1>6 DEF UndoCreate, DeleteSession, DeleteSessionsForClass, Deleted
<1>8. ASSUME DeleteClass PROVE \E ids : Deleted(ids)
    <2>1. PICK c \in Classes :
            classes' = [classes EXCEPT ![c] = NoClass] /\ Removed(SessionsOf(c))
        BY <1>8 DEF DeleteClass
    <2>2. \A s \in Live \ SessionsOf(c) : sessions[s].class # c
        BY DEF SessionsOf
    <2>3. Deleted(SessionsOf(c))
        BY <2>1, <2>2 DEF Deleted, TypeInv, TypeOK, SessionRow, Live
    <2> QED
        BY <2>3
<1>7. ASSUME \/ \E r \in Requests : \/ AddSessionTeacherFails(r) \/ Abandon(r)
                                    \/ ReadTemplate(r) \/ ReadTemplateTeachers(r)
             \/ CreateClass \/ UpdateClass \/ UNCHANGED vars
      PROVE  Kept
    BY <1>7 DEF AddSessionTeacherFails, Abandon, ReadTemplate, ReadTemplateTeachers,
                CreateClass, UpdateClass, vars, balances, Kept, TypeInv, TypeOK
<1> QED
    BY <1>1, <1>2, <1>3, <1>4, <1>5, <1>6, <1>7, <1>8 DEF Next

\* The rows that one batch adds fall on different dates.
LEMMA AddedApart ==
    ASSUME TypeInv,
           NEW row \in SessionRow, NEW days \in SUBSET Days, NEW teachers \in SUBSET Teachers,
           Batch(row, days, teachers)
    PROVE  \A s, q \in SessionIds :
            (s # q /\ Added(s, row, days, teachers) /\ Added(q, row, days, teachers))
                => ~Overlap(sessions'[s], sessions'[q])
<1>1. BatchCommits(row, days, teachers) /\ TypeOK
    BY DEF Batch, TypeInv
<1>2. AddedOnDifferentDays(row, days, teachers)
    BY <1>1, BatchRows
<1> QED
    BY <1>2 DEF AddedOnDifferentDays, Overlap

-----------------------------------------------------------------------------
(* Rooms. *)

\* Overlap does not depend on the order.
LEMMA OverlapSymmetric == \A a, b : Overlap(a, b) => Overlap(b, a)
BY DEF Overlap

\* Two rows in one room at one time.
SharesRoom(a, b) == a.room # NoRoom /\ a.room = b.room /\ Overlap(a, b)

\* NoRoomDoubleBooking, session by session.
LEMMA RoomsApart ==
    NoRoomDoubleBooking <=>
        \A s, q \in SessionIds :
            (s # q /\ sessions[s] # NoSession /\ sessions[q] # NoSession)
                => ~SharesRoom(sessions[s], sessions[q])
BY DEF NoRoomDoubleBooking, SharesRoom, Live, Overlap

\* No step puts two sessions into one room at one time.
LEMMA RoomsStayApart == TypeInv /\ NoRoomDoubleBooking /\ [Next]_vars => NoRoomDoubleBooking'
<1> SUFFICES ASSUME TypeInv, NoRoomDoubleBooking, [Next]_vars,
                    NEW s \in SessionIds, NEW q \in SessionIds,
                    s # q, sessions'[s] # NoSession, sessions'[q] # NoSession,
                    SharesRoom(sessions'[s], sessions'[q])
             PROVE  FALSE
    BY DEF NoRoomDoubleBooking, SharesRoom, Live, Overlap
<1>1. sessions[s] # NoSession /\ sessions[q] # NoSession
        => ~SharesRoom(sessions[s], sessions[q])
    BY RoomsApart
<1>2. \A a, b : SharesRoom(a, b) => SharesRoom(b, a)
    BY OverlapSymmetric DEF SharesRoom
<1>3. CASE Kept
    BY <1>1, <1>3 DEF Kept
<1>4. ASSUME NEW row \in SessionRow, NEW days \in SUBSET Days,
             NEW teachers \in SUBSET Teachers, Batch(row, days, teachers)
      PROVE  FALSE
    <2>1. ASSUME NEW m \in SessionIds, NEW n \in SessionIds,
                 Added(m, row, days, teachers),
                 sessions'[n] = sessions[n], sessions[n] # NoSession
          PROVE  ~SharesRoom(sessions'[m], sessions[n])
        <3>1. PICK d \in Missing(row, days) : sessions'[m] = OnDay(row, d)
            BY <2>1 DEF Added
        <3>2. ~RoomClash(NoSession, OnDay(row, d))
            BY <1>4 DEF Batch, BatchCommits, BatchRefused, Missing
        <3>3. n \in Live \ {NoSession}
            BY <2>1 DEF Live
        <3> QED
            BY <3>1, <3>2, <3>3, OverlapSymmetric DEF RoomClash, SharesRoom
    <2>2. \A m \in SessionIds : \/ sessions'[m] = sessions[m]
                                \/ Added(m, row, days, teachers)
        BY <1>4, BatchRows DEF Batch, TypeInv
    <2>3. ~(Added(s, row, days, teachers) /\ Added(q, row, days, teachers))
        BY <1>4, AddedApart DEF SharesRoom
    <2> QED
        BY <1>1, <1>2, <2>1, <2>2, <2>3
<1>5. ASSUME NEW m \in SessionIds, NEW row \in SessionRow,
             ~RoomClash(m, row), sessions' = [sessions EXCEPT ![m] = row]
      PROVE  FALSE
    <2>1. /\ sessions'[m] = row
          /\ \A n \in SessionIds \ {m} : sessions'[n] = sessions[n]
        BY <1>5 DEF TypeInv, TypeOK
    <2>2. \A n \in SessionIds \ {m} :
            sessions[n] # NoSession => ~SharesRoom(row, sessions[n])
        BY <1>5, OverlapSymmetric DEF RoomClash, SharesRoom, Live
    <2> QED
        BY <1>1, <1>2, <2>1, <2>2
<1>6. ASSUME NEW ids, Deleted(ids) PROVE FALSE
    BY <1>1, <1>6 DEF Deleted, Removed
<1>7. CASE \E m \in SessionIds, teachers \in SUBSET Teachers : Assigned(m, teachers)
    BY <1>1, <1>7 DEF Assigned
<1> QED
    BY <1>3, <1>4, <1>5, <1>6, <1>7, Steps DEF Inserted, Moved

\* No room is ever given to two sessions at once, by whatever mix of creates,
\* bulk transactions and moves.
THEOREM RoomsNeverDoubleBooked == Spec => []NoRoomDoubleBooking
<1>1. Init => NoRoomDoubleBooking
    BY DEF Init, NoRoomDoubleBooking, Live
<1> QED
    BY <1>1, InitType, NextType, RoomsStayApart, PTL DEF Spec

-----------------------------------------------------------------------------
(* Caps. *)

Within(balance, K, cap) == \A k \in K : balance[k] <= cap

\* A refund keeps a balance within its cap, and so does a charge that the
\* trigger does not refuse.
LEMMA AdjustedWithin ==
    ASSUME NEW K, NEW b \in [K -> Nat], NEW k, NEW delta \in Int, NEW cap \in Nat,
           Within(b, K, cap), ~Exceeds(b, k, delta, cap)
    PROVE  Within(Adjusted(b, k, delta), K, cap)
<1> SUFFICES ASSUME NEW j \in K PROVE Adjusted(b, k, delta)[j] <= cap
    BY DEF Within
<1>1. CASE j = k
    BY <1>1 DEF Adjusted, Exceeds, Within
<1>2. CASE j # k
    BY <1>2 DEF Adjusted, Within
<1> QED
    BY <1>1, <1>2

\* CapsRespected, teacher by teacher.
LEMMA CapsAsWithin ==
    CapsRespected <=>
        \A t \in Teachers :
            /\ Within(booked[t], Years, YearCap[t])
            /\ PeriodCap[t] # NoCap => Within(periodBooked[t], Periods, PeriodCap[t])
BY DEF CapsRespected, Within

\* A batch that passed the check of the caps keeps to them.
LEMMA ChargedWithin ==
    ASSUME TypeOK, CapsRespected,
           NEW row \in SessionRow, row.start < row.end,
           NEW days \in SUBSET Days, NEW teachers,
           ~CapRefuses(teachers \cap Teachers, row, days),
           HoursCharged(teachers, row, days)
    PROVE  CapsRespected'
<1> SUFFICES ASSUME NEW t \in Teachers
             PROVE  /\ \A y \in Years : booked'[t][y] <= YearCap[t]
                    /\ PeriodCap[t] # NoCap =>
                            \A p \in Periods : periodBooked'[t][p] <= PeriodCap[t]
    BY DEF CapsRespected
<1>1. ASSUME NEW y \in Years PROVE booked'[t][y] <= YearCap[t]
    <2>1. booked[t][y] \in Nat /\ YearCap[t] \in Nat /\ booked[t][y] <= YearCap[t]
        BY DEF TypeOK, CapsRespected
    <2>2. CASE t \in teachers
        <3>1. booked'[t][y] = booked[t][y] + YearHours(row, days, y)
            BY <2>2 DEF HoursCharged
        <3>2. ~Exceeds(booked[t], y, YearHours(row, days, y), YearCap[t])
            BY <2>2 DEF CapRefuses
        <3>3. YearHours(row, days, y) \in Nat
            BY YearHoursType
        <3> QED
            BY <2>1, <3>1, <3>2, <3>3 DEF Exceeds
    <2>3. CASE t \notin teachers
        BY <2>1, <2>3 DEF HoursCharged
    <2> QED
        BY <2>2, <2>3
<1>2. ASSUME PeriodCap[t] # NoCap, NEW p \in Periods
      PROVE  periodBooked'[t][p] <= PeriodCap[t]
    <2> DEFINE delta == Length(row) * Cardinality(days)
               k == classes[row.class].period
    <2>1. periodBooked[t] \in [Periods -> Nat] /\ PeriodCap[t] \in Nat
        BY <1>2 DEF TypeOK
    <2>2. Within(periodBooked[t], Periods, PeriodCap[t])
        BY <1>2, CapsAsWithin
    <2>3. CASE t \in teachers
        <3>1. delta \in Int
            BY YearHoursType, RowType
        <3>2. ~Exceeds(periodBooked[t], k, delta, PeriodCap[t])
            BY <1>2, <2>3 DEF CapRefuses
        <3>3. periodBooked'[t] = Adjusted(periodBooked[t], k, delta)
            BY <1>2, <2>3 DEF HoursCharged
        <3> HIDE DEF delta, k
        <3>4. Within(periodBooked'[t], Periods, PeriodCap[t])
            BY <2>1, <2>2, <3>1, <3>2, <3>3, AdjustedWithin
        <3> QED
            BY <3>4 DEF Within
    <2>4. CASE t \notin teachers
        BY <2>2, <2>4 DEF HoursCharged, Within
    <2> QED
        BY <2>3, <2>4
<1> QED
    BY <1>1, <1>2

\* A move that passed the check of the caps keeps to them.
LEMMA MovedWithin ==
    ASSUME TypeOK, CapsRespected, NEW s \in Live, NEW row \in SessionRow,
           ~MoveRefused(s, row), HoursMoved(s, row), sessions[s].start < sessions[s].end
    PROVE  CapsRespected'
<1> DEFINE old == sessions[s]
<1>1. -Length(old) \in Int /\ Length(row) \in Int /\ ~(-Length(old) > 0)
    BY RowType DEF TypeOK, Live
<1> SUFFICES ASSUME NEW t \in Teachers
             PROVE  /\ \A y \in Years : booked'[t][y] <= YearCap[t]
                    /\ PeriodCap[t] # NoCap =>
                            \A p \in Periods : periodBooked'[t][p] <= PeriodCap[t]
    BY DEF CapsRespected
<1>2. CASE ~(t \in staffing[s] /\ HoursChanged(old, row))
    BY <1>2 DEF HoursMoved, CapsRespected
<1>3. CASE t \in staffing[s] /\ HoursChanged(old, row)
    <2>1. Within(booked'[t], Years, YearCap[t])
        <3>1. booked[t] \in [Years -> Nat] /\ YearCap[t] \in Nat
            BY DEF TypeOK
        <3>2. Within(booked[t], Years, YearCap[t])
            BY CapsAsWithin
        <3>3. /\ Refunded(t, old) \in [Years -> Nat]
              /\ Within(Refunded(t, old), Years, YearCap[t])
            BY <1>1, <3>1, <3>2, AdjustedWithin, AdjustedType DEF Refunded, Exceeds
        <3>4. ~Exceeds(Refunded(t, old), YearOf[row.day], Length(row), YearCap[t])
            BY <1>3 DEF MoveRefused
        <3>5. booked'[t] = Adjusted(Refunded(t, old), YearOf[row.day], Length(row))
            BY <1>3 DEF HoursMoved
        <3> QED
            BY <1>1, <3>1, <3>3, <3>4, <3>5, AdjustedWithin
    <2>2. ASSUME PeriodCap[t] # NoCap
          PROVE  Within(periodBooked'[t], Periods, PeriodCap[t])
        <3> DEFINE k == classes[row.class].period
        <3>1. periodBooked[t] \in [Periods -> Nat] /\ PeriodCap[t] \in Nat
            BY <2>2 DEF TypeOK
        <3>2. Within(periodBooked[t], Periods, PeriodCap[t])
            BY <2>2, CapsAsWithin
        <3>3. /\ PeriodRefunded(t, old) \in [Periods -> Nat]
              /\ Within(PeriodRefunded(t, old), Periods, PeriodCap[t])
            BY <1>1, <3>1, <3>2, AdjustedWithin, AdjustedType DEF PeriodRefunded, Exceeds
        <3>4. ~Exceeds(PeriodRefunded(t, old), k, Length(row), PeriodCap[t])
            BY <1>3, <2>2 DEF MoveRefused
        <3>5. periodBooked'[t] = Adjusted(PeriodRefunded(t, old), k, Length(row))
            BY <1>3, <2>2 DEF HoursMoved
        <3> HIDE DEF k
        <3> QED
            BY <1>1, <3>1, <3>3, <3>4, <3>5, AdjustedWithin
    <2> QED
        BY <2>1, <2>2 DEF Within
<1> QED
    BY <1>2, <1>3

\* No step takes a balance beyond its cap.
LEMMA CapsStayRespected == TypeInv /\ CapsRespected /\ [Next]_vars => CapsRespected'
<1> SUFFICES ASSUME TypeInv, CapsRespected, [Next]_vars PROVE CapsRespected'
    OBVIOUS
<1>1. CASE balances' = balances
    BY <1>1 DEF CapsRespected, balances
<1>2. ASSUME NEW row \in SessionRow, NEW days \in SUBSET Days,
             NEW teachers \in SUBSET Teachers, Batch(row, days, teachers)
      PROVE  CapsRespected'
    <2>1. CASE days = {}
        BY <1>1, <1>2, <2>1 DEF Batch, BatchCommits
    <2>2. CASE days # {}
        <3>1. row.start < row.end /\ classes[row.class] # NoClass
            BY <1>2, <2>2, BatchRows DEF Batch, TypeInv
        <3>2. ~CapRefuses(teachers, row, Missing(row, days))
            BY <1>2, <2>2, <3>1 DEF Batch, BatchCommits, BatchRefused
        <3>3. teachers \cap Teachers = teachers /\ Missing(row, days) \in SUBSET Days
            BY DEF Missing
        <3>4. TypeOK /\ HoursCharged(teachers, row, Missing(row, days))
            BY <1>2, <2>2 DEF Batch, BatchCommits, TypeInv
        <3> QED
            BY <3>1, <3>2, <3>3, <3>4, ChargedWithin
    <2> QED
        BY <2>1, <2>2
<1>3. ASSUME NEW s \in SessionIds, NEW teachers \in SUBSET Teachers, Assigned(s, teachers)
      PROVE  CapsRespected'
    <2> DEFINE row == sessions[s]
               new == teachers \ staffing[s]
    <2>1. row \in SessionRow /\ row.start < row.end /\ {row.day} \in SUBSET Days
        BY <1>3, RowType DEF Assigned, TypeInv, TypeOK, WellFormed, Live
    <2>2. \A t \in new : ~CapRefuses({t}, row, {row.day})
        <3> SUFFICES ASSUME NEW t \in new PROVE ~CapRefuses({t}, row, {row.day})
            OBVIOUS
        <3>1. {t} \ staffing[s] = {t}
            OBVIOUS
        <3> QED
            BY <1>3, <3>1 DEF Assigned, TeacherRefused
    <2>3. ~CapRefuses(new \cap Teachers, row, {row.day})
        BY <2>2 DEF CapRefuses
    <2> QED
        BY <1>3, <2>1, <2>3, ChargedWithin DEF Assigned, TypeInv
<1>4. ASSUME NEW s \in SessionIds, NEW row \in SessionRow, Moved(s, row)
      PROVE  CapsRespected'
    BY <1>4, MovedWithin DEF Moved, TypeInv, WellFormed
<1> QED
    BY <1>1, <1>2, <1>3, <1>4, Steps DEF Kept, Inserted, Deleted, Removed, balances

\* Whatever is created, repeated, moved or deleted, no teacher's recorded hours
\* pass the cap, of the year or of the academic period.
THEOREM CapsAlwaysRespected == Spec => []CapsRespected
<1>1. Init => CapsRespected
    BY DEF Init, CapsRespected
<1> QED
    BY <1>1, InitType, NextType, CapsStayRespected, PTL DEF Spec

-----------------------------------------------------------------------------
(* References. *)

\* The foreign keys: a session's class is there, and so is the session that a
\* teacher is on.
ReferencesHold ==
    /\ \A s \in Live : classes[sessions[s].class] # NoClass
    /\ \A s \in SessionIds \ Live : staffing[s] = {}

\* No step leaves a reference to a row that is gone.
LEMMA ReferencesStay == TypeInv /\ ReferencesHold /\ [Next]_vars => ReferencesHold'
<1> SUFFICES ASSUME TypeInv, ReferencesHold, [Next]_vars PROVE ReferencesHold'
    OBVIOUS
<1>1. CASE Kept
    BY <1>1 DEF Kept, ReferencesHold, Live, TypeInv, TypeOK, SessionRow
<1>2. ASSUME NEW row \in SessionRow, NEW days \in SUBSET Days,
             NEW teachers \in SUBSET Teachers, Batch(row, days, teachers)
      PROVE  ReferencesHold'
    <2>1. \A s \in SessionIds :
            \/ sessions'[s] = sessions[s] /\ staffing'[s] = staffing[s]
            \/ Added(s, row, days, teachers)
        BY <1>2, BatchRows DEF Batch, TypeInv
    <2>2. ASSUME NEW s \in SessionIds, Added(s, row, days, teachers)
          PROVE  sessions'[s] # NoSession /\ classes[sessions'[s].class] # NoClass
        <3>1. PICK d \in Missing(row, days) : sessions'[s] = OnDay(row, d)
            BY <2>2 DEF Added
        <3>2. d \in days /\ OnDay(row, d) \in SessionRow /\ OnDay(row, d).class = row.class
            BY RowType DEF Missing, OnDay, SessionRow
        <3> QED
            BY <1>2, <3>1, <3>2, BatchRows DEF Batch, TypeInv
    <2> QED
        BY <1>2, <2>1, <2>2 DEF Batch, ReferencesHold, Live
<1>3. ASSUME NEW s \in SessionIds, NEW row \in SessionRow, Inserted(s, row)
      PROVE  ReferencesHold'
    BY <1>3 DEF Inserted, ReferencesHold, Live, TypeInv, TypeOK
<1>4. ASSUME NEW s \in SessionIds, NEW teachers \in SUBSET Teachers, Assigned(s, teachers)
      PROVE  ReferencesHold'
    BY <1>4 DEF Assigned, ReferencesHold, Live, TypeInv, TypeOK
<1>5. ASSUME NEW ids, Deleted(ids) PROVE ReferencesHold'
    BY <1>5 DEF Deleted, Removed, ReferencesHold, Live, TypeInv, TypeOK
<1>6. ASSUME NEW s \in SessionIds, NEW row \in SessionRow, Moved(s, row)
      PROVE  ReferencesHold'
    BY <1>6 DEF Moved, ReferencesHold, Live, TypeInv, TypeOK
<1> QED
    BY <1>1, <1>2, <1>3, <1>4, <1>5, <1>6, Steps

\* No session outlives its class, and no teacher stays on a session that is gone.
THEOREM ReferencesAlwaysHold == Spec => []ReferencesHold
<1>1. Init => ReferencesHold
    BY DEF Init, ReferencesHold, Live
<1> QED
    BY <1>1, InitType, NextType, ReferencesStay, PTL DEF Spec

-----------------------------------------------------------------------------
(* Hours: a teacher's sessions in a year never add up to more than the     *)
(* balance.  The hours of a set of sessions are counted as a set of cells.  *)

\* The hours of the sessions of S, whose rows are in table.
HoursOf(S, table) ==
    UNION {{s} \X (table[s].start .. table[s].end - 1) : s \in S}

Rows(S, table) ==
    \A s \in S : table[s] \in SessionRow /\ table[s].start < table[s].end

\* The hours a teacher teaches, by the general operator.
LEMMA TaughtAsHoursOf ==
    \A t, y : TaughtHours(t, y) = HoursOf(TaughtSessions(t, y), sessions)
BY DEF TaughtHours, HoursOf

\* The hours of sessions can be counted.
LEMMA HoursOfFinite ==
    ASSUME NEW S \in SUBSET SessionIds, NEW table, Rows(S, table)
    PROVE  /\ IsFiniteSet(HoursOf(S, table))
           /\ Cardinality(HoursOf(S, table)) \in Nat
<1>1. ASSUME NEW s \in S
      PROVE  {s} \X (table[s].start .. table[s].end - 1) \in SUBSET (SessionIds \X (0 .. 24))
    <2>1. table[s].start \in 0 .. 24 /\ table[s].end \in 0 .. 24
        BY RowType DEF Rows
    <2> QED
        BY <2>1
<1>2. HoursOf(S, table) \in SUBSET (SessionIds \X (0 .. 24))
    BY <1>1 DEF HoursOf
<1>3. IsFiniteSet(0 .. 24)
    <2>1. 0 \in Int /\ 24 \in Int
        OBVIOUS
    <2> QED
        BY <2>1, FS_Interval, Zenon
<1>4. IsFiniteSet(SessionIds \X (0 .. 24))
    BY <1>3, FS_Product
<1> QED
    BY <1>2, <1>4, FS_Subset, FS_CardinalityType

\* Fewer sessions have no more hours.
LEMMA HoursOfFewer ==
    ASSUME NEW S \in SUBSET SessionIds, NEW T \in SUBSET S, NEW table, Rows(S, table)
    PROVE  Cardinality(HoursOf(T, table)) <= Cardinality(HoursOf(S, table))
<1>1. HoursOf(T, table) \in SUBSET HoursOf(S, table)
    BY DEF HoursOf
<1> QED
    BY <1>1, HoursOfFinite, FS_Subset

\* Only the times of the sessions matter.
LEMMA HoursOfSame ==
    ASSUME NEW S, NEW table, NEW other,
           \A s \in S : table[s].start = other[s].start /\ table[s].end = other[s].end
    PROVE  HoursOf(S, table) = HoursOf(S, other)
BY DEF HoursOf

\* The hours of two sets of sessions are at most the sum.
LEMMA HoursOfUnion ==
    ASSUME NEW S \in SUBSET SessionIds, NEW T \in SUBSET SessionIds, NEW table,
           Rows(S \cup T, table)
    PROVE  Cardinality(HoursOf(S \cup T, table))
                <= Cardinality(HoursOf(S, table)) + Cardinality(HoursOf(T, table))
<1>1. Rows(S, table) /\ Rows(T, table)
    BY DEF Rows
<1>2. HoursOf(S \cup T, table) = HoursOf(S, table) \cup HoursOf(T, table)
    BY DEF HoursOf
<1>3. /\ IsFiniteSet(HoursOf(S, table)) /\ Cardinality(HoursOf(S, table)) \in Nat
      /\ IsFiniteSet(HoursOf(T, table)) /\ Cardinality(HoursOf(T, table)) \in Nat
    BY <1>1, HoursOfFinite
<1>4. Cardinality(HoursOf(S, table) \cap HoursOf(T, table)) \in Nat
    BY <1>3, FS_Subset, FS_CardinalityType
<1>5. Cardinality(HoursOf(S \cup T, table))
        = Cardinality(HoursOf(S, table)) + Cardinality(HoursOf(T, table))
            - Cardinality(HoursOf(S, table) \cap HoursOf(T, table))
    BY <1>2, <1>3, FS_Union
<1> QED
    BY <1>3, <1>4, <1>5

\* One session has as many hours as it lasts.
LEMMA HoursOfOne ==
    ASSUME NEW s \in SessionIds, NEW table, Rows({s}, table)
    PROVE  Cardinality(HoursOf({s}, table)) = Length(table[s])
<1> DEFINE from == table[s].start
           to == table[s].end - 1
<1>1. from \in Int /\ to \in Int /\ from <= to /\ Length(table[s]) = to - from + 1
    <2>1. table[s] \in SessionRow /\ table[s].start < table[s].end
        BY DEF Rows
    <2>2. table[s].start \in Int /\ table[s].end \in Int
        BY <2>1, RowType
    <2> QED
        BY <2>1, <2>2 DEF Length
<1>2. HoursOf({s}, table) = {s} \X (from .. to)
    BY DEF HoursOf
<1> HIDE DEF from, to
<1>3. IsFiniteSet(from .. to) /\ Cardinality(from .. to) = to - from + 1
    BY <1>1, FS_Interval
<1>4. IsFiniteSet({s}) /\ Cardinality({s}) = 1
    BY FS_Singleton
<1>5. Cardinality(HoursOf({s}, table)) = Cardinality({s}) * Cardinality(from .. to)
    BY <1>2, <1>3, <1>4, FS_Product
<1>6. Cardinality(from .. to) = Length(table[s]) /\ Length(table[s]) \in Int
    BY <1>1, <1>3
<1> QED
    BY <1>4, <1>5, <1>6

\* One session less is as many hours less as it lasts.
LEMMA HoursOfDisjoint ==
    ASSUME NEW S \in SUBSET SessionIds, NEW s \in S, NEW table, Rows(S, table)
    PROVE  Cardinality(HoursOf(S, table))
                = Cardinality(HoursOf(S \ {s}, table)) + Length(table[s])
<1>1. Rows(S \ {s}, table) /\ Rows({s}, table) /\ s \in SessionIds
    BY DEF Rows
<1>2. HoursOf(S, table) = HoursOf(S \ {s}, table) \cup HoursOf({s}, table)
    BY DEF HoursOf
<1>3. HoursOf(S \ {s}, table) \cap HoursOf({s}, table) = {}
    BY DEF HoursOf
<1>4. /\ IsFiniteSet(HoursOf(S \ {s}, table))
      /\ Cardinality(HoursOf(S \ {s}, table)) \in Nat
      /\ IsFiniteSet(HoursOf({s}, table))
    BY <1>1, HoursOfFinite
<1>5. Cardinality(HoursOf({s}, table)) = Length(table[s]) /\ Length(table[s]) \in Nat
    BY <1>1, HoursOfOne, RowType DEF Rows
<1>6. Cardinality(HoursOf(S \ {s}, table) \cup HoursOf({s}, table))
        = Cardinality(HoursOf(S \ {s}, table)) + Cardinality(HoursOf({s}, table))
            - Cardinality(HoursOf(S \ {s}, table) \cap HoursOf({s}, table))
    BY <1>4, FS_Union
<1>7. Cardinality(HoursOf(S \ {s}, table) \cap HoursOf({s}, table)) = 0
    BY <1>3, FS_EmptySet
<1> QED
    BY <1>2, <1>4, <1>5, <1>6, <1>7

\* Sessions with one time of day on different dates: the length times the dates.
LEMMA HoursOfDates ==
    ASSUME NEW S \in SUBSET SessionIds, NEW table, Rows(S, table),
           NEW row \in SessionRow, row.start < row.end, NEW days \in SUBSET Days,
           \A s \in S : /\ table[s].start = row.start /\ table[s].end = row.end
                        /\ table[s].day \in days,
           \A s, q \in S : s # q => table[s].day # table[q].day
    PROVE  Cardinality(HoursOf(S, table)) <= Length(row) * Cardinality(days)
<1> DEFINE hours == row.start .. row.end - 1
           H == HoursOf(S, table)
           f == [x \in H |-> <<table[x[1]].day, x[2]>>]
<1>1. \A x \in H : x = <<x[1], x[2]>> /\ x[1] \in S /\ x[2] \in hours
    BY DEF HoursOf
<1>2. f \in [H -> days \X hours]
    BY <1>1
<1>3. ASSUME NEW x \in H, NEW z \in H, f[x] = f[z] PROVE x = z
    <2>1. table[x[1]].day = table[z[1]].day /\ x[2] = z[2]
        BY <1>3
    <2>2. x[1] = z[1]
        BY <1>1, <2>1
    <2> QED
        BY <1>1, <2>1, <2>2
<1>4. f \in Injection(H, days \X hours)
    <2>1. DOMAIN f = H
        OBVIOUS
    <2> HIDE DEF H, f, hours
    <2> QED
        BY <1>2, <1>3, <2>1 DEF Injection, IsInjective
<1>5. /\ IsFiniteSet(days) /\ Cardinality(days) \in Nat
      /\ IsFiniteSet(hours) /\ Cardinality(hours) = Length(row) /\ Length(row) \in Nat
    <2>1. row.start \in Int /\ row.end - 1 \in Int
        BY RowType
    <2>2. IsFiniteSet(days) /\ Cardinality(days) \in Nat
        BY FS_Subset, FS_CardinalityType
    <2>3. /\ IsFiniteSet(hours)
          /\ Cardinality(hours)
                = IF row.start > row.end - 1 THEN 0 ELSE (row.end - 1) - row.start + 1
        BY <2>1, FS_Interval
    <2>4. row.start \in Int /\ row.end \in Int /\ Length(row) = row.end - row.start
        BY RowType DEF Length
    <2> HIDE DEF hours
    <2> QED
        BY <2>2, <2>3, <2>4
<1> HIDE DEF hours, H, f
<1>6. /\ IsFiniteSet(days \X hours)
      /\ Cardinality(days \X hours) = Cardinality(days) * Cardinality(hours)
    BY <1>5, FS_Product
<1>7. Cardinality(H) <= Cardinality(days \X hours)
    BY <1>4, <1>6, FS_Injection, HoursOfFinite DEF H
<1> QED
    BY <1>5, <1>6, <1>7 DEF H

\* What a teacher teaches are rows that start before they end.
LEMMA TaughtRows ==
    ASSUME TypeInv
    PROVE  \A t, y : /\ TaughtSessions(t, y) \in SUBSET SessionIds
                     /\ Rows(TaughtSessions(t, y), sessions)
BY DEF TypeInv, TypeOK, WellFormed, Live, TaughtSessions, Rows

\* The hours of teacher t in year y, and what the balance says of them.
Covered(t, y) == Cardinality(HoursOf(TaughtSessions(t, y), sessions)) <= booked[t][y]

\* A batch leaves the hours of a teacher covered.
LEMMA BatchCovered ==
    ASSUME TypeInv, TypeInv', HoursCovered,
           NEW row \in SessionRow, NEW days \in SUBSET Days, NEW teachers \in SUBSET Teachers,
           Batch(row, days, teachers),
           NEW t \in Teachers, NEW y \in Years
    PROVE  Covered(t, y)'
<1> DEFINE S == TaughtSessions(t, y)
           M == Missing(row, days)
           D == {d \in M : YearOf[d] = y}
           A == {s \in SessionIds : /\ Added(s, row, days, teachers)
                                    /\ t \in teachers
                                    /\ sessions'[s].day \in D}
<1>1. Cardinality(HoursOf(S, sessions)) <= booked[t][y]
    BY TaughtAsHoursOf DEF HoursCovered
<1>2. S \in SUBSET SessionIds /\ Rows(S, sessions)
    BY TaughtRows
<1>3. Cardinality(HoursOf(S, sessions)) \in Nat /\ booked[t][y] \in Nat
    BY <1>2, HoursOfFinite DEF TypeInv, TypeOK
<1>4. \A s \in SessionIds :
        \/ sessions'[s] = sessions[s] /\ staffing'[s] = staffing[s]
        \/ Added(s, row, days, teachers)
    BY BatchRows DEF Batch, TypeInv
<1>5. ASSUME NEW s \in SessionIds, Added(s, row, days, teachers)
      PROVE  /\ sessions'[s].start = row.start /\ sessions'[s].end = row.end
             /\ sessions'[s].day \in M /\ sessions'[s] \in SessionRow
             /\ s \notin Live /\ staffing'[s] = teachers
    <2>1. PICK d \in M : sessions'[s] = OnDay(row, d)
        BY <1>5 DEF Added
    <2>2. OnDay(row, d).start = row.start /\ OnDay(row, d).end = row.end
          /\ OnDay(row, d).day = d /\ d \in Days
        BY DEF OnDay, SessionRow, Missing
    <2> QED
        BY <1>5, <2>1, <2>2, RowType DEF Added
<1>6. TaughtSessions(t, y)' \subseteq S \cup A
    <2> SUFFICES ASSUME NEW s \in SessionIds, sessions'[s] # NoSession,
                        t \in staffing'[s], YearOf[sessions'[s].day] = y
                 PROVE  s \in S \cup A
        BY DEF TaughtSessions, Live
    <2>1. CASE sessions'[s] = sessions[s] /\ staffing'[s] = staffing[s]
        BY <2>1 DEF TaughtSessions, Live
    <2>2. CASE Added(s, row, days, teachers)
        BY <1>5, <2>2
    <2> QED
        BY <1>4, <2>1, <2>2
<1>7. \A s \in S : sessions'[s] = sessions[s]
    BY <1>2, <1>4, <1>5 DEF TaughtSessions
<1>8. HoursOf(S, sessions') = HoursOf(S, sessions)
    BY <1>7, HoursOfSame
<1>9. CASE days = {}
    <2>1. A = {} /\ booked' = booked
        BY <1>9 DEF Missing, Batch, BatchCommits, balances
    <2>2. TaughtSessions(t, y)' \in SUBSET S /\ Rows(S, sessions')
        BY <1>2, <1>6, <1>7, <2>1 DEF Rows
    <2>3. Cardinality(HoursOf(TaughtSessions(t, y)', sessions'))
            <= Cardinality(HoursOf(S, sessions'))
        BY <1>2, <2>2, HoursOfFewer
    <2>4. Rows(TaughtSessions(t, y)', sessions') /\ TaughtSessions(t, y)' \in SUBSET SessionIds
        BY <1>2, <2>2 DEF Rows
    <2>5. Cardinality(HoursOf(TaughtSessions(t, y)', sessions')) \in Nat
        BY <2>4, HoursOfFinite
    <2> QED
        BY <1>1, <1>3, <1>8, <2>1, <2>3, <2>5 DEF Covered
<1>10. CASE days # {}
    <2>1. row.start < row.end /\ HoursCharged(teachers, row, M)
        BY <1>10, BatchRows DEF Batch, BatchCommits, TypeInv
    <2>2. Rows(S \cup A, sessions') /\ S \cup A \in SUBSET SessionIds
        BY <1>2, <1>5, <1>7, <2>1 DEF Rows
    <2>3. Rows(A, sessions') /\ A \in SUBSET SessionIds
        BY <2>2 DEF Rows
    <2>4. /\ Cardinality(HoursOf(TaughtSessions(t, y)', sessions')) \in Nat
          /\ Cardinality(HoursOf(TaughtSessions(t, y)', sessions'))
                <= Cardinality(HoursOf(S \cup A, sessions'))
        <3>1. TaughtSessions(t, y)' \in SUBSET (S \cup A)
            BY <1>6
        <3>2. Rows(TaughtSessions(t, y)', sessions')
              /\ TaughtSessions(t, y)' \in SUBSET SessionIds
            BY <2>2, <3>1 DEF Rows
        <3> HIDE DEF S, A
        <3> QED
            BY <2>2, <3>1, <3>2, HoursOfFinite, HoursOfFewer
    <2>5. Cardinality(HoursOf(S \cup A, sessions'))
            <= Cardinality(HoursOf(S, sessions')) + Cardinality(HoursOf(A, sessions'))
        BY <1>2, <2>2, <2>3, HoursOfUnion
    <2>6. Cardinality(HoursOf(A, sessions')) \in Nat
          /\ Cardinality(HoursOf(S \cup A, sessions')) \in Nat
        BY <2>2, <2>3, HoursOfFinite
    <2>7. CASE t \in teachers
        <3>1. D \in SUBSET Days
            BY DEF Missing
        <3>2. \A s \in A : /\ sessions'[s].start = row.start /\ sessions'[s].end = row.end
                           /\ sessions'[s].day \in D
            BY <1>5
        <3>3. \A s, q \in A : s # q => sessions'[s].day # sessions'[q].day
            <4>1. AddedOnDifferentDays(row, days, teachers)
                BY BatchRows DEF Batch, TypeInv
            <4> QED
                BY <4>1 DEF AddedOnDifferentDays
        <3> HIDE DEF A, D
        <3>4. Cardinality(HoursOf(A, sessions')) <= Length(row) * Cardinality(D)
            BY <2>1, <2>3, <3>1, <3>2, <3>3, HoursOfDates
        <3>5. booked'[t][y] = booked[t][y] + Length(row) * Cardinality(D)
            BY <2>1, <2>7 DEF HoursCharged, YearHours, D
        <3>6. Length(row) * Cardinality(D) \in Nat
            <4>1. Length(row) \in Nat /\ Cardinality(D) \in Nat
                BY <2>1, <3>1, YearHoursType, RowType
            <4> QED
                BY <4>1
        <3> QED
            BY <1>1, <1>3, <1>8, <2>4, <2>5, <2>6, <3>4, <3>5, <3>6 DEF Covered
    <2>8. CASE t \notin teachers
        <3>1. A = {} /\ booked'[t] = booked[t]
            BY <2>1, <2>8 DEF HoursCharged
        <3>2. HoursOf(S \cup A, sessions') = HoursOf(S, sessions)
            <4>1. S \cup A = S
                BY <3>1
            <4> QED
                BY <1>8, <4>1
        <3>3. Cardinality(HoursOf(TaughtSessions(t, y)', sessions')) <= booked[t][y]
            BY <1>1, <1>3, <2>4, <3>2
        <3> QED
            BY <3>1, <3>3 DEF Covered
    <2> QED
        BY <2>7, <2>8
<1> QED
    BY <1>9, <1>10

\* With fewer sessions, of unchanged rows, and no smaller balance.
LEMMA FewerCovered ==
    ASSUME TypeInv, HoursCovered, NEW t \in Teachers, NEW y \in Years,
           TaughtSessions(t, y)' \subseteq TaughtSessions(t, y),
           \A s \in TaughtSessions(t, y)' :
                /\ sessions'[s].start = sessions[s].start
                /\ sessions'[s].end = sessions[s].end,
           booked'[t][y] = booked[t][y]
    PROVE  Covered(t, y)'
<1> DEFINE S == TaughtSessions(t, y)
           T == TaughtSessions(t, y)'
<1>1. HoursOf(T, sessions') = HoursOf(T, sessions)
    BY HoursOfSame
<1>2. S \in SUBSET SessionIds /\ Rows(S, sessions) /\ T \in SUBSET S
    BY TaughtRows
<1>3. T \in SUBSET SessionIds /\ Rows(T, sessions)
    BY <1>2 DEF Rows
<1>4. /\ Cardinality(HoursOf(T, sessions)) <= Cardinality(HoursOf(S, sessions))
      /\ Cardinality(HoursOf(T, sessions)) \in Nat
      /\ Cardinality(HoursOf(S, sessions)) \in Nat
    BY <1>2, <1>3, HoursOfFewer, HoursOfFinite
<1>5. Cardinality(HoursOf(S, sessions)) <= booked[t][y] /\ booked[t][y] \in Nat
    BY TaughtAsHoursOf DEF HoursCovered, TypeInv, TypeOK
<1> QED
    BY <1>1, <1>4, <1>5 DEF Covered

\* Sessions whose hours are the balance's at most, and one more of its length.
LEMMA OneMore ==
    ASSUME NEW S \in SUBSET SessionIds, NEW table, Rows(S, table), NEW s \in S,
           NEW n \in Int, Cardinality(HoursOf(S \ {s}, table)) <= n
    PROVE  Cardinality(HoursOf(S, table)) <= n + Length(table[s])
<1>1. Rows(S \ {s}, table) /\ S \ {s} \in SUBSET SessionIds
    BY DEF Rows
<1>2. Cardinality(HoursOf(S \ {s}, table)) \in Nat
    BY <1>1, HoursOfFinite
<1>3. Length(table[s]) \in Int
    BY RowType DEF Rows
<1> QED
    BY <1>2, <1>3, HoursOfDisjoint

\* A change of the teachers on a session leaves the hours covered.
LEMMA AssignCovered ==
    ASSUME TypeInv, TypeInv', HoursCovered,
           NEW m \in SessionIds, NEW teachers \in SUBSET Teachers, Assigned(m, teachers),
           NEW t \in Teachers, NEW y \in Years
    PROVE  Covered(t, y)'
<1> DEFINE S == TaughtSessions(t, y)
           T == TaughtSessions(t, y)'
           row == sessions[m]
           new == teachers \ staffing[m]
<1>1. /\ m \in Live /\ sessions' = sessions
      /\ staffing'[m] = staffing[m] \cup teachers
      /\ \A s \in SessionIds \ {m} : staffing'[s] = staffing[s]
      /\ HoursCharged(new, row, {row.day})
    BY DEF Assigned, TypeInv, TypeOK
<1>2. row \in SessionRow /\ row.start < row.end
    BY <1>1 DEF TypeInv, TypeOK, WellFormed, Live
<1>3. CASE t \in new /\ YearOf[row.day] = y
    <2>1. m \in T /\ T \ {m} = S /\ S \in SUBSET SessionIds
        BY <1>1, <1>3 DEF TaughtSessions, Live
    <2>2. T \in SUBSET SessionIds /\ Rows(T, sessions')
        BY <1>1, <2>1, TaughtRows DEF Rows, TypeInv, TypeOK, WellFormed, Live
    <2>3. Cardinality(HoursOf(S, sessions')) <= booked[t][y] /\ booked[t][y] \in Int
        BY <1>1, TaughtAsHoursOf DEF HoursCovered, TypeInv, TypeOK
    <2>4. Cardinality(HoursOf(T, sessions')) <= booked[t][y] + Length(row)
        <3>1. Cardinality(HoursOf(T \ {m}, sessions')) <= booked[t][y]
            BY <2>1, <2>3
        <3> HIDE DEF T
        <3> QED
            BY <1>1, <2>1, <2>2, <2>3, <3>1, OneMore
    <2>5. booked'[t][y] = booked[t][y] + Length(row)
        <3>1. {d \in {row.day} : YearOf[d] = y} = {row.day}
            BY <1>3
        <3>2. Cardinality({row.day}) = 1
            BY FS_Singleton
        <3>3. YearHours(row, {row.day}, y) = Length(row) * 1
            BY <3>1, <3>2 DEF YearHours
        <3>4. Length(row) * 1 = Length(row)
            BY <1>2, RowType
        <3> QED
            BY <1>1, <1>3, <3>3, <3>4 DEF HoursCharged
    <2> QED
        BY <2>4, <2>5 DEF Covered
<1>4. CASE ~(t \in new /\ YearOf[row.day] = y)
    <2>1. T \subseteq S
        BY <1>1, <1>4 DEF TaughtSessions, Live
    <2>2. booked'[t][y] = booked[t][y]
        <3>1. CASE t \notin new
            BY <1>1, <3>1 DEF HoursCharged
        <3>2. CASE t \in new /\ YearOf[row.day] # y
            <4>1. {d \in {row.day} : YearOf[d] = y} = {}
                BY <3>2
            <4>2. YearHours(row, {row.day}, y) = Length(row) * 0
                BY <4>1, FS_EmptySet DEF YearHours
            <4>3. Length(row) * 0 = 0 /\ booked[t][y] \in Nat
                BY <1>2, RowType DEF TypeInv, TypeOK
            <4> QED
                BY <1>1, <3>2, <4>2, <4>3 DEF HoursCharged
        <3> QED
            BY <1>4, <3>1, <3>2
    <2> QED
        BY <1>1, <2>1, <2>2, FewerCovered
<1> QED
    BY <1>3, <1>4

\* A move leaves the hours covered.
LEMMA MoveCovered ==
    ASSUME TypeInv, TypeInv', HoursCovered,
           NEW m \in SessionIds, NEW row \in SessionRow, Moved(m, row),
           NEW t \in Teachers, NEW y \in Years
    PROVE  Covered(t, y)'
<1> DEFINE S == TaughtSessions(t, y)
           T == TaughtSessions(t, y)'
           old == sessions[m]
<1>1. /\ m \in Live /\ staffing' = staffing /\ sessions'[m] = row
      /\ \A s \in SessionIds \ {m} : sessions'[s] = sessions[s]
      /\ HoursMoved(m, row) /\ row.start < row.end
    BY DEF Moved, TypeInv, TypeOK
<1>2. old \in SessionRow /\ old.start < old.end /\ Length(old) \in Nat /\ Length(row) \in Nat
    BY <1>1, RowType DEF TypeInv, TypeOK, WellFormed, Live
<1>3. CASE ~(t \in staffing[m] /\ HoursChanged(old, row))
    <2>1. booked'[t][y] = booked[t][y]
        BY <1>1, <1>3 DEF HoursMoved
    <2>2. CASE t \notin staffing[m]
        <3>1. T \subseteq S /\ \A s \in T : sessions'[s] = sessions[s]
            BY <1>1, <2>2 DEF TaughtSessions, Live
        <3> QED
            BY <2>1, <3>1, FewerCovered
    <2>3. CASE ~HoursChanged(old, row)
        <3>1. old.start = row.start /\ old.end = row.end /\ old.day = row.day
            BY <2>3 DEF HoursChanged
        <3>2. T \subseteq S /\ \A s \in T : /\ sessions'[s].start = sessions[s].start
                                         /\ sessions'[s].end = sessions[s].end
            BY <1>1, <3>1 DEF TaughtSessions, Live
        <3> QED
            BY <2>1, <3>2, FewerCovered
    <2> QED
        BY <1>3, <2>2, <2>3
<1>4. CASE t \in staffing[m] /\ HoursChanged(old, row)
    <2> DEFINE R == S \ {m}
               rest == Cardinality(HoursOf(R, sessions))
    <2>1. /\ S \in SUBSET SessionIds /\ Rows(S, sessions)
          /\ R \in SUBSET SessionIds /\ Rows(R, sessions)
        BY TaughtRows DEF Rows
    <2>2. rest \in Nat /\ booked[t] \in [Years -> Nat]
        BY <2>1, HoursOfFinite DEF TypeInv, TypeOK
    <2>3. Cardinality(HoursOf(S, sessions)) <= booked[t][y]
        BY TaughtAsHoursOf DEF HoursCovered
    <2>4. /\ booked'[t] = Adjusted(Refunded(t, old), YearOf[row.day], Length(row))
          /\ Refunded(t, old) = Adjusted(booked[t], YearOf[old.day], -Length(old))
          /\ Refunded(t, old) \in [Years -> Nat]
        BY <1>1, <1>2, <1>4, <2>2, AdjustedType DEF HoursMoved, Refunded
    <2>5. rest <= Refunded(t, old)[y]
        <3>1. CASE YearOf[old.day] = y
            <4>1. m \in S
                BY <1>1, <1>4, <3>1 DEF TaughtSessions
            <4>2. Cardinality(HoursOf(S, sessions)) = rest + Length(old)
                BY <2>1, <4>1, HoursOfDisjoint
            <4>3. Refunded(t, old)[y] = IF booked[t][y] + (-Length(old)) < 0 THEN 0
                                        ELSE booked[t][y] + (-Length(old))
                BY <2>2, <2>4, <3>1 DEF Adjusted
            <4> HIDE DEF rest, S
            <4> QED
                BY <1>2, <2>2, <2>3, <4>2, <4>3
        <3>2. CASE YearOf[old.day] # y
            <4>1. m \notin S
                BY <3>2 DEF TaughtSessions
            <4>2. R = S
                BY <4>1
            <4>3. Refunded(t, old)[y] = booked[t][y]
                BY <2>2, <2>4, <3>2 DEF Adjusted
            <4> QED
                BY <2>3, <4>2, <4>3
        <3> QED
            BY <3>1, <3>2
    <2>6. T \ {m} = R
        BY <1>1 DEF TaughtSessions, Live
    <2>7. HoursOf(R, sessions') = HoursOf(R, sessions)
        <3>1. \A s \in R : sessions'[s] = sessions[s]
            BY <1>1, <2>1
        <3> QED
            BY <3>1, HoursOfSame
    <2>8. T \in SUBSET SessionIds /\ Rows(T, sessions')
        BY <1>1, <2>1, <2>6 DEF Rows
    <2>9. Refunded(t, old)[y] \in Nat
        BY <2>4
    <2>10. CASE YearOf[row.day] = y
        <3>1. m \in T
            BY <1>1, <1>4, <2>10 DEF TaughtSessions, Live, TypeInv, TypeOK
        <3>2. booked'[t][y] = Refunded(t, old)[y] + Length(row)
            <4> DEFINE refunded == Refunded(t, old)
                       hours == Length(row)
            <4>1. refunded[y] + hours \in Nat /\ ~(refunded[y] + hours < 0)
                BY <1>2, <2>9
            <4>2. /\ booked'[t] = Adjusted(refunded, y, hours)
                  /\ refunded \in [Years -> Nat]
                BY <2>4, <2>10
            <4> HIDE DEF refunded, hours
            <4>3. booked'[t][y] = refunded[y] + hours
                BY <4>1, <4>2 DEF Adjusted
            <4> QED
                BY <4>3 DEF refunded, hours
        <3>3. Cardinality(HoursOf(T \ {m}, sessions')) <= Refunded(t, old)[y]
            BY <2>5, <2>6, <2>7
        <3> HIDE DEF T
        <3>4. Cardinality(HoursOf(T, sessions')) <= Refunded(t, old)[y] + Length(row)
            BY <1>1, <2>8, <2>9, <3>1, <3>3, OneMore
        <3> QED
            BY <3>2, <3>4 DEF Covered, T
    <2>11. CASE YearOf[row.day] # y
        <3>1. m \notin T
            BY <1>1, <2>11 DEF TaughtSessions
        <3>2. T = R
            BY <2>6, <3>1
        <3>3. booked'[t][y] = Refunded(t, old)[y]
            BY <2>4, <2>11 DEF Adjusted
        <3> QED
            BY <2>5, <2>7, <3>2, <3>3 DEF Covered
    <2> QED
        BY <2>10, <2>11
<1> QED
    BY <1>3, <1>4

\* No step leaves hours uncovered.
LEMMA HoursStayCovered ==
    TypeInv /\ TypeInv' /\ ReferencesHold /\ HoursCovered /\ [Next]_vars => HoursCovered'
<1> SUFFICES ASSUME TypeInv, TypeInv', ReferencesHold, HoursCovered, [Next]_vars,
                    NEW t \in Teachers, NEW y \in Years
             PROVE  Covered(t, y)'
    BY TaughtAsHoursOf DEF HoursCovered, Covered, TaughtHours, HoursOf
<1> DEFINE S == TaughtSessions(t, y)
           T == TaughtSessions(t, y)'
<1>1. CASE Kept
    <2>1. T \subseteq S /\ sessions' = sessions /\ booked' = booked
        BY <1>1 DEF Kept, balances, TaughtSessions, Live
    <2> QED
        BY <2>1, FewerCovered
<1>2. CASE \E row \in SessionRow, days \in SUBSET Days, teachers \in SUBSET Teachers :
                Batch(row, days, teachers)
    BY <1>2, BatchCovered
<1>3. ASSUME NEW m \in SessionIds, NEW row \in SessionRow, Inserted(m, row)
      PROVE  Covered(t, y)'
    <2>1. staffing'[m] = {} /\ booked' = booked
        BY <1>3 DEF Inserted, ReferencesHold, balances
    <2>2. \A s \in SessionIds \ {m} : sessions'[s] = sessions[s] /\ staffing'[s] = staffing[s]
        BY <1>3 DEF Inserted, TypeInv, TypeOK
    <2>3. T \subseteq S /\ \A s \in T : sessions'[s] = sessions[s]
        BY <2>1, <2>2 DEF TaughtSessions, Live
    <2> QED
        BY <2>1, <2>3, FewerCovered
<1>4. CASE \E m \in SessionIds, teachers \in SUBSET Teachers : Assigned(m, teachers)
    BY <1>4, AssignCovered
<1>5. ASSUME NEW ids, Deleted(ids) PROVE Covered(t, y)'
    <2>1. /\ booked' = booked
          /\ \A s \in SessionIds : sessions'[s] # NoSession =>
                sessions'[s] = sessions[s] /\ staffing'[s] = staffing[s]
        BY <1>5 DEF Deleted, Removed, balances
    <2>2. T \subseteq S /\ \A s \in T : sessions'[s] = sessions[s]
        BY <2>1 DEF TaughtSessions, Live
    <2> QED
        BY <2>1, <2>2, FewerCovered
<1>6. CASE \E m \in SessionIds, row \in SessionRow : Moved(m, row)
    BY <1>6, MoveCovered
<1> QED
    BY <1>1, <1>2, <1>3, <1>4, <1>5, <1>6, Steps

\* The hours that a teacher's sessions of a year add up to never pass the
\* balance of that year; with CapsAlwaysRespected they never pass the cap.
THEOREM HoursAlwaysCovered == Spec => []HoursCovered
<1>1. Init => HoursCovered
    <2> SUFFICES ASSUME Init, NEW t \in Teachers, NEW y \in Years
                 PROVE  Cardinality(TaughtHours(t, y)) <= booked[t][y]
        BY DEF HoursCovered
    <2>1. TaughtHours(t, y) = {}
        BY DEF Init, TaughtHours, TaughtSessions, Live
    <2> QED
        BY <2>1, FS_EmptySet DEF Init
<1> QED
    BY <1>1, TypeCorrect, ReferencesAlwaysHold, HoursStayCovered, PTL DEF Spec
-----------------------------------------------------------------------------
(* A batch is complete or absent. *)

\* A committed batch leaves a session on each of its dates: one that it added
\* or one that was there already.
LEMMA BatchHeld ==
    ASSUME TypeOK,
           NEW row \in SessionRow, NEW days \in SUBSET Days, NEW teachers,
           BatchCommits(row, days, teachers), NEW d \in days
    PROVE  HeldAfter(OnDay(row, d))
<1> DEFINE M == Missing(row, days)
<1>1. PICK id \in [M -> FreshIds] :
        /\ \A e, f \in M : id[e] = id[f] => e = f
        /\ sessions' = [s \in SessionIds |->
                IF \E e \in M : id[e] = s
                THEN OnDay(row, CHOOSE e \in M : id[e] = s)
                ELSE sessions[s]]
    BY DEF BatchCommits
<1>2. CASE d \in M
    <2>1. id[d] \in SessionIds
        BY <1>1, <1>2 DEF FreshIds
    <2>2. (CHOOSE e \in M : id[e] = id[d]) = d
        BY <1>1, <1>2
    <2> HIDE DEF M
    <2>3. sessions'[id[d]] = OnDay(row, d)
        BY <1>1, <1>2, <2>1, <2>2
    <2>4. OnDay(row, d) # NoSession
        BY RowType
    <2> QED
        BY <2>1, <2>3, <2>4 DEF HeldAfter
<1>3. CASE d \notin M
    <2>1. SlotTaken(NoSession, OnDay(row, d))
        BY <1>3 DEF Missing
    <2>2. PICK q \in Live :
            /\ sessions[q].class = OnDay(row, d).class
            /\ sessions[q].day = OnDay(row, d).day
            /\ sessions[q].start = OnDay(row, d).start
        BY <2>1 DEF SlotTaken
    <2>3. \A e \in M : id[e] # q
        BY <1>1 DEF FreshIds
    <2> HIDE DEF M
    <2>4. q \in SessionIds /\ sessions'[q] = sessions[q] /\ sessions[q] # NoSession
        BY <1>1, <2>3 DEF Live
    <2> QED
        BY <2>2, <2>4 DEF HeldAfter
<1> QED
    BY <1>2, <1>3

\* A request that ends after a step of its own was a batch, or changed nothing.
LEMMA RequestsEnd ==
    ASSUME TypeInv, [Next]_vars, NEW r \in Requests,
           requests[r].pc \in {"autofill", "repeat"}, requests'[r].pc = "idle",
           sessions' # sessions
    PROVE  Autofill(r) \/ RepeatSessionWeekly(r)
<1>1. ASSUME NEW q \in Requests, q # r,
             \/ CreateSession(q) \/ AddSessionTeacher(q) \/ AddSessionTeacherFails(q)
             \/ UndoCreate(q) \/ Autofill(q) \/ ReadTemplate(q) \/ ReadTemplateTeachers(q)
             \/ RepeatSessionWeekly(q) \/ Abandon(q)
      PROVE  FALSE
    <2>1. \A p : requests' = [requests EXCEPT ![q] = p] => requests'[r] = requests[r]
        BY <1>1 DEF TypeInv, TypeOK
    <2>2. \E p : requests' = [requests EXCEPT ![q] = p]
        BY <1>1 DEF CreateSession, AddSessionTeacher, AddSessionTeacherFails, UndoCreate,
                    Autofill, ReadTemplate, ReadTemplateTeachers, RepeatSessionWeekly, Abandon,
                    Finish
    <2> QED
        BY <2>1, <2>2
<1>2. ~ (CreateSession(r) \/ AddSessionTeacher(r) \/ AddSessionTeacherFails(r) \/ UndoCreate(r)
         \/ ReadTemplate(r) \/ ReadTemplateTeachers(r) \/ Abandon(r))
    BY DEF CreateSession, AddSessionTeacher, AddSessionTeacherFails, UndoCreate, ReadTemplate,
           ReadTemplateTeachers, Abandon
<1>3. requests' # requests
    OBVIOUS
<1>4. ~ (GenerateSessions \/ UpdateSession \/ DeleteSession \/ DeleteSessionsForClass
         \/ CreateClass \/ UpdateClass \/ DeleteClass \/ UNCHANGED vars)
    BY <1>3 DEF GenerateSessions, UpdateSession, DeleteSession, DeleteSessionsForClass,
                CreateClass, UpdateClass, DeleteClass, vars
<1> QED
    BY <1>1, <1>2, <1>4 DEF Next

\* BatchCompletes: autofill and repeat insert in a transaction, so a term is
\* filled to its end or not at all, whatever happens in the meantime.
THEOREM BatchesAreComplete == Spec => BatchCompletes
<1> DEFINE Complete ==
        \A r \in Requests :
            (requests[r].pc \in {"autofill", "repeat"} /\ requests'[r].pc = "idle"
                /\ sessions' # sessions) =>
                    \A d \in WeeklyAfter(requests[r].row.day, requests[r].until) :
                        HeldAfter(OnDay(requests[r].row, d))
<1>1. TypeInv /\ [Next]_vars => Complete
    <2> SUFFICES ASSUME TypeInv, [Next]_vars, NEW r \in Requests,
                        requests[r].pc \in {"autofill", "repeat"}, requests'[r].pc = "idle",
                        sessions' # sessions,
                        NEW d \in WeeklyAfter(requests[r].row.day, requests[r].until)
                 PROVE  HeldAfter(OnDay(requests[r].row, d))
        OBVIOUS
    <2> DEFINE days == WeeklyAfter(requests[r].row.day, requests[r].until)
    <2>1. Autofill(r) \/ RepeatSessionWeekly(r)
        BY RequestsEnd
    <2>2. BatchCommits(requests[r].row, days, requests[r].teachers)
        BY <2>1 DEF Autofill, RepeatSessionWeekly, BatchRolledBack
    <2>3. requests[r].row \in SessionRow
        BY DEF TypeInv, WellFormed, RequestInOrder
    <2>4. days \in SUBSET Days
        BY DEF WeeklyAfter
    <2> QED
        BY <2>2, <2>3, <2>4, BatchHeld DEF TypeInv
<1>2. Spec => [][Complete]_vars
    BY <1>1, TypeCorrect, PTL DEF Spec
<1> QED
    BY <1>2 DEF BatchCompletes
=============================================================================
