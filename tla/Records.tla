------------------------------- MODULE Records -------------------------------
(***************************************************************************)
(* What is recorded about students: the results of their units, their      *)
(* attendance, and their enrolments in programs.                           *)
(*                                                                         *)
(* Every request is one statement and works on whatever is there when it   *)
(* runs: the page or popup it was sent from may be old, so each action may *)
(* happen at any time.  The unit enrolments and the classes they are taken *)
(* in come from imports; no Go code inserts or deletes them.               *)
(***************************************************************************)
EXTENDS Integers

CONSTANTS
    Units,          \* client_subject_enrolments
    UnitStudent,    \* unit -> its student
    UnitSubject,    \* unit -> its subject
    ClassUnits,     \* class -> the units taken in it (class_enrollments)
    SessionClass,   \* session -> its class
    Programs,       \* programs
    Groups,         \* intake groups
    NoGroup,        \* an enrolment without intake group
    MaxEnrolments   \* bound: the enrolments that are ever created

Students == {UnitStudent[u] : u \in Units}
Subjects == {UnitSubject[u] : u \in Units}
Classes == DOMAIN ClassUnits
Sessions == DOMAIN SessionClass

ASSUME RecordsAssumption ==
    /\ DOMAIN UnitStudent = Units /\ DOMAIN UnitSubject = Units
    /\ \A c \in Classes : ClassUnits[c] \subseteq Units
    /\ \A s \in Sessions : SessionClass[s] \in Classes
    /\ NoGroup \notin Groups
    /\ MaxEnrolments \in Nat

VARIABLES
    result,         \* unit -> what was recorded, or NoResult
    published,      \* the units whose result the students see
    attendance,     \* <<session, student>> -> status, or Unmarked
    enrolments,     \* student_course_enrollments: id -> row
    lastEnrolment   \* the sequence of their ids

recordsVars == <<result, published, attendance, enrolments, lastEnrolment>>

Results == {"SC", "NS", "IP"}
NoResult == "none"
Marks == {"Present", "Online", "Absent-Notified", "Absent-Unnotified", "Excused"}
Unmarked == "unmarked"
Open == {"Active", "Deferred", "Suspended"}
Statuses == Open \cup {"Cancelled", "Completed"}
Enrolment == [student: Students, program: Programs, group: Groups \cup {NoGroup},
              status: Statuses, deleted: BOOLEAN]

RecordsInit ==
    /\ result = [u \in Units |-> NoResult]
    /\ published = {}
    /\ attendance = [m \in Sessions \X Students |-> Unmarked]
    /\ enrolments = [e \in {} |-> NoGroup]
    /\ lastEnrolment = 0

-----------------------------------------------------------------------------
(* Results                                                                 *)

\* The students with a unit, of whatever subject, in one of the classes K.
Enrolled(K) == {UnitStudent[u] : u \in UNION {ClassUnits[c] : c \in K}}

\* The grid has a row for each of them and a column for each of their subjects.
GridColumns(K) == {UnitSubject[u] : u \in {v \in Units : UnitStudent[v] \in Enrolled(K)}}

\* The units that may stand in a cell.  A student can have a subject twice,
\* in a program and alone: the last row of the query stays, of no fixed order.
ResultsGrid(K, student, subject) ==
    IF student \in Enrolled(K) /\ subject \in GridColumns(K)
    THEN {u \in Units : UnitStudent[u] = student /\ UnitSubject[u] = subject}
    ELSE {}

\* Mutant: a result recorded again stays published.
KeepPublished(u, r) ==
    /\ result' = [result EXCEPT ![u] = r]
    /\ UNCHANGED published

\* Mutant: without NULLIF, a result that is cleared is stored as the empty text.
StoreText(u, r) ==
    /\ result' = [result EXCEPT ![u] = IF r = NoResult THEN "" ELSE r]
    /\ published' = published \ {u}

StoreSetResult(u, r) ==
    /\ result' = [result EXCEPT ![u] = r]
    /\ published' = published \ {u}

\* ... WHERE id = $1 AND result IS NOT NULL
StorePublishResult(u) ==
    /\ result[u] # NoResult
    /\ published' = published \cup {u}

\* Mutant: the students' results in all subjects.
CompetentAnywhere(subject, K) ==
    {u \in Units : subject \in Subjects /\ result[u] = "SC" /\ UnitStudent[u] \in Enrolled(K)}

\* ... AND cse.subject_id = $1 AND cse.result = 'SC'
Competent(subject, K) ==
    {u \in Units : /\ UnitSubject[u] = subject
                   /\ result[u] = "SC"
                   /\ UnitStudent[u] \in Enrolled(K)}

SetResult ==
    /\ \E u \in Units, r \in Results \cup {NoResult} : StoreSetResult(u, r)
    /\ UNCHANGED <<attendance, enrolments, lastEnrolment>>

PublishResult ==
    /\ \E u \in Units : StorePublishResult(u)
    /\ UNCHANGED <<result, attendance, enrolments, lastEnrolment>>

PublishColumn(subject, K) ==
    /\ published' = published \cup Competent(subject, K)
    /\ UNCHANGED <<result, attendance, enrolments, lastEnrolment>>

PublishSCColumn == \E subject \in Subjects, K \in SUBSET Classes : PublishColumn(subject, K)

-----------------------------------------------------------------------------
(* Attendance                                                              *)

\* "not recorded" deletes the row of session_attendance.
StoreSetAttendance(session, student, mark) ==
    attendance' = [attendance EXCEPT ![<<session, student>>] = mark]

\* The cells of the page for the classes K: a row for each student enrolled in
\* one of them, a column for each session of any of them.  No Go code cancels a
\* session, so the query's NOT cancelled leaves none out.
AttendanceGrid(K) ==
    {m \in Sessions \X Students : SessionClass[m[1]] \in K /\ m[2] \in Enrolled(K)}

\* The request names a cell of a page; nothing else is asked of it.
SetAttendance ==
    /\ \E K \in SUBSET Classes, mark \in Marks \cup {Unmarked} :
          \E m \in AttendanceGrid(K) : StoreSetAttendance(m[1], m[2], mark)
    /\ UNCHANGED <<result, published, enrolments, lastEnrolment>>

-----------------------------------------------------------------------------
(* Enrolments                                                              *)

EnrolmentIds == 1 .. lastEnrolment

\* idx_uq_active_course_enrollment: it looks at the status alone, so a deleted
\* row counts until its status is closed.
OpenFor(e, student, program) ==
    /\ enrolments[e].student = student
    /\ enrolments[e].program = program
    /\ enrolments[e].status \in Open

\* Mutant: the index leaves out the deleted rows.
AdmissibleAmongListed(e, student, program, status) ==
    status \in Open =>
        \A f \in EnrolmentIds \ {e} : ~ enrolments[f].deleted => ~ OpenFor(f, student, program)

Admissible(e, student, program, status) ==
    status \in Open => \A f \in EnrolmentIds \ {e} : ~ OpenFor(f, student, program)

CreateEnrollment(student, program, group, status) ==
    LET id == lastEnrolment + 1
    IN  /\ id <= MaxEnrolments
        /\ Admissible(id, student, program, status)
        /\ lastEnrolment' = id
        /\ enrolments' = [e \in 1 .. id |->
              IF e = id
              THEN [student |-> student, program |-> program, group |-> group,
                    status |-> status, deleted |-> FALSE]
              ELSE enrolments[e]]

\* Mutant: a deleted enrolment can be edited.
UpdateAnyEnrollment(id, group, status) ==
    /\ Admissible(id, enrolments[id].student, enrolments[id].program, status)
    /\ enrolments' = [enrolments EXCEPT ![id].group = group, ![id].status = status]
    /\ UNCHANGED lastEnrolment

\* ... WHERE id = $1 AND deleted_at IS NULL; the student and the program stay.
UpdateEnrollment(id, group, status) ==
    /\ ~ enrolments[id].deleted
    /\ Admissible(id, enrolments[id].student, enrolments[id].program, status)
    /\ enrolments' = [enrolments EXCEPT ![id] =
          [student |-> @.student, program |-> @.program, group |-> group,
           status |-> status, deleted |-> @.deleted]]
    /\ UNCHANGED lastEnrolment

\* The status stays what it was.
DeleteEnrollment(id) ==
    /\ enrolments' = [enrolments EXCEPT ![id] =
          [student |-> @.student, program |-> @.program, group |-> @.group,
           status |-> @.status, deleted |-> TRUE]]
    /\ UNCHANGED lastEnrolment

AdminEnrollmentCreate ==
    /\ \E student \in Students, program \in Programs,
          group \in Groups \cup {NoGroup}, status \in Statuses :
          CreateEnrollment(student, program, group, status)
    /\ UNCHANGED <<result, published, attendance>>

AdminEnrollmentUpdate ==
    /\ \E id \in EnrolmentIds, group \in Groups \cup {NoGroup}, status \in Statuses :
          UpdateEnrollment(id, group, status)
    /\ UNCHANGED <<result, published, attendance>>

AdminEnrollmentDelete ==
    /\ \E id \in EnrolmentIds : DeleteEnrollment(id)
    /\ UNCHANGED <<result, published, attendance>>

ListEnrollments == {e \in EnrolmentIds : ~ enrolments[e].deleted}

-----------------------------------------------------------------------------
Grading == SetResult \/ PublishResult \/ PublishSCColumn
Enrolling == AdminEnrollmentCreate \/ AdminEnrollmentUpdate \/ AdminEnrollmentDelete

RecordsNext == Grading \/ SetAttendance \/ Enrolling

RecordsSpec == RecordsInit /\ [][RecordsNext]_recordsVars
-----------------------------------------------------------------------------
(* Properties                                                              *)

\* Results, marks and enrolments are what the screens and the constraints of
\* the tables allow.
RecordsTypeOK ==
    /\ result \in [Units -> Results \cup {NoResult}]
    /\ published \subseteq Units
    /\ attendance \in [Sessions \X Students -> Marks \cup {Unmarked}]
    /\ lastEnrolment \in 0 .. MaxEnrolments
    /\ enrolments \in [EnrolmentIds -> Enrolment]

\* A result the students see was recorded and does not change while they see
\* it: who records it again, or clears it, takes it back until it is published
\* again, and one that was cleared meanwhile is not published empty.
PublishedStands ==
    [][\A u \in published' :
          /\ result'[u] # NoResult
          /\ u \in published => result'[u] = result[u]]_recordsVars

\* The SC results that the grid for the classes K can show in a column.
ShownCompetent(subject, K) ==
    {u \in Units : result[u] = "SC" /\ u \in ResultsGrid(K, UnitStudent[u], subject)}

\* Publishing a column publishes every SC that the grid it was sent from can
\* show there, and nothing but an SC of that column.
ColumnIsPublished ==
    [][\A subject \in Subjects, K \in SUBSET Classes :
          PublishColumn(subject, K) =>
              published' = published \cup ShownCompetent(subject, K)]_recordsVars

\* A student has at most one open enrolment in a program, counting the deleted
\* ones: what the screen lists is never a second one.
OneOpenEnrolment ==
    \A e, f \in EnrolmentIds :
        /\ OpenFor(e, enrolments[f].student, enrolments[f].program)
        /\ enrolments[f].status \in Open
        => e = f

\* The student has a deleted enrolment in the program that is still open.
Blocked(student, program) ==
    \E e \in EnrolmentIds : enrolments[e].deleted /\ OpenFor(e, student, program)

\* An enrolment deleted while it was open blocks its student and program for
\* good: it can no longer be closed, and no open one is ever listed again.
DeletedActiveBlocksForGood ==
    [][\A student \in Students, program \in Programs :
          Blocked(student, program) =>
            /\ Blocked(student, program)'
            /\ \A e \in ListEnrollments' : ~ OpenFor(e, student, program)']_recordsVars
=============================================================================
