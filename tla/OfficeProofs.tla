----------------------------- MODULE OfficeProofs -----------------------------
(***************************************************************************)
(* Proofs about the offices around the timetable, for any numbers of       *)
(* units, classes, programs, enrolments, teachers, dates, requests,        *)
(* periods and saves: results and enrolments, the teachers' pages, and the *)
(* settings with the link to the LMS and the semesters.                    *)
(***************************************************************************)
EXTENDS Records, Workplan, Settings, TLAPS

\* What the proofs add: a result that students see was recorded.
SeenIsRecorded == \A u \in published : result[u] # NoResult

RecordsInv == RecordsTypeOK /\ SeenIsRecorded /\ OneOpenEnrolment

-----------------------------------------------------------------------------
(* The rows of student_course_enrollments                                  *)

\* An enrolment that is created is a row like the others, and no second open
\* one of its student and program.
LEMMA Creating ==
    ASSUME RecordsInv, NEW student \in Students, NEW program \in Programs,
           NEW group \in Groups \cup {NoGroup}, NEW status \in Statuses,
           CreateEnrollment(student, program, group, status)
    PROVE  /\ lastEnrolment' \in 0 .. MaxEnrolments
           /\ enrolments' \in [EnrolmentIds' -> Enrolment]
           /\ OneOpenEnrolment'
<1> DEFINE id == lastEnrolment + 1
           row == [student |-> student, program |-> program, group |-> group,
                   status |-> status, deleted |-> FALSE]
<1>1. /\ lastEnrolment \in Nat /\ MaxEnrolments \in Nat
      /\ lastEnrolment' = id /\ id <= MaxEnrolments
      /\ enrolments' = [e \in 1 .. id |-> IF e = id THEN row ELSE enrolments[e]]
      /\ Admissible(id, student, program, status)
      /\ enrolments \in [1 .. lastEnrolment -> Enrolment]
  BY RecordsAssumption DEF RecordsInv, RecordsTypeOK, CreateEnrollment, EnrolmentIds
<1>2. row \in Enrolment
  BY DEF Enrolment
<1>3. enrolments' \in [1 .. id -> Enrolment]
  BY <1>1, <1>2
<1>4. enrolments'[id] = row /\ \A e \in 1 .. lastEnrolment : e # id /\ enrolments'[e] = enrolments[e]
  BY <1>1
<1>5. OneOpenEnrolment'
  <2> SUFFICES ASSUME NEW e \in 1 .. id, NEW f \in 1 .. id,
                      enrolments'[e].student = enrolments'[f].student,
                      enrolments'[e].program = enrolments'[f].program,
                      enrolments'[e].status \in Open, enrolments'[f].status \in Open
               PROVE  e = f
    BY <1>1 DEF OneOpenEnrolment, OpenFor, EnrolmentIds
  <2>1. CASE e = id /\ f # id
    <3>1. f \in 1 .. lastEnrolment
      BY <2>1, <1>1
    <3>2. OpenFor(f, student, program)
      BY <3>1, <2>1, <1>4 DEF OpenFor
    <3> QED
      BY <3>1, <3>2, <2>1, <1>1, <1>4 DEF Admissible, EnrolmentIds
  <2>2. CASE f = id /\ e # id
    <3>1. e \in 1 .. lastEnrolment
      BY <2>2, <1>1
    <3>2. OpenFor(e, student, program)
      BY <3>1, <2>2, <1>4 DEF OpenFor
    <3> QED
      BY <3>1, <3>2, <2>2, <1>1, <1>4 DEF Admissible, EnrolmentIds
  <2>3. CASE e # id /\ f # id
    <3>1. e \in 1 .. lastEnrolment /\ f \in 1 .. lastEnrolment
      BY <2>3, <1>1
    <3> QED
      BY <3>1, <1>4 DEF RecordsInv, OneOpenEnrolment, OpenFor, EnrolmentIds
  <2> QED
    BY <2>1, <2>2, <2>3
<1>6. EnrolmentIds' = 1 .. id /\ lastEnrolment' \in 0 .. MaxEnrolments
  BY <1>1 DEF EnrolmentIds
<1> QED
  BY <1>3, <1>5, <1>6

\* A statement on one row leaves the others, its student and its program; a row
\* that it leaves open was open, or it passed the index.
LEMMA Changing ==
    ASSUME RecordsInv, NEW id \in EnrolmentIds, NEW group \in Groups \cup {NoGroup},
           NEW status \in Statuses, NEW deleted \in BOOLEAN,
           enrolments' = [enrolments EXCEPT ![id] =
               [student |-> @.student, program |-> @.program, group |-> group,
                status |-> status, deleted |-> deleted]],
           Admissible(id, enrolments[id].student, enrolments[id].program, status),
           UNCHANGED lastEnrolment
    PROVE  /\ enrolments' \in [EnrolmentIds' -> Enrolment]
           /\ OneOpenEnrolment'
<1>1. enrolments \in [EnrolmentIds -> Enrolment] /\ EnrolmentIds' = EnrolmentIds
  BY DEF RecordsInv, RecordsTypeOK, EnrolmentIds
<1>2. /\ enrolments'[id] = [student |-> enrolments[id].student, program |-> enrolments[id].program,
                            group |-> group, status |-> status, deleted |-> deleted]
      /\ \A e \in EnrolmentIds \ {id} : enrolments'[e] = enrolments[e]
  BY <1>1
<1>3. enrolments' \in [EnrolmentIds -> Enrolment]
  BY <1>1 DEF Enrolment
<1>4. OneOpenEnrolment'
  <2> SUFFICES ASSUME NEW e \in EnrolmentIds, NEW f \in EnrolmentIds,
                      enrolments'[e].student = enrolments'[f].student,
                      enrolments'[e].program = enrolments'[f].program,
                      enrolments'[e].status \in Open, enrolments'[f].status \in Open
               PROVE  e = f
    BY <1>1 DEF OneOpenEnrolment, OpenFor
  <2>1. CASE e = id /\ f # id
    BY <2>1, <1>2 DEF Admissible, OpenFor
  <2>2. CASE f = id /\ e # id
    BY <2>2, <1>2 DEF Admissible, OpenFor
  <2>3. CASE e # id /\ f # id
    BY <2>3, <1>2 DEF RecordsInv, OneOpenEnrolment, OpenFor
  <2> QED
    BY <2>1, <2>2, <2>3
<1> QED
  BY <1>1, <1>3, <1>4

\* A row that stays open passes the index: it was the only open one.
LEMMA StaysAdmissible ==
    ASSUME RecordsInv, NEW id \in EnrolmentIds
    PROVE  Admissible(id, enrolments[id].student, enrolments[id].program, enrolments[id].status)
BY DEF RecordsInv, OneOpenEnrolment, Admissible, OpenFor

-----------------------------------------------------------------------------
(* The invariant of results and enrolments                                 *)

\* The tables start empty.
LEMMA RecordsInitially == RecordsInit => RecordsInv
<1> SUFFICES ASSUME RecordsInit PROVE RecordsInv
  OBVIOUS
<1>1. EnrolmentIds = {} /\ lastEnrolment \in 0 .. MaxEnrolments
  BY RecordsAssumption DEF RecordsInit, EnrolmentIds
<1>2. enrolments \in [EnrolmentIds -> Enrolment]
  BY <1>1 DEF RecordsInit
<1>3. RecordsTypeOK
  BY <1>1, <1>2 DEF RecordsInit, RecordsTypeOK
<1> QED
  BY <1>1, <1>3 DEF RecordsInit, RecordsInv, SeenIsRecorded, OneOpenEnrolment

\* Every step keeps it.
LEMMA RecordsStep == RecordsInv /\ [RecordsNext]_recordsVars => RecordsInv'
<1> SUFFICES ASSUME RecordsInv, [RecordsNext]_recordsVars PROVE RecordsInv'
  OBVIOUS
<1>1. ASSUME SetResult \/ PublishResult \/ PublishSCColumn
      PROVE  RecordsInv'
  <2>1. UNCHANGED <<attendance, enrolments, lastEnrolment>>
    BY <1>1 DEF SetResult, PublishResult, PublishSCColumn, PublishColumn
  <2>2. /\ result' \in [Units -> Results \cup {NoResult}]
        /\ published' \subseteq Units
        /\ SeenIsRecorded'
    <3>1. CASE SetResult
      BY <3>1 DEF SetResult, StoreSetResult, RecordsInv, RecordsTypeOK, SeenIsRecorded
    <3>2. CASE PublishResult
      BY <3>2 DEF PublishResult, StorePublishResult, RecordsInv, RecordsTypeOK, SeenIsRecorded
    <3>3. CASE PublishSCColumn
      BY <3>3 DEF PublishSCColumn, PublishColumn, Competent, RecordsInv, RecordsTypeOK,
                  SeenIsRecorded, NoResult
    <3> QED
      BY <1>1, <3>1, <3>2, <3>3
  <2> QED
    BY <2>1, <2>2 DEF RecordsInv, RecordsTypeOK, OneOpenEnrolment, OpenFor, EnrolmentIds
<1>2. CASE SetAttendance
  <2>1. UNCHANGED <<result, published, enrolments, lastEnrolment>>
    BY <1>2 DEF SetAttendance
  <2>2. attendance' \in [Sessions \X Students -> Marks \cup {Unmarked}]
    <3>1. PICK K \in SUBSET Classes, mark \in Marks \cup {Unmarked} :
              \E m \in AttendanceGrid(K) : StoreSetAttendance(m[1], m[2], mark)
      BY <1>2 DEF SetAttendance
    <3>2. PICK m \in AttendanceGrid(K) : StoreSetAttendance(m[1], m[2], mark)
      BY <3>1
    <3>3. attendance' = [attendance EXCEPT ![<<m[1], m[2]>>] = mark]
      BY <3>2 DEF StoreSetAttendance
    <3> QED
      BY <3>3 DEF RecordsInv, RecordsTypeOK
  <2> QED
    BY <2>1, <2>2 DEF RecordsInv, RecordsTypeOK, SeenIsRecorded, OneOpenEnrolment, OpenFor, EnrolmentIds
<1>3. ASSUME Enrolling
      PROVE  RecordsInv'
  <2>1. UNCHANGED <<result, published, attendance>>
    BY <1>3 DEF Enrolling, AdminEnrollmentCreate, AdminEnrollmentUpdate, AdminEnrollmentDelete
  <2>2. /\ lastEnrolment' \in 0 .. MaxEnrolments
        /\ enrolments' \in [EnrolmentIds' -> Enrolment]
        /\ OneOpenEnrolment'
    <3>1. CASE AdminEnrollmentCreate
      BY <3>1, Creating DEF AdminEnrollmentCreate
    <3>2. CASE AdminEnrollmentUpdate
      <4>1. PICK id \in EnrolmentIds, group \in Groups \cup {NoGroup}, status \in Statuses :
                UpdateEnrollment(id, group, status)
        BY <3>2 DEF AdminEnrollmentUpdate
      <4>2. enrolments[id] \in Enrolment
        BY DEF RecordsInv, RecordsTypeOK
      <4>3. enrolments[id].deleted \in BOOLEAN
        BY <4>2 DEF Enrolment
      <4>4. enrolments' = [enrolments EXCEPT ![id] =
               [student |-> @.student, program |-> @.program, group |-> group,
                status |-> status, deleted |-> enrolments[id].deleted]]
        BY <4>1 DEF UpdateEnrollment
      <4> QED
        BY <4>1, <4>3, <4>4, Changing DEF UpdateEnrollment, RecordsInv, RecordsTypeOK
    <3>3. CASE AdminEnrollmentDelete
      <4>1. PICK id \in EnrolmentIds : DeleteEnrollment(id)
        BY <3>3 DEF AdminEnrollmentDelete
      <4>2. enrolments[id] \in Enrolment
        BY DEF RecordsInv, RecordsTypeOK
      <4>3. enrolments[id].group \in Groups \cup {NoGroup} /\ enrolments[id].status \in Statuses
        BY <4>2 DEF Enrolment
      <4>4. enrolments' = [enrolments EXCEPT ![id] =
               [student |-> @.student, program |-> @.program, group |-> enrolments[id].group,
                status |-> enrolments[id].status, deleted |-> TRUE]]
        BY <4>1 DEF DeleteEnrollment
      <4> QED
        BY <4>1, <4>3, <4>4, Changing, StaysAdmissible DEF DeleteEnrollment, RecordsInv, RecordsTypeOK
    <3> QED
      BY <1>3, <3>1, <3>2, <3>3 DEF Enrolling
  <2> QED
    BY <2>1, <2>2 DEF RecordsInv, RecordsTypeOK, SeenIsRecorded
<1>4. CASE UNCHANGED recordsVars
  BY <1>4 DEF recordsVars, RecordsInv, RecordsTypeOK, SeenIsRecorded, OneOpenEnrolment, OpenFor, EnrolmentIds
<1> QED
  BY <1>1, <1>2, <1>3, <1>4 DEF RecordsNext, Grading

\* The invariant holds whatever the requests and their order.
LEMMA RecordsInvariant == RecordsSpec => []RecordsInv
BY RecordsInitially, RecordsStep, PTL DEF RecordsSpec

\* Results, marks and enrolments are what the screens and the constraints allow.
THEOREM RecordsTyping == RecordsSpec => []RecordsTypeOK
<1>1. RecordsInv => RecordsTypeOK
  BY DEF RecordsInv
<1> QED
  BY <1>1, RecordsInvariant, PTL

\* A student has at most one open enrolment in a program, deleted ones included.
THEOREM OneOpen == RecordsSpec => []OneOpenEnrolment
<1>1. RecordsInv => OneOpenEnrolment
  BY DEF RecordsInv
<1> QED
  BY <1>1, RecordsInvariant, PTL

-----------------------------------------------------------------------------
(* What publishing and enrolling never do                                  *)

\* A result that the students see is not changed under their eyes, and never
\* one that nobody recorded.
THEOREM Published == RecordsSpec => PublishedStands
<1>1. ASSUME RecordsInv, RecordsInv', [RecordsNext]_recordsVars, NEW u \in published'
      PROVE  result'[u] # NoResult /\ (u \in published => result'[u] = result[u])
  <2>1. result'[u] # NoResult
    BY <1>1 DEF RecordsInv, SeenIsRecorded
  <2>2. ASSUME u \in published PROVE result'[u] = result[u]
    <3>1. CASE SetResult
      BY <3>1, <1>1 DEF SetResult, StoreSetResult, RecordsInv, RecordsTypeOK
    <3>2. CASE ~ SetResult
      BY <3>2, <1>1 DEF RecordsNext, Grading, Enrolling, PublishResult, PublishSCColumn, PublishColumn,
          SetAttendance, AdminEnrollmentCreate, AdminEnrollmentUpdate, AdminEnrollmentDelete, recordsVars
    <3> QED
      BY <3>1, <3>2
  <2> QED
    BY <2>1, <2>2
<1>2. RecordsInv /\ RecordsInv' /\ [RecordsNext]_recordsVars =>
        [\A u \in published' :
            /\ result'[u] # NoResult
            /\ u \in published => result'[u] = result[u]]_recordsVars
  BY <1>1
<1> QED
  BY <1>2, RecordsInvariant, PTL DEF RecordsSpec, PublishedStands

\* The rows that the column's statement publishes are those that the grid it
\* was sent from shows as SC, whatever the classes and units are.
LEMMA ColumnOfGrid ==
    ASSUME NEW subject \in Subjects, NEW K \in SUBSET Classes
    PROVE  Competent(subject, K) = ShownCompetent(subject, K)
<1>1. ASSUME NEW u \in Units, UnitSubject[u] = subject, UnitStudent[u] \in Enrolled(K)
      PROVE  subject \in GridColumns(K)
  BY <1>1 DEF GridColumns
<1> QED
  BY <1>1 DEF Competent, ShownCompetent, ResultsGrid

\* Publishing a column publishes what its grid shows as SC there and nothing else.
THEOREM ColumnPublished == RecordsSpec => ColumnIsPublished
<1>1. ASSUME NEW subject \in Subjects, NEW K \in SUBSET Classes, PublishColumn(subject, K)
      PROVE  published' = published \cup ShownCompetent(subject, K)
  BY <1>1, ColumnOfGrid DEF PublishColumn
<1>2. [RecordsNext]_recordsVars =>
        [\A subject \in Subjects, K \in SUBSET Classes :
            PublishColumn(subject, K) =>
                published' = published \cup ShownCompetent(subject, K)]_recordsVars
  BY <1>1
<1> QED
  BY <1>2, PTL DEF RecordsSpec, ColumnIsPublished

\* A deleted row stays what it is.
LEMMA DeletedStays ==
    ASSUME RecordsInv, [RecordsNext]_recordsVars, NEW e \in EnrolmentIds, enrolments[e].deleted
    PROVE  e \in EnrolmentIds' /\ enrolments'[e].deleted /\
           enrolments'[e].student = enrolments[e].student /\
           enrolments'[e].program = enrolments[e].program /\
           enrolments'[e].status = enrolments[e].status
<1>1. enrolments \in [EnrolmentIds -> Enrolment] /\ lastEnrolment \in Nat
  BY DEF RecordsInv, RecordsTypeOK
<1>2. CASE AdminEnrollmentCreate
  <2>1. /\ lastEnrolment' = lastEnrolment + 1
        /\ \A f \in EnrolmentIds : f # lastEnrolment + 1 /\ f \in 1 .. lastEnrolment + 1
                                     /\ enrolments'[f] = enrolments[f]
    BY <1>1, <1>2 DEF AdminEnrollmentCreate, CreateEnrollment, EnrolmentIds
  <2> QED
    BY <2>1 DEF EnrolmentIds
<1>3. CASE AdminEnrollmentUpdate
  <2>1. PICK id \in EnrolmentIds, group \in Groups \cup {NoGroup}, status \in Statuses :
            UpdateEnrollment(id, group, status)
    BY <1>3 DEF AdminEnrollmentUpdate
  <2>2. id # e /\ enrolments'[e] = enrolments[e] /\ UNCHANGED lastEnrolment
    BY <1>1, <2>1 DEF UpdateEnrollment
  <2> QED
    BY <2>2 DEF EnrolmentIds
<1>4. CASE AdminEnrollmentDelete
  <2>1. PICK id \in EnrolmentIds : DeleteEnrollment(id)
    BY <1>4 DEF AdminEnrollmentDelete
  <2> QED
    BY <1>1, <2>1 DEF DeleteEnrollment, EnrolmentIds
<1>5. CASE UNCHANGED <<enrolments, lastEnrolment>>
  BY <1>5 DEF EnrolmentIds
<1> QED
  BY <1>2, <1>3, <1>4, <1>5 DEF RecordsNext, Grading, Enrolling, SetResult, PublishResult,
      PublishSCColumn, PublishColumn, SetAttendance, recordsVars

\* An enrolment deleted while open blocks its student and program for good.
THEOREM DeletedBlocks == RecordsSpec => DeletedActiveBlocksForGood
<1>1. ASSUME RecordsInv, RecordsInv', [RecordsNext]_recordsVars,
             NEW student \in Students, NEW program \in Programs, Blocked(student, program)
      PROVE  /\ Blocked(student, program)'
             /\ \A e \in ListEnrollments' : ~ OpenFor(e, student, program)'
  <2>1. PICK d \in EnrolmentIds : enrolments[d].deleted /\ OpenFor(d, student, program)
    BY <1>1 DEF Blocked
  <2>2. d \in EnrolmentIds' /\ enrolments'[d].deleted /\ OpenFor(d, student, program)'
    BY <1>1, <2>1, DeletedStays DEF OpenFor
  <2>3. ASSUME NEW e \in ListEnrollments' PROVE ~ OpenFor(e, student, program)'
    <3>1. e \in EnrolmentIds' /\ ~ enrolments'[e].deleted
      BY <2>3 DEF ListEnrollments
    <3> QED
      BY <1>1, <2>2, <3>1 DEF RecordsInv, OneOpenEnrolment, OpenFor
  <2> QED
    BY <2>2, <2>3 DEF Blocked
<1>2. RecordsInv /\ RecordsInv' /\ [RecordsNext]_recordsVars =>
        [\A student \in Students, program \in Programs :
            Blocked(student, program) =>
              /\ Blocked(student, program)'
              /\ \A e \in ListEnrollments' : ~ OpenFor(e, student, program)']_recordsVars
  BY <1>1
<1> QED
  BY <1>2, RecordsInvariant, PTL DEF RecordsSpec, DeletedActiveBlocksForGood

-----------------------------------------------------------------------------
(* Requests for leave                                                      *)

\* The rows of leave_requests that are in their teacher's list.
LeaveRows ==
    {r \in [teacher: Persons, dates: SUBSET Int, partial: BOOLEAN,
            times: Times \cup {NoTimes},
            status: {"Pending", "Cancelled"}] :
        /\ r.dates # {}
        /\ r.partial => Lasting(r.times) /\ \A d, e \in r.dates : d = e}

LeaveInv == leave \in Seq(LeaveRows)

\* The days of a form are a sequence of dates.
LEMMA DatesAreListed == ASSUME NEW q \in DateLists PROVE q \in Seq(Int)
<1>1. CASE \E d \in Dates, e \in Dates : q = <<d, e>>
  BY <1>1, WorkplanAssumption
<1>2. CASE \E first \in Dates, until \in Dates : q = DateRange(first, until)
  <2>1. PICK first \in Dates, until \in Dates : q = DateRange(first, until)
    BY <1>2
  <2>2. first \in Int /\ until \in Int
    BY WorkplanAssumption
  <2> DEFINE m == until - first + 1
  <2>3. m \in Int
    BY <2>2
  <2>4. q = [i \in 1 .. m |-> first + i - 1]
    BY <2>1 DEF DateRange
  <2> HIDE DEF m
  <2>5. PICK n \in Nat : 1 .. m = 1 .. n
    <3>1. CASE m >= 0
      BY <2>3, <3>1
    <3>2. CASE ~ m >= 0
      <4>1. 1 .. m = 1 .. 0
        BY <2>3, <3>2
      <4> QED
        BY <4>1
    <3> QED
      BY <3>1, <3>2
  <2>6. q \in [1 .. n -> Int]
    BY <2>2, <2>4, <2>5
  <2> QED
    BY <2>5, <2>6
<1> QED
  BY <1>1, <1>2 DEF DateLists

\* A request that is accepted is in its teacher's list.
LEMMA CreatedIsListed ==
    ASSUME NEW t \in Persons, NEW f \in LeaveForms, Len(f.dates) > 0,
           f.partial => Len(f.dates) <= 1, f.partial => Lasting(f.times)
    PROVE  [teacher |-> t, dates |-> {f.dates[i] : i \in DOMAIN f.dates}, partial |-> f.partial,
            times |-> IF f.partial THEN f.times ELSE NoTimes, status |-> "Pending"] \in LeaveRows
<1>1. /\ f.dates \in DateLists /\ f.partial \in BOOLEAN
      /\ f.times \in Times \cup {NoTimes}
  BY DEF LeaveForms
<1>2. f.dates \in Seq(Int)
  BY <1>1, DatesAreListed
<1>3. PICK D : D = {f.dates[i] : i \in DOMAIN f.dates}
  OBVIOUS
<1>4. D \in SUBSET Int
  BY <1>2, <1>3
<1>5. D # {}
  <2>1. 1 \in DOMAIN f.dates
    BY <1>2
  <2> QED
    BY <2>1, <1>3
<1>6. ASSUME f.partial PROVE \A d, e \in D : d = e
  <2>1. \A i, j \in DOMAIN f.dates : i = j
    BY <1>2, <1>6
  <2> QED
    BY <2>1, <1>3
<1>7. PICK v : v = IF f.partial THEN f.times ELSE NoTimes
  OBVIOUS
<1>8. v \in Times \cup {NoTimes} /\ (f.partial => Lasting(v))
  BY <1>1, <1>7
<1>9. [teacher |-> t, dates |-> D, partial |-> f.partial, times |-> v, status |-> "Pending"]
        \in LeaveRows
  BY <1>1, <1>4, <1>5, <1>6, <1>8 DEF LeaveRows
<1> QED
  BY <1>3, <1>7, <1>9

\* Every step leaves the requests in their lists.
LEMMA LeaveStep == LeaveInv /\ [WorkplanNext]_workplanVars => LeaveInv'
<1> SUFFICES ASSUME LeaveInv, [WorkplanNext]_workplanVars PROVE LeaveInv'
  OBVIOUS
<1>1. CASE WorkplanLeaveCreate
  <2>1. PICK t \in Persons, f \in LeaveForms :
            /\ Len(f.dates) > 0
            /\ f.partial => Len(f.dates) <= 1
            /\ CreateLeaveRequest(t, f)
    BY <1>1 DEF WorkplanLeaveCreate
  <2>2. PICK r \in LeaveRows : leave' = Append(leave, r)
    BY <2>1, CreatedIsListed DEF CreateLeaveRequest
  <2> QED
    BY <2>2 DEF LeaveInv
<1>2. CASE WorkplanLeaveCancel
  <2>1. PICK t \in Persons, id \in DOMAIN leave : CancelLeaveRequest(t, id)
    BY <1>2 DEF WorkplanLeaveCancel
  <2>2. leave[id] \in LeaveRows
    BY DEF LeaveInv
  <2> DEFINE r == [leave[id] EXCEPT !.status = "Cancelled"]
  <2>3. r \in LeaveRows
    BY <2>2 DEF LeaveRows
  <2>4. leave' = [leave EXCEPT ![id] = r]
    BY <2>1, <2>2 DEF CancelLeaveRequest
  <2> HIDE DEF r
  <2> QED
    BY <2>3, <2>4 DEF LeaveInv
<1>3. CASE UNCHANGED leave
  BY <1>3 DEF LeaveInv
<1> QED
  BY <1>1, <1>2, <1>3 DEF WorkplanNext, Planning, TakingLeave, WorkplanAvailabilitySet,
      WorkplanAvailabilityDelete, WorkplanAvailabilitySetDefaults, SetDefault, DefaultsSet,
      SetDefaultFails, workplanVars

\* Every request is in the list where its teacher can cancel it, and one for
\* part of a day names one day.
THEOREM LeaveListed == WorkplanSpec => []LeaveIsListed
<1>1. WorkplanInit => LeaveInv
  BY DEF WorkplanInit, LeaveInv
<1>2. LeaveInv => LeaveIsListed
  BY DEF LeaveInv, LeaveRows, LeaveIsListed, ListLeaveRequests
<1> QED
  BY <1>1, <1>2, LeaveStep, PTL DEF WorkplanSpec

-----------------------------------------------------------------------------
(* The days that teachers are available                                    *)

\* "Set defaults" is at a day, and the weekdays before it have the defaults,
\* unless they were set otherwise meanwhile.
DefaultsInv ==
    /\ availability \in [Persons \X Days -> Times \cup {NoTimes}]
    /\ defaulting \in [Persons -> 0 .. 6]
    /\ touched \in [Persons -> SUBSET Days]
    /\ \A t \in Persons : \A day \in Weekdays \ touched[t] :
          day < defaulting[t] => availability[<<t, day>>] = Defaults

\* Every step keeps the days behind the loop.
LEMMA DefaultsStep == DefaultsInv /\ [WorkplanNext]_workplanVars => DefaultsInv'
<1> SUFFICES ASSUME DefaultsInv, [WorkplanNext]_workplanVars PROVE DefaultsInv'
  OBVIOUS
<1> USE DEF Days, Weekdays
<1>1. ASSUME NEW t \in Persons, NEW day \in Days, NEW v \in Times \cup {NoTimes},
             availability' = [availability EXCEPT ![<<t, day>>] = v],
             Touch(t, day), UNCHANGED defaulting
      PROVE  DefaultsInv'
  <2>1. touched' \in [Persons -> SUBSET Days]
    BY <1>1 DEF Touch, DefaultsInv
  <2>2. ASSUME NEW u \in Persons, NEW d \in Weekdays \ touched'[u], d < defaulting[u]
        PROVE  availability'[<<u, d>>] = Defaults
    <3>1. d \notin touched[u] /\ <<u, d>> # <<t, day>>
      BY <1>1, <2>2 DEF Touch, DefaultsInv
    <3> QED
      BY <1>1, <2>2, <3>1 DEF DefaultsInv
  <2> QED
    BY <1>1, <2>1, <2>2 DEF DefaultsInv
<1>2. CASE WorkplanAvailabilitySet
  BY <1>1, <1>2 DEF WorkplanAvailabilitySet, UpsertTeacherAvailability
<1>3. CASE WorkplanAvailabilityDelete
  BY <1>1, <1>3 DEF WorkplanAvailabilityDelete, DeleteTeacherAvailability
<1>4. CASE WorkplanAvailabilitySetDefaults
  BY <1>4 DEF WorkplanAvailabilitySetDefaults, DefaultsInv
<1>5. ASSUME NEW t \in Persons, SetDefault(t) PROVE DefaultsInv'
  <2>1. Defaults \in Times
    BY WorkplanAssumption DEF Defaults, Times
  <2>2. defaulting[t] \in 1 .. 5 /\ defaulting' = [defaulting EXCEPT ![t] = defaulting[t] + 1]
        /\ availability' = [availability EXCEPT ![<<t, defaulting[t]>>] = Defaults]
        /\ UNCHANGED touched
    BY <1>5 DEF SetDefault, UpsertTeacherAvailability, DefaultsInv
  <2>3. ASSUME NEW u \in Persons, NEW d \in Weekdays \ touched'[u], d < defaulting'[u]
        PROVE  availability'[<<u, d>>] = Defaults
    BY <2>2, <2>3 DEF DefaultsInv
  <2>4. /\ availability' \in [Persons \X Days -> Times \cup {NoTimes}]
        /\ defaulting' \in [Persons -> 0 .. 6]
    BY <2>1, <2>2 DEF DefaultsInv
  <2> QED
    BY <2>2, <2>3, <2>4 DEF DefaultsInv
<1>6. ASSUME NEW t \in Persons, DefaultsSet(t) \/ SetDefaultFails(t) PROVE DefaultsInv'
  BY <1>6 DEF DefaultsSet, SetDefaultFails, DefaultsInv
<1>7. CASE UNCHANGED <<availability, defaulting, touched>>
  BY <1>7 DEF DefaultsInv
<1> QED
  BY <1>2, <1>3, <1>4, <1>5, <1>6, <1>7 DEF WorkplanNext, Planning, TakingLeave,
      WorkplanLeaveCreate, WorkplanLeaveCancel, workplanVars

\* "Set defaults" that answers has set every weekday nobody else set meanwhile.
THEOREM DefaultsComplete == WorkplanSpec => DefaultsReachFriday
<1>1. WorkplanInit => DefaultsInv
  BY DEF WorkplanInit, DefaultsInv, Weekdays, Days
<1>2. DefaultsInv /\ [WorkplanNext]_workplanVars =>
        [\A t \in Persons :
            DefaultsSet(t) =>
              \A day \in Weekdays \ touched[t] : availability[<<t, day>>] = Defaults]_workplanVars
  BY DEF DefaultsInv, DefaultsSet, Weekdays
<1> QED
  BY <1>1, <1>2, DefaultsStep, PTL DEF WorkplanSpec, DefaultsReachFriday

-----------------------------------------------------------------------------
(* The semesters of the periods                                            *)

Saving ==
    [pc: {"idle", "writing", "swapping", "begin", "clearing", "assigning"}, kind: Kinds,
     form: Nat, next: Nat, wanted: SUBSET Pairs, todo: SUBSET Pairs,
     doomed: SUBSET (Pairs \X Nat), inserted: SUBSET (Pairs \X Nat),
     alone: BOOLEAN, clean: BOOLEAN]

PairsOf(rows) == {row[1] : row \in rows}

\* A save whose DELETE saw what is there removes all of it, and its own rows
\* are the pairs it has inserted so far.
Replacing(q, rows) ==
    /\ q.pc \notin {"clearing", "assigning"} => q.inserted = {}
    /\ q.pc = "clearing" => q.inserted = {} /\ (q.clean => q.doomed = rows)
    /\ q.pc = "assigning" =>
          /\ q.todo \subseteq q.wanted
          /\ q.clean => q.doomed = rows /\ PairsOf(q.inserted) = q.wanted \ q.todo

SemestersInv ==
    /\ started \in Nat
    /\ semesters \in SUBSET (Pairs \X Nat)
    /\ saves \in [Savers -> Saving]
    /\ \A s \in Savers : Replacing(saves[s], semesters)
    /\ SemestersReplaced

\* One row more is one pair more.
LEMMA OneMorePair ==
    ASSUME NEW rows, NEW pair, NEW form
    PROVE  PairsOf(rows \cup {<<pair, form>>}) = PairsOf(rows) \cup {pair}
<1>1. <<pair, form>>[1] = pair
  OBVIOUS
<1> QED
  BY <1>1, Zenon DEF PairsOf

\* A saver who goes on leaves the others as they are.
LEMMA OneGoesOn ==
    ASSUME SemestersInv, NEW s \in Savers, NEW q \in Saving, Replacing(q, semesters),
           Continue(s, q), UNCHANGED <<semesters, started, last>>
    PROVE  SemestersInv'
<1>1. saves' \in [Savers -> Saving]
  BY DEF Continue, SemestersInv
<1>2. \A r \in Savers : Replacing(saves'[r], semesters)
  BY DEF Continue, SemestersInv
<1> QED
  BY <1>1, <1>2 DEF SemestersInv, SemestersReplaced

\* Nothing is under way in an idle save.
LEMMA IdleReplaces == Idle \in Saving /\ \A rows : Replacing(Idle, rows)
  BY DEF Idle, Saving, Replacing, Kinds

\* Every step keeps the saves on their way to what they want.
LEMMA SettingsStep == SemestersInv /\ [SettingsNext]_settingsVars => SemestersInv'
<1> SUFFICES ASSUME SemestersInv, [SettingsNext]_settingsVars PROVE SemestersInv'
  OBVIOUS
<1>1. ASSUME NEW s \in Savers, NEW kind \in Kinds, NEW wanted \in SUBSET Pairs,
             Begin(s, kind, wanted)
      PROVE  SemestersInv'
  <2>1. \A r \in Savers : saves'[r] \in Saving /\ Replacing(saves'[r], semesters)
    <3> SUFFICES ASSUME NEW r \in Savers
                 PROVE  saves'[r] \in Saving /\ Replacing(saves'[r], semesters)
      OBVIOUS
    <3>1. CASE r = s
      <4>1. PICK alone \in BOOLEAN :
               saves'[s] = [Idle EXCEPT !.pc = "writing", !.kind = kind, !.form = started + 1,
                                        !.wanted = wanted, !.alone = alone]
        BY <1>1 DEF Begin
      <4>2. saves'[s] = [pc |-> "writing", kind |-> kind, form |-> started + 1, next |-> 1,
                         wanted |-> wanted, todo |-> {}, doomed |-> {}, inserted |-> {},
                         alone |-> alone, clean |-> TRUE]
        BY <4>1, ZenonT(60) DEF Idle
      <4>3. started + 1 \in Nat
        BY DEF SemestersInv
      <4>4. saves'[s] \in Saving
        BY <4>2, <4>3 DEF Saving
      <4>5. Replacing(saves'[s], semesters)
        BY <4>2 DEF Replacing
      <4> QED
        BY <3>1, <4>4, <4>5
    <3>2. CASE r # s
      <4>1. saves[r] \in Saving /\ Replacing(saves[r], semesters)
        BY DEF SemestersInv
      <4>2. saves'[r] = saves[r] \/ saves'[r] = [saves[r] EXCEPT !.alone = FALSE]
        BY <1>1, <3>2 DEF Begin
      <4> QED
        BY <4>1, <4>2 DEF Saving, Replacing
    <3> QED
      BY <3>1, <3>2
  <2>2. saves' \in [Savers -> Saving]
    BY <1>1, <2>1 DEF Begin
  <2>3. started' \in Nat /\ UNCHANGED <<semesters, last>>
    <3>1. started' = started + 1 /\ UNCHANGED <<semesters, last>>
      BY <1>1 DEF Begin
    <3>2. started \in Nat
      BY DEF SemestersInv
    <3> QED
      BY <3>1, <3>2
  <2>4. semesters' \in SUBSET (Pairs \X Nat) /\ SemestersReplaced'
    BY <2>3 DEF SemestersInv, SemestersReplaced
  <2>5. \A r \in Savers : Replacing(saves'[r], semesters')
    BY <2>1, <2>3
  <2> QED
    BY <2>2, <2>3, <2>4, <2>5 DEF SemestersInv
<1>2. ASSUME NEW s \in Savers, SaveSetting(s) PROVE SemestersInv'
  <2>1. saves[s] \in Saving /\ Replacing(saves[s], semesters) /\ saves[s].pc = "writing"
    BY <1>2 DEF SemestersInv, SaveSetting
  <2>2. PICK pc \in {"writing", "swapping", "begin"} :
           Continue(s, [saves[s] EXCEPT !.pc = pc, !.next = @ + 1])
    BY <1>2, <2>1 DEF SaveSetting
  <2> DEFINE q == [saves[s] EXCEPT !.pc = pc, !.next = @ + 1]
  <2>3. q \in Saving
    <3>1. saves[s].next + 1 \in Nat
      BY <2>1 DEF Saving
    <3> QED
      BY <2>1, <3>1 DEF Saving
  <2>4. Replacing(q, semesters)
    <3>1. q.pc = pc /\ q.inserted = saves[s].inserted
      BY <2>1 DEF Saving
    <3> HIDE DEF q
    <3> QED
      BY <2>1, <3>1 DEF Replacing
  <2>5. Continue(s, q) /\ UNCHANGED <<semesters, started, last>>
    BY <1>2, <2>2 DEF SaveSetting
  <2> HIDE DEF q
  <2> QED
    BY <2>3, <2>4, <2>5, OneGoesOn
<1>3. ASSUME NEW s \in Savers, SwapLMS(s) \/ SaveFails(s) PROVE SemestersInv'
  BY <1>3, IdleReplaces, OneGoesOn DEF SwapLMS, SaveFails
<1>4. CASE Restart
  BY <1>4, IdleReplaces DEF Restart, SemestersInv, SemestersReplaced
<1>5. ASSUME NEW s \in Savers, StartClear(s) PROVE SemestersInv'
  <2>1. /\ saves[s] \in Saving /\ Replacing(saves[s], semesters) /\ saves[s].pc = "begin"
        /\ semesters \in SUBSET (Pairs \X Nat)
    BY <1>5 DEF SemestersInv, StartClear
  <2> DEFINE q == [saves[s] EXCEPT !.pc = "clearing", !.doomed = semesters]
  <2>2. q \in Saving /\ Replacing(q, semesters)
    BY <2>1 DEF Saving, Replacing
  <2>3. Continue(s, q) /\ UNCHANGED <<semesters, started, last>>
    BY <1>5 DEF StartClear
  <2> HIDE DEF q
  <2> QED
    BY <2>2, <2>3, OneGoesOn
<1>6. ASSUME NEW s \in Savers, FinishClear(s) PROVE SemestersInv'
  <2>1. saves[s] \in Saving /\ Replacing(saves[s], semesters) /\ saves[s].pc = "clearing"
    BY <1>6 DEF SemestersInv, FinishClear
  <2> DEFINE q == [saves[s] EXCEPT !.pc = "assigning", !.doomed = @ \cap semesters,
                                   !.todo = saves[s].wanted]
  <2>2. q \in Saving /\ Replacing(q, semesters)
    BY <2>1, ZenonT(60) DEF Saving, Replacing, PairsOf
  <2>3. Continue(s, q) /\ UNCHANGED <<semesters, started, last>>
    BY <1>6 DEF FinishClear
  <2> HIDE DEF q
  <2> QED
    BY <2>2, <2>3, OneGoesOn
<1>7. ASSUME NEW s \in Savers, AssignSemester(s) PROVE SemestersInv'
  <2>1. /\ saves[s] \in Saving /\ Replacing(saves[s], semesters) /\ saves[s].pc = "assigning"
        /\ semesters \in SUBSET (Pairs \X Nat)
    BY <1>7 DEF SemestersInv, AssignSemester
  <2>2. PICK pair \in saves[s].todo, inserted \in SUBSET (Pairs \X Nat) :
           /\ Continue(s, [saves[s] EXCEPT !.todo = @ \ {pair}, !.inserted = inserted])
           /\ inserted = IF \E row \in semesters \ saves[s].doomed : row[1] = pair
                         THEN saves[s].inserted
                         ELSE saves[s].inserted \cup {<<pair, saves[s].form>>}
    <3>1. PICK pair \in saves[s].todo :
             Continue(s, [saves[s] EXCEPT !.todo = @ \ {pair},
                  !.inserted = IF \E row \in semesters \ saves[s].doomed : row[1] = pair
                               THEN @ ELSE @ \cup {<<pair, saves[s].form>>}])
      BY <1>7 DEF AssignSemester, FirstOf
    <3> DEFINE inserted == IF \E row \in semesters \ saves[s].doomed : row[1] = pair
                           THEN saves[s].inserted
                           ELSE saves[s].inserted \cup {<<pair, saves[s].form>>}
    <3>2. inserted \in SUBSET (Pairs \X Nat)
      BY <2>1 DEF Saving
    <3>3. Continue(s, [saves[s] EXCEPT !.todo = @ \ {pair}, !.inserted = inserted])
      BY <3>1
    <3> QED
      BY <3>2, <3>3
  <2> DEFINE q == [saves[s] EXCEPT !.todo = @ \ {pair}, !.inserted = inserted]
  <2>3. q \in Saving
    BY <2>1 DEF Saving
  <2>4. ASSUME saves[s].clean PROVE PairsOf(inserted) = saves[s].wanted \ (saves[s].todo \ {pair})
    <3>1. semesters \ saves[s].doomed = {} /\ PairsOf(saves[s].inserted) = saves[s].wanted \ saves[s].todo
      BY <2>1, <2>4 DEF Replacing
    <3>2. inserted = saves[s].inserted \cup {<<pair, saves[s].form>>}
      BY <2>2, <3>1
    <3>3. PairsOf(inserted) = PairsOf(saves[s].inserted) \cup {pair}
      BY <3>2, OneMorePair
    <3>4. pair \in saves[s].wanted
      BY <2>1, <2>2 DEF Replacing
    <3> QED
      BY <3>1, <3>3, <3>4
  <2>5. Replacing(q, semesters)
    BY <2>1, <2>4 DEF Replacing, Saving
  <2>6. Continue(s, q) /\ UNCHANGED <<semesters, started, last>>
    BY <1>7, <2>2 DEF AssignSemester
  <2> HIDE DEF q
  <2> QED
    BY <2>3, <2>5, <2>6, OneGoesOn
<1>8. ASSUME NEW s \in Savers, CommitSemesters(s) PROVE SemestersInv'
  <2>1. /\ saves[s] \in Saving /\ Replacing(saves[s], semesters) /\ saves[s].pc = "assigning"
        /\ saves[s].todo = {} /\ semesters \in SUBSET (Pairs \X Nat)
        /\ semesters' = (semesters \ saves[s].doomed) \cup saves[s].inserted
        /\ last' = [wanted |-> saves[s].wanted, clean |-> saves[s].clean]
    BY <1>8 DEF SemestersInv, CommitSemesters
  <2>2. semesters' \in SUBSET (Pairs \X Nat)
    BY <2>1 DEF Saving
  <2>3. SemestersReplaced'
    BY <2>1 DEF SemestersReplaced, Replacing, PairsOf
  <2>4. \A r \in Savers : saves'[r] \in Saving /\ Replacing(saves'[r], semesters')
    <3> SUFFICES ASSUME NEW r \in Savers
                 PROVE  saves'[r] \in Saving /\ Replacing(saves'[r], semesters')
      OBVIOUS
    <3>1. saves[r] \in Saving /\ Replacing(saves[r], semesters)
      BY DEF SemestersInv
    <3>2. CASE r = s
      BY <1>8, <3>2, IdleReplaces DEF CommitSemesters
    <3>3. CASE r # s /\ saves[r].pc \in {"clearing", "assigning"}
      <4>1. saves'[r] = [saves[r] EXCEPT !.clean = FALSE]
        BY <1>8, <3>3 DEF CommitSemesters
      <4> QED
        BY <3>1, <3>3, <4>1 DEF Saving, Replacing
    <3>4. CASE r # s /\ saves[r].pc \notin {"clearing", "assigning"}
      <4>1. saves'[r] = saves[r]
        BY <1>8, <3>4 DEF CommitSemesters
      <4> QED
        BY <3>1, <3>4, <4>1 DEF Replacing
    <3> QED
      BY <3>2, <3>3, <3>4
  <2>5. saves' \in [Savers -> Saving]
    BY <1>8, <2>4 DEF CommitSemesters
  <2> QED
    BY <1>8, <2>2, <2>3, <2>4, <2>5 DEF CommitSemesters, SemestersInv
<1>9. CASE UNCHANGED settingsVars
  BY <1>9 DEF settingsVars, SemestersInv, SemestersReplaced, Replacing
<1>10. {"lms", "workplan"} \subseteq Kinds /\ {} \in SUBSET Pairs
  BY DEF Kinds
<1> QED
  BY <1>1, <1>2, <1>3, <1>4, <1>5, <1>6, <1>7, <1>8, <1>9, <1>10
     DEF SettingsNext, SystemLMSSave, WorkplanSettingsSave

\* The semesters are those of the form that was saved last, unless another
\* save committed while its transaction was under way.
THEOREM Replaced == SettingsSpec => []SemestersReplaced
<1>1. SettingsInit => SemestersInv
  BY IdleReplaces DEF SettingsInit, SemestersInv, SemestersReplaced
<1>2. SemestersInv => SemestersReplaced
  BY DEF SemestersInv
<1> QED
  BY <1>1, <1>2, SettingsStep, PTL DEF SettingsSpec

-----------------------------------------------------------------------------
(* The settings and the link                                               *)

\* The settings of a page were all written by one form.
Uniform(kind) == \A k, j \in Named(kind) : settings[k] = settings[j]

\* What the save q has written so far is still there: all of it while it is
\* the only one, or while nobody has torn the settings.
Written(q) ==
    /\ q.pc = "writing" =>
          /\ q.next \in 1 .. Len(KeysOf(q.kind))
          /\ q.alone => \A i \in 1 .. q.next - 1 : settings[KeysOf(q.kind)[i]] = q.form
    /\ q.pc = "swapping" =>
          /\ q.kind = "lms"
          /\ "lms" \notin torn => \A k \in Named("lms") : settings[k] = q.form

\* Nobody else saves the page of a save that is alone.
Alone ==
    \A s, r \in Savers :
        s # r /\ saves[s].pc # "idle" /\ saves[r].pc # "idle" /\ saves[s].kind = saves[r].kind
          => ~ saves[s].alone

\* The link is the stored one, unless a save is about to swap it.
Linked ==
    "lms" \notin torn /\ (\A s \in Savers : saves[s].pc # "swapping")
      => \A k \in Named("lms") : lms[k] = settings[k]

AgreeInv ==
    /\ settings \in [AllKeys -> Nat]
    /\ Alone
    /\ \A s \in Savers : Written(saves[s])
    /\ \A kind \in Kinds \ torn : Uniform(kind)
    /\ Linked

\* The settings of a page are listed once, and no page has those of the other.
LEMMA Keys ==
    /\ \A kind \in Kinds :
          /\ Len(KeysOf(kind)) \in Nat /\ DOMAIN KeysOf(kind) = 1 .. Len(KeysOf(kind))
          /\ Named(kind) \subseteq AllKeys
          /\ \A i, j \in 1 .. Len(KeysOf(kind)) : KeysOf(kind)[i] = KeysOf(kind)[j] => i = j
    /\ Named("lms") \cap Named("workplan") = {}
<1>1. Len(KeysOf("lms")) = 2 /\ DOMAIN KeysOf("lms") = 1 .. 2
  BY DEF KeysOf, LMS
<1>2. Len(KeysOf("workplan")) = 5 /\ DOMAIN KeysOf("workplan") = 1 .. 5
  BY DEF KeysOf, WorkplanKeys
<1>3. KeysOf("lms")[1] = "lms.name" /\ KeysOf("lms")[2] = "lms.url"
  BY DEF KeysOf, LMS
<1>4. /\ KeysOf("workplan")[1] = "workplan.state"
      /\ KeysOf("workplan")[2] = "workplan.vic.max_teaching_weekly"
      /\ KeysOf("workplan")[3] = "workplan.vic.annual_teaching_cap"
      /\ KeysOf("workplan")[4] = "workplan.vic.annual_supervision_cap"
      /\ KeysOf("workplan")[5] = "workplan.vic.total_accountable_hours"
  BY DEF KeysOf, WorkplanKeys
<1>5. \A i \in 1 .. 2 : i = 1 \/ i = 2
  OBVIOUS
<1>6. \A i \in 1 .. 5 : i = 1 \/ i = 2 \/ i = 3 \/ i = 4 \/ i = 5
  OBVIOUS
<1>7. \A i, j \in 1 .. 2 : KeysOf("lms")[i] = KeysOf("lms")[j] => i = j
  BY <1>3, <1>5
<1>8. \A i, j \in 1 .. 5 : KeysOf("workplan")[i] = KeysOf("workplan")[j] => i = j
  BY <1>4, <1>6
<1>9. \A i \in 1 .. 2, j \in 1 .. 5 : KeysOf("lms")[i] # KeysOf("workplan")[j]
  BY <1>3, <1>4, <1>5, <1>6
<1>10. Named("lms") \cap Named("workplan") = {}
  BY <1>1, <1>2, <1>9 DEF Named
<1>11. \A kind \in Kinds : kind = "lms" \/ kind = "workplan"
  BY DEF Kinds
<1> QED
  BY <1>1, <1>2, <1>7, <1>8, <1>10, <1>11 DEF AllKeys

\* A save that writes no setting: it ends, or it goes on with its semesters.
GoesOn(p, q) ==
    /\ q.kind = p.kind /\ q.form = p.form /\ q.next = p.next
    /\ q.alone => p.alone
    /\ q.pc # "idle" => p.pc # "idle"
    /\ q.pc = "writing" => p.pc = "writing"
    /\ q.pc = "swapping" <=> p.pc = "swapping"

\* Whoever writes nothing leaves what was written.
LEMMA NothingWritten ==
    ASSUME AgreeInv, UNCHANGED <<settings, lms, torn>>,
           \A r \in Savers : \/ GoesOn(saves[r], saves'[r])
                             \/ saves[r].pc # "swapping" /\ saves'[r].pc = "idle"
    PROVE  AgreeInv'
<1>1. Alone'
  BY DEF AgreeInv, Alone, GoesOn
<1>2. ASSUME NEW r \in Savers PROVE Written(saves[r])'
  <2>1. Written(saves[r])
    BY DEF AgreeInv
  <2>2. CASE GoesOn(saves[r], saves'[r])
    BY <2>1, <2>2 DEF Written, GoesOn
  <2>3. CASE saves'[r].pc = "idle"
    BY <2>3 DEF Written
  <2> QED
    BY <2>2, <2>3
<1>3. (\A s \in Savers : saves'[s].pc # "swapping") => \A s \in Savers : saves[s].pc # "swapping"
  BY DEF GoesOn
<1>4. Linked'
  BY <1>3 DEF AgreeInv, Linked
<1>5. \A kind \in Kinds \ torn' : Uniform(kind)'
  BY DEF AgreeInv, Uniform
<1> QED
  BY <1>1, <1>2, <1>4, <1>5 DEF AgreeInv

\* A save begins alone, or takes its company's solitude.
LEMMA BeginAgrees ==
    ASSUME AgreeInv, SemestersInv, NEW s \in Savers, NEW kind \in Kinds, NEW wanted \in SUBSET Pairs,
           Begin(s, kind, wanted)
    PROVE  AgreeInv'
<1>1. saves[s].pc = "idle" /\ UNCHANGED <<settings, lms, torn>>
  BY DEF Begin
<1>2. PICK alone \in BOOLEAN :
         /\ alone <=> Busy(kind) = {}
         /\ saves'[s] = [Idle EXCEPT !.pc = "writing", !.kind = kind, !.form = started + 1,
                                     !.wanted = wanted, !.alone = alone]
  BY DEF Begin
<1>3. saves'[s].pc = "writing" /\ saves'[s].kind = kind /\ saves'[s].next = 1
      /\ saves'[s].alone = alone
  BY <1>2 DEF Idle
<1>4. ASSUME NEW r \in Savers, r # s
      PROVE  /\ saves'[r].pc = saves[r].pc /\ saves'[r].kind = saves[r].kind
             /\ saves'[r].form = saves[r].form /\ saves'[r].next = saves[r].next
             /\ saves'[r].alone => saves[r].alone
             /\ saves[r].pc # "idle" /\ saves[r].kind = kind => ~ saves'[r].alone
  <2>1. saves[r] \in Saving
    BY DEF SemestersInv
  <2>2. CASE r \in Busy(kind)
    <3>1. saves'[r] = [saves[r] EXCEPT !.alone = FALSE]
      BY <1>4, <2>2 DEF Begin
    <3> QED
      BY <2>1, <3>1 DEF Saving
  <2>3. CASE r \notin Busy(kind)
    <3>1. saves'[r] = saves[r]
      BY <1>4, <2>3 DEF Begin
    <3> QED
      BY <2>3, <3>1 DEF Busy
  <2> QED
    BY <2>2, <2>3
<1>5. Alone'
  <2> SUFFICES ASSUME NEW p \in Savers, NEW r \in Savers, p # r,
                      saves'[p].pc # "idle", saves'[r].pc # "idle", saves'[p].kind = saves'[r].kind
               PROVE  ~ saves'[p].alone
    BY DEF Alone
  <2>1. CASE p = s
    <3>1. r \in Busy(kind)
      BY <1>3, <1>4, <2>1 DEF Busy
    <3> QED
      BY <1>2, <1>3, <2>1, <3>1
  <2>2. CASE r = s
    BY <1>3, <1>4, <2>2
  <2>3. CASE p # s /\ r # s
    <3>1. ~ saves[p].alone
      BY <1>4, <2>3 DEF AgreeInv, Alone
    <3> QED
      BY <1>4, <2>3, <3>1
  <2> QED
    BY <2>1, <2>2, <2>3
<1>6. ASSUME NEW r \in Savers PROVE Written(saves[r])'
  <2>1. CASE r = s
    <3>1. 1 \in 1 .. Len(KeysOf(kind))
      BY DEF KeysOf, LMS, WorkplanKeys
    <3> QED
      BY <1>3, <2>1, <3>1 DEF Written
  <2>2. CASE r # s
    <3>1. Written(saves[r])
      BY DEF AgreeInv
    <3> QED
      BY <1>1, <1>4, <2>2, <3>1 DEF Written
  <2> QED
    BY <2>1, <2>2
<1>7. \A r \in Savers : saves[r].pc = "swapping" => saves'[r].pc = "swapping"
  BY <1>1, <1>4
<1>8. Linked'
  BY <1>1, <1>7 DEF AgreeInv, Linked
<1>9. \A k \in Kinds \ torn' : Uniform(k)'
  BY <1>1 DEF AgreeInv, Uniform
<1> QED
  BY <1>1, <1>5, <1>6, <1>8, <1>9 DEF AgreeInv

\* The swap leaves the link as it is stored, unless the settings are torn.
LEMMA SwapAgrees ==
    ASSUME AgreeInv, SemestersInv, NEW s \in Savers, SwapLMS(s)
    PROVE  AgreeInv'
<1>1. /\ saves[s].pc = "swapping" /\ UNCHANGED <<settings, torn>>
      /\ \A k \in Named("lms") : lms'[k] = saves[s].form
      /\ \A r \in Savers : saves'[r] = IF r = s THEN Idle ELSE saves[r]
  BY DEF SwapLMS, Continue, SemestersInv, AgreeInv
<1>2. Idle.pc = "idle"
  BY DEF Idle
<1>3. Alone'
  BY <1>1, <1>2 DEF AgreeInv, Alone
<1>4. \A r \in Savers : Written(saves[r])'
  BY <1>1, <1>2 DEF AgreeInv, Written
<1>5. Linked'
  BY <1>1 DEF AgreeInv, Written, Linked
<1>6. \A k \in Kinds \ torn' : Uniform(k)'
  BY <1>1 DEF AgreeInv, Uniform
<1> QED
  BY <1>1, <1>3, <1>4, <1>5, <1>6 DEF AgreeInv

\* A setting is written: its page is torn until a save has written all of it
\* alone.
LEMMA WriteAgrees ==
    ASSUME AgreeInv, SemestersInv, NEW s \in Savers, SaveSetting(s)
    PROVE  AgreeInv'
<1>1. PICK q \in Saving : q = saves[s]
  BY DEF SemestersInv
<1>2. PICK kind \in Kinds, n \in Nat, form \in Nat :
         kind = q.kind /\ n = q.next /\ form = q.form
  BY DEF Saving
<1>3. q.pc = "writing" /\ n \in 1 .. Len(KeysOf(kind))
  BY <1>1, <1>2 DEF SaveSetting, AgreeInv, Written
<1>4. PICK len \in Nat : len = Len(KeysOf(kind)) /\ DOMAIN KeysOf(kind) = 1 .. len
  BY Keys
<1>5. PICK pc : pc = IF n # len THEN "writing" ELSE IF kind = "lms" THEN "swapping" ELSE "begin"
  OBVIOUS
<1>6. /\ settings' = [settings EXCEPT ![KeysOf(kind)[n]] = form]
      /\ saves' = [saves EXCEPT ![s] = [q EXCEPT !.pc = pc, !.next = @ + 1]]
      /\ torn' = IF n = len /\ q.alone THEN torn \ {kind} ELSE torn \cup {kind}
      /\ UNCHANGED lms
  BY <1>1, <1>2, <1>3, <1>4, <1>5 DEF SaveSetting, SetSetting, Continue
<1>7. PICK p \in Saving : /\ saves'[s] = p
                          /\ p.pc = pc /\ p.next = n + 1 /\ p.kind = kind /\ p.form = form
                          /\ p.alone = q.alone
  <2> DEFINE p == [q EXCEPT !.pc = pc, !.next = @ + 1]
  <2>1. p \in Saving
    <3>1. pc \in {"writing", "swapping", "begin"}
      BY <1>5
    <3>2. q.next + 1 \in Nat
      BY <1>2
    <3> QED
      BY <3>1, <3>2 DEF Saving
  <2>2. p.pc = pc /\ p.next = n + 1 /\ p.kind = kind /\ p.form = form /\ p.alone = q.alone
    BY <1>2 DEF Saving
  <2>3. saves'[s] = p
    BY <1>6 DEF SemestersInv
  <2> QED
    BY <2>1, <2>2, <2>3
<1>8. \A r \in Savers \ {s} : saves'[r] = saves[r]
  BY <1>6 DEF SemestersInv
<1>9. KeysOf(kind)[n] \in Named(kind) /\ Named(kind) \subseteq AllKeys
  BY <1>3, <1>4, Keys DEF Named
<1>10. \A k \in AllKeys : settings'[k] = IF k = KeysOf(kind)[n] THEN form ELSE settings[k]
  BY <1>6 DEF AgreeInv
<1>11. \A k \in AllKeys : k \notin Named(kind) => settings'[k] = settings[k]
  BY <1>9, <1>10
<1>12. \A other \in Kinds \ {kind} : \A k \in Named(other) : settings'[k] = settings[k]
  <2>1. \A other \in Kinds \ {kind} : Named(other) \cap Named(kind) = {} /\ Named(other) \subseteq AllKeys
    BY Keys DEF Kinds
  <2> QED
    BY <1>11, <2>1
<1>13. \A other \in Kinds \ {kind} : other \in torn' <=> other \in torn
  BY <1>6
<1>14. settings' \in [AllKeys -> Nat]
  BY <1>6 DEF AgreeInv
<1>15. Alone'
  <2> SUFFICES ASSUME NEW a \in Savers, NEW b \in Savers, a # b,
                      saves'[a].pc # "idle", saves'[b].pc # "idle", saves'[a].kind = saves'[b].kind
               PROVE  ~ saves'[a].alone
    BY DEF Alone
  <2>1. \A r \in Savers : saves'[r].kind = saves[r].kind /\ saves'[r].alone = saves[r].alone
                          /\ (saves'[r].pc # "idle" => saves[r].pc # "idle")
    BY <1>1, <1>2, <1>3, <1>7, <1>8
  <2> QED
    BY <2>1 DEF AgreeInv, Alone
\* What it has written so far is its form's, as nobody wrote in between.
<1>16. ASSUME q.alone PROVE \A i \in 1 .. n : settings'[KeysOf(kind)[i]] = form
  <2> SUFFICES ASSUME NEW i \in 1 .. n PROVE settings'[KeysOf(kind)[i]] = form
    OBVIOUS
  <2>1. KeysOf(kind)[i] \in AllKeys
    BY <1>3, <1>4, <1>9 DEF Named
  <2>2. CASE i = n
    BY <1>10, <2>1, <2>2
  <2>3. CASE i # n
    <3>1. i \in 1 .. n - 1
      BY <2>3
    <3>2. settings[KeysOf(kind)[i]] = form
      BY <1>1, <1>2, <1>3, <1>16, <3>1 DEF AgreeInv, Written
    <3>3. KeysOf(kind)[i] # KeysOf(kind)[n]
      <4>1. i \in 1 .. Len(KeysOf(kind))
        BY <1>3, <1>4
      <4> QED
        BY <1>3, <2>3, <4>1, Keys
    <3> QED
      BY <1>10, <2>1, <3>2, <3>3
  <2> QED
    BY <2>2, <2>3
<1>17. ASSUME kind \notin torn'
       PROVE  n = len /\ \A k \in Named(kind) : settings'[k] = form
  <2>1. n = len /\ q.alone
    BY <1>6, <1>17
  <2>2. \A i \in 1 .. len : settings'[KeysOf(kind)[i]] = form
    BY <1>16, <2>1
  <2> QED
    BY <1>4, <2>1, <2>2 DEF Named
<1>18. ASSUME NEW r \in Savers PROVE Written(saves[r])'
  <2>1. CASE r = s
    <3>1. CASE n # len
      <4>1. p.pc = "writing" /\ n + 1 \in 1 .. Len(KeysOf(kind)) /\ n + 1 - 1 = n
        BY <1>3, <1>4, <1>5, <1>7, <3>1
      <4> QED
        BY <1>7, <1>16, <2>1, <4>1 DEF Written
    <3>2. CASE n = len
      <4>1. p.pc # "writing" /\ (p.pc = "swapping" => kind = "lms")
        BY <1>5, <1>7, <3>2
      <4> QED
        BY <1>7, <1>17, <2>1, <4>1 DEF Written
    <3> QED
      BY <3>1, <3>2
  <2>2. CASE r # s /\ saves[r].kind = kind
    <3>1. Written(saves[r]) /\ saves'[r] = saves[r]
      BY <1>8, <2>2 DEF AgreeInv
    <3>2. CASE saves[r].pc = "idle"
      BY <3>1, <3>2 DEF Written
    <3>3. CASE saves[r].pc # "idle"
      <4>1. ~ saves[r].alone /\ ~ q.alone
        BY <1>1, <1>2, <1>3, <2>2, <3>3 DEF AgreeInv, Alone
      <4>2. kind \in torn'
        BY <1>6, <4>1
      <4> QED
        BY <2>2, <3>1, <4>1, <4>2 DEF Written
    <3> QED
      BY <3>2, <3>3
  <2>3. CASE r # s /\ saves[r].kind # kind
    <3>1. PICK other \in Kinds \ {kind} : other = saves[r].kind
      BY <2>3 DEF SemestersInv, Saving
    <3>2. Written(saves[r]) /\ saves'[r] = saves[r]
      BY <1>8, <2>3 DEF AgreeInv
    <3>3. \A i \in 1 .. Len(KeysOf(other)) : KeysOf(other)[i] \in Named(other)
      BY Keys DEF Named
    <3>4. ASSUME saves[r].pc = "writing"
          PROVE  /\ saves[r].next \in 1 .. Len(KeysOf(other))
                 /\ saves[r].alone => \A i \in 1 .. saves[r].next - 1 :
                                         settings'[KeysOf(other)[i]] = saves[r].form
      <4>1. /\ saves[r].next \in 1 .. Len(KeysOf(other))
            /\ saves[r].alone => \A i \in 1 .. saves[r].next - 1 :
                                    settings[KeysOf(other)[i]] = saves[r].form
        BY <3>1, <3>2, <3>4 DEF Written
      <4>2. \A i \in 1 .. saves[r].next - 1 : i \in 1 .. Len(KeysOf(other))
        <5>1. Len(KeysOf(other)) \in Nat
          BY Keys
        <5> QED
          BY <4>1, <5>1
      <4>3. \A i \in 1 .. saves[r].next - 1 :
               settings'[KeysOf(other)[i]] = settings[KeysOf(other)[i]]
        BY <1>12, <3>3, <4>2
      <4> QED
        BY <4>1, <4>3
    <3>5. ASSUME saves[r].pc = "swapping"
          PROVE  /\ other = "lms"
                 /\ "lms" \notin torn' => \A k \in Named("lms") : settings'[k] = saves[r].form
      BY <1>12, <1>13, <3>1, <3>2, <3>5 DEF Written
    <3> QED
      BY <3>1, <3>2, <3>4, <3>5 DEF Written
  <2> QED
    BY <2>1, <2>2, <2>3
<1>19. ASSUME NEW other \in Kinds, other \notin torn' PROVE Uniform(other)'
  <2>1. CASE other = kind
    BY <1>17, <1>19, <2>1 DEF Uniform
  <2>2. CASE other # kind
    BY <1>12, <1>13, <1>19, <2>2 DEF AgreeInv, Uniform
  <2> QED
    BY <2>1, <2>2
<1>20. Linked'
  <2> SUFFICES ASSUME "lms" \notin torn', \A r \in Savers : saves'[r].pc # "swapping",
                      NEW k \in Named("lms")
               PROVE  lms'[k] = settings'[k]
    BY DEF Linked
  <2>1. kind # "lms"
    BY <1>5, <1>7, <1>17
  <2>2. "lms" \in Kinds \ {kind}
    BY <2>1 DEF Kinds
  <2>3. \A r \in Savers : saves[r].pc # "swapping"
    BY <1>1, <1>3, <1>8
  <2>4. lms[k] = settings[k]
    BY <1>13, <2>2, <2>3 DEF AgreeInv, Linked
  <2> QED
    BY <1>6, <1>12, <2>2, <2>4
<1> QED
  BY <1>14, <1>15, <1>18, <1>19, <1>20 DEF AgreeInv

\* Every step keeps what is written and the link together.
LEMMA AgreeStep ==
    ASSUME AgreeInv, SemestersInv, [SettingsNext]_settingsVars PROVE AgreeInv'
<1>1. ASSUME NEW s \in Savers, NEW kind \in Kinds, NEW wanted \in SUBSET Pairs,
             Begin(s, kind, wanted)
      PROVE  AgreeInv'
  BY <1>1, BeginAgrees
<1>2. ASSUME NEW s \in Savers, SaveSetting(s) PROVE AgreeInv'
  BY <1>2, WriteAgrees
<1>3. ASSUME NEW s \in Savers, SwapLMS(s) PROVE AgreeInv'
  BY <1>3, SwapAgrees
<1>4. ASSUME NEW s \in Savers, SaveFails(s) PROVE AgreeInv'
  <2>1. saves[s].pc # "swapping" /\ saves' = [saves EXCEPT ![s] = Idle]
        /\ UNCHANGED <<settings, lms, torn>>
    BY <1>4 DEF SaveFails, Continue
  <2>2. \A r \in Savers : saves'[r] = IF r = s THEN Idle ELSE saves[r]
    BY <2>1 DEF SemestersInv
  <2>3. Idle.pc = "idle"
    BY DEF Idle
  <2> QED
    BY <2>1, <2>2, <2>3, NothingWritten DEF GoesOn
<1>5. CASE Restart
  <2>1. /\ \A r \in Savers : saves'[r].pc = "idle"
        /\ \A k \in Named("lms") : lms'[k] = settings[k]
        /\ UNCHANGED <<settings, torn>>
    BY <1>5 DEF Restart, Idle
  <2>2. Alone' /\ Linked' /\ \A r \in Savers : Written(saves[r])'
    BY <2>1 DEF Alone, Linked, Written
  <2>3. \A k \in Kinds \ torn' : Uniform(k)'
    BY <2>1 DEF AgreeInv, Uniform
  <2> QED
    BY <2>1, <2>2, <2>3 DEF AgreeInv
<1>6. ASSUME NEW s \in Savers, StartClear(s) \/ FinishClear(s) \/ AssignSemester(s)
      PROVE  AgreeInv'
  <2>1. /\ saves[s].pc \in {"begin", "clearing", "assigning"} /\ UNCHANGED <<settings, lms, torn>>
        /\ \E q : Continue(s, q)
    BY <1>6 DEF StartClear, FinishClear, AssignSemester
  <2>2. \A r \in Savers \ {s} : saves'[r] = saves[r]
    BY <2>1 DEF Continue, SemestersInv
  <2>3. saves[s] \in Saving
    BY DEF SemestersInv
  <2>4. GoesOn(saves[s], saves'[s])
    <3>1. CASE StartClear(s)
      <4>1. saves'[s] = [saves[s] EXCEPT !.pc = "clearing", !.doomed = semesters]
        BY <3>1 DEF StartClear, Continue, SemestersInv
      <4> QED
        BY <2>1, <2>3, <4>1 DEF GoesOn, Saving
    <3>2. CASE FinishClear(s)
      <4>1. saves'[s] = [saves[s] EXCEPT !.pc = "assigning", !.doomed = @ \cap semesters,
                                         !.todo = saves[s].wanted]
        BY <3>2 DEF FinishClear, Continue, SemestersInv
      <4> QED
        BY <2>1, <2>3, <4>1 DEF GoesOn, Saving
    <3>3. CASE AssignSemester(s)
      <4>1. PICK todo, inserted :
               saves'[s] = [saves[s] EXCEPT !.todo = todo, !.inserted = inserted]
        <5>1. PICK pair : Continue(s, [saves[s] EXCEPT !.todo = @ \ {pair},
                  !.inserted = IF \E row \in semesters \ saves[s].doomed : row[1] = pair
                               THEN @ ELSE @ \cup {<<pair, saves[s].form>>}])
          BY <3>3 DEF AssignSemester
        <5> QED
          BY <5>1 DEF Continue, SemestersInv
      <4> QED
        BY <2>3, <4>1 DEF GoesOn, Saving
    <3> QED
      BY <1>6, <3>1, <3>2, <3>3
  <2> QED
    BY <2>1, <2>2, <2>4, NothingWritten DEF GoesOn
<1>7. ASSUME NEW s \in Savers, CommitSemesters(s) PROVE AgreeInv'
  <2>1. saves[s].pc = "assigning" /\ UNCHANGED <<settings, lms, torn>>
    BY <1>7 DEF CommitSemesters
  <2>2. ASSUME NEW r \in Savers
        PROVE  \/ GoesOn(saves[r], saves'[r])
               \/ saves[r].pc # "swapping" /\ saves'[r].pc = "idle"
    <3>1. saves[r] \in Saving
      BY DEF SemestersInv
    <3>2. CASE r = s
      BY <1>7, <2>1, <3>2 DEF CommitSemesters, Idle
    <3>3. CASE r # s /\ saves'[r] = [saves[r] EXCEPT !.clean = FALSE]
      BY <3>1, <3>3 DEF GoesOn, Saving
    <3>4. CASE r # s /\ saves'[r] = saves[r]
      BY <3>4 DEF GoesOn
    <3> QED
      BY <1>7, <3>2, <3>3, <3>4 DEF CommitSemesters
  <2> QED
    BY <2>1, <2>2, NothingWritten
<1>8. CASE UNCHANGED settingsVars
  BY <1>8, NothingWritten DEF settingsVars, GoesOn
<1>9. {"lms", "workplan"} \subseteq Kinds /\ {} \in SUBSET Pairs
  BY DEF Kinds
<1> QED
  BY <1>1, <1>2, <1>3, <1>4, <1>5, <1>6, <1>7, <1>8, <1>9
     DEF SettingsNext, SystemLMSSave, WorkplanSettingsSave

\* Before the first save, everything agrees.
LEMMA SettingsStart == SettingsInit => AgreeInv /\ SemestersInv
<1> SUFFICES ASSUME SettingsInit PROVE AgreeInv /\ SemestersInv
  OBVIOUS
<1>1. SemestersInv
  BY IdleReplaces DEF SettingsInit, SemestersInv, SemestersReplaced
<1>2. /\ \A r \in Savers : saves[r].pc = "idle"
      /\ \A k \in AllKeys : settings[k] = 0
      /\ \A k \in Named("lms") : lms[k] = 0
      /\ settings \in [AllKeys -> Nat]
  BY DEF SettingsInit, Idle
<1>3. \A kind \in Kinds : Named(kind) \subseteq AllKeys
  BY Keys
<1>4. "lms" \in Kinds
  BY DEF Kinds
<1>5. Alone /\ Linked /\ (\A r \in Savers : Written(saves[r])) /\ \A kind \in Kinds : Uniform(kind)
  BY <1>2, <1>3, <1>4 DEF Alone, Linked, Written, Uniform
<1> QED
  BY <1>1, <1>2, <1>5 DEF AgreeInv

\* While no save is under way, the settings of a page are all from one form,
\* and the link the server shows is the one in the table, unless the last save
\* to write was interrupted or ran together with another one.
THEOREM Agreed == SettingsSpec => []SettingsAgree
<1>1. SettingsInit => AgreeInv /\ SemestersInv
  BY SettingsStart
<1>2. AgreeInv /\ SemestersInv /\ [SettingsNext]_settingsVars => AgreeInv' /\ SemestersInv'
  BY AgreeStep, SettingsStep
<1>3. AgreeInv => SettingsAgree
  <2> SUFFICES ASSUME AgreeInv, NEW kind \in Kinds \ torn, Busy(kind) = {}
               PROVE  /\ \A k, j \in Named(kind) : settings[k] = settings[j]
                      /\ kind = "lms" => \A k \in Named("lms") : lms[k] = settings[k]
    BY DEF SettingsAgree
  <2>1. Uniform(kind)
    BY DEF AgreeInv
  <2>2. ASSUME kind = "lms" PROVE \A s \in Savers : saves[s].pc # "swapping"
    BY <2>2 DEF AgreeInv, Written, Busy
  <2> QED
    BY <2>1, <2>2 DEF Uniform, AgreeInv, Linked
<1> QED
  BY <1>1, <1>2, <1>3, PTL DEF SettingsSpec
-----------------------------------------------------------------------------
(* The primary key of the semesters                                        *)

\* What the variables hold, but for the key.
SettingsTyped ==
    /\ settings \in [AllKeys -> Forms]
    /\ lms \in [Named("lms") -> Forms]
    /\ semesters \subseteq Rows
    /\ saves \in [Savers -> Save]
    /\ started \in Forms
    /\ torn \subseteq Kinds
    /\ last \in [wanted: SUBSET Pairs, clean: BOOLEAN]

KeyHolds == \A r, q \in semesters : r[1] = q[1] => r = q

\* A transaction that inserts has locked what it deletes, and nothing that it
\* does not delete has the key of a row it inserted.
Inserting(q, rows) ==
    q.pc = "assigning" =>
        /\ q.doomed \subseteq rows
        /\ \A row \in q.inserted : row = <<row[1], q.form>>
        /\ \A row \in q.inserted, r \in rows \ q.doomed : row[1] # r[1]

\* Two of them neither delete the same row nor insert the same key.
Apart(q, p) ==
    q.pc = "assigning" /\ p.pc = "assigning" =>
        /\ q.doomed \cap p.doomed = {}
        /\ \A row \in q.inserted, r \in p.inserted : row[1] # r[1]

LocksInv ==
    /\ KeyHolds
    /\ \A s \in Savers : Inserting(saves[s], semesters)
    /\ \A s, q \in Savers : s # q => Apart(saves[s], saves[q])

\* A saver whose save is typed leaves the variables typed.
LEMMA TypedGoesOn ==
    ASSUME SettingsTyped, NEW s \in Savers, NEW q \in Save, Continue(s, q),
           UNCHANGED <<semesters, started, last>>,
           settings' \in [AllKeys -> Forms], lms' \in [Named("lms") -> Forms], torn' \subseteq Kinds
    PROVE  SettingsTyped'
  BY DEF SettingsTyped, Continue

\* A saver with nothing to save is one of the saves.
LEMMA IdleIsSave == Idle \in Save
<1>1. 0 \in Forms
  BY SettingsAssumption DEF Forms
<1> QED
  BY <1>1 DEF Idle, Save, Kinds

\* Every step keeps the variables typed: no form has a number beyond the bound.
LEMMA TypedStep ==
    ASSUME SettingsTyped, AgreeInv, [SettingsNext]_settingsVars
    PROVE  SettingsTyped'
<1>1. ASSUME NEW s \in Savers, NEW kind \in Kinds, NEW wanted \in SUBSET Pairs,
             Begin(s, kind, wanted)
      PROVE  SettingsTyped'
  <2>1. started + 1 \in Forms /\ started' = started + 1
    <3>1. started \in 0 .. MaxSaves /\ MaxSaves \in Nat
      BY SettingsAssumption DEF SettingsTyped, Forms
    <3>2. started < MaxSaves /\ started' = started + 1
      BY <1>1 DEF Begin
    <3> QED
      BY <3>1, <3>2 DEF Forms
  <2>2. ASSUME NEW r \in Savers PROVE saves'[r] \in Save
    <3>1. CASE r = s
      <4>1. PICK alone \in BOOLEAN :
               saves'[s] = [Idle EXCEPT !.pc = "writing", !.kind = kind, !.form = started + 1,
                                        !.wanted = wanted, !.alone = alone]
        BY <1>1 DEF Begin
      <4>2. saves'[s] = [pc |-> "writing", kind |-> kind, form |-> started + 1, next |-> 1,
                         wanted |-> wanted, todo |-> {}, doomed |-> {}, inserted |-> {},
                         alone |-> alone, clean |-> TRUE]
        BY <4>1, ZenonT(60) DEF Idle
      <4> QED
        BY <2>1, <3>1, <4>2 DEF Save
    <3>2. CASE r # s
      <4>1. saves'[r] = saves[r] \/ saves'[r] = [saves[r] EXCEPT !.alone = FALSE]
        BY <1>1, <3>2 DEF Begin
      <4>2. saves[r] \in Save
        BY DEF SettingsTyped
      <4> QED
        BY <4>1, <4>2 DEF Save
    <3> QED
      BY <3>1, <3>2
  <2>3. saves' \in [Savers -> Save]
    BY <1>1, <2>2 DEF Begin
  <2> QED
    BY <1>1, <2>1, <2>3 DEF Begin, SettingsTyped
<1>2. ASSUME NEW s \in Savers, SaveSetting(s) PROVE SettingsTyped'
  <2>1. saves[s] \in Save /\ saves[s].pc = "writing" /\ Written(saves[s])
    BY <1>2 DEF SettingsTyped, SaveSetting, AgreeInv
  <2>2. saves[s].next \in 1 .. 5
    <3>1. saves[s].next \in 1 .. Len(KeysOf(saves[s].kind))
      BY <2>1 DEF Written
    <3>2. Len(LMS) = 2 /\ Len(WorkplanKeys) = 5
      BY DEF LMS, WorkplanKeys
    <3>3. KeysOf(saves[s].kind) = LMS \/ KeysOf(saves[s].kind) = WorkplanKeys
      BY DEF KeysOf
    <3> HIDE DEF KeysOf, LMS, WorkplanKeys
    <3>4. CASE KeysOf(saves[s].kind) = LMS
      <4>1. saves[s].next \in 1 .. 2
        BY <3>1, <3>2, <3>4
      <4> QED
        BY <4>1
    <3>5. CASE KeysOf(saves[s].kind) = WorkplanKeys
      <4>1. saves[s].next \in 1 .. 5
        BY <3>1, <3>2, <3>5
      <4> QED
        BY <4>1
    <3> QED
      BY <3>3, <3>4, <3>5
  <2>3. PICK pc \in {"writing", "swapping", "begin"} :
           Continue(s, [saves[s] EXCEPT !.pc = pc, !.next = @ + 1])
    BY <1>2, <2>1 DEF SaveSetting
  <2> DEFINE q == [saves[s] EXCEPT !.pc = pc, !.next = @ + 1]
  <2>4. q \in Save
    <3>1. saves[s].next + 1 \in 1 .. 6
      BY <2>2
    <3> QED
      BY <2>1, <3>1 DEF Save
  <2>5. Continue(s, q) /\ UNCHANGED <<semesters, started, last>>
    BY <1>2, <2>3 DEF SaveSetting
  <2>6. settings' \in [AllKeys -> Forms] /\ lms' \in [Named("lms") -> Forms]
    <3>1. saves[s].form \in Forms
      BY <2>1 DEF Save
    <3>2. PICK k : settings' = [settings EXCEPT ![k] = saves[s].form]
      BY <1>2 DEF SaveSetting, SetSetting
    <3>3. lms' = lms
      BY <1>2 DEF SaveSetting
    <3> QED
      BY <3>1, <3>2, <3>3 DEF SettingsTyped
  <2>7. torn' \subseteq Kinds
    <3>1. saves[s].kind \in Kinds
      BY <2>1 DEF Save
    <3>2. torn' \subseteq torn \cup {saves[s].kind}
      BY <1>2 DEF SaveSetting
    <3> QED
      BY <3>1, <3>2 DEF SettingsTyped
  <2> HIDE DEF q
  <2> QED
    BY <2>4, <2>5, <2>6, <2>7, TypedGoesOn
<1>3. ASSUME NEW s \in Savers, SwapLMS(s) \/ SaveFails(s) PROVE SettingsTyped'
  <2>1. /\ Continue(s, Idle) /\ UNCHANGED <<settings, semesters, started, torn, last>>
        /\ lms' = lms \/ lms' = [k \in Named("lms") |-> saves[s].form]
    BY <1>3 DEF SwapLMS, SaveFails
  <2>2. saves[s].form \in Forms
    BY DEF SettingsTyped, Save
  <2>3. /\ settings' \in [AllKeys -> Forms] /\ lms' \in [Named("lms") -> Forms]
        /\ torn' \subseteq Kinds
    BY <2>1, <2>2 DEF SettingsTyped
  <2> QED
    BY <2>1, <2>3, IdleIsSave, TypedGoesOn
<1>4. CASE Restart
  <2>1. saves' \in [Savers -> Save]
    BY <1>4, IdleIsSave DEF Restart
  <2>2. lms' \in [Named("lms") -> Forms]
    BY <1>4 DEF Restart, SettingsTyped, AllKeys
  <2> QED
    BY <1>4, <2>1, <2>2 DEF Restart, SettingsTyped
<1>5. ASSUME NEW s \in Savers, StartClear(s) \/ FinishClear(s) \/ AssignSemester(s)
      PROVE  SettingsTyped'
  <2>1. saves[s] \in Save /\ semesters \in SUBSET Rows
    BY DEF SettingsTyped
  <2>2. UNCHANGED <<settings, lms, semesters, started, torn, last>>
    BY <1>5 DEF StartClear, FinishClear, AssignSemester
  <2>3. \E q \in Save : Continue(s, q)
    <3>1. CASE StartClear(s)
      <4>1. [saves[s] EXCEPT !.pc = "clearing", !.doomed = semesters] \in Save
        BY <2>1 DEF Save
      <4> QED
        BY <3>1, <4>1 DEF StartClear
    <3>2. CASE FinishClear(s)
      <4>1. [saves[s] EXCEPT !.pc = "assigning", !.doomed = @ \cap semesters,
                             !.todo = saves[s].wanted] \in Save
        BY <2>1 DEF Save
      <4> QED
        BY <3>2, <4>1 DEF FinishClear
    <3>3. CASE AssignSemester(s)
      <4>1. PICK pair \in saves[s].todo, inserted \in SUBSET Rows :
               Continue(s, [saves[s] EXCEPT !.todo = @ \ {pair}, !.inserted = inserted])
        <5>1. PICK pair \in saves[s].todo :
                 Continue(s, [saves[s] EXCEPT !.todo = @ \ {pair},
                      !.inserted = IF \E row \in semesters \ saves[s].doomed : row[1] = pair
                                   THEN @ ELSE @ \cup {<<pair, saves[s].form>>}])
          BY <3>3 DEF AssignSemester, FirstOf
        <5> DEFINE inserted == IF \E row \in semesters \ saves[s].doomed : row[1] = pair
                               THEN saves[s].inserted
                               ELSE saves[s].inserted \cup {<<pair, saves[s].form>>}
        <5>2. inserted \in SUBSET Rows
          BY <2>1 DEF Save, Rows
        <5>3. Continue(s, [saves[s] EXCEPT !.todo = @ \ {pair}, !.inserted = inserted])
          BY <5>1
        <5> QED
          BY <5>2, <5>3
      <4>2. [saves[s] EXCEPT !.todo = @ \ {pair}, !.inserted = inserted] \in Save
        BY <2>1, <4>1 DEF Save
      <4> QED
        BY <4>1, <4>2
    <3> QED
      BY <1>5, <3>1, <3>2, <3>3
  <2>4. /\ settings' \in [AllKeys -> Forms] /\ lms' \in [Named("lms") -> Forms]
        /\ torn' \subseteq Kinds
    BY <2>2 DEF SettingsTyped
  <2> QED
    BY <2>2, <2>3, <2>4, TypedGoesOn
<1>6. ASSUME NEW s \in Savers, CommitSemesters(s) PROVE SettingsTyped'
  <2>1. saves[s] \in Save /\ semesters \in SUBSET Rows
    BY DEF SettingsTyped
  <2>2. semesters' \subseteq Rows
    BY <1>6, <2>1 DEF CommitSemesters, Save
  <2>3. ASSUME NEW r \in Savers PROVE saves'[r] \in Save
    <3>1. saves[r] \in Save
      BY DEF SettingsTyped
    <3>2. \/ saves'[r] = Idle \/ saves'[r] = saves[r]
          \/ saves'[r] = [saves[r] EXCEPT !.clean = FALSE]
      BY <1>6 DEF CommitSemesters
    <3> QED
      BY <3>1, <3>2, IdleIsSave DEF Save
  <2>4. saves' \in [Savers -> Save]
    BY <1>6, <2>3 DEF CommitSemesters
  <2>5. last' \in [wanted: SUBSET Pairs, clean: BOOLEAN]
    BY <1>6, <2>1 DEF CommitSemesters, Save
  <2> QED
    BY <1>6, <2>2, <2>4, <2>5 DEF CommitSemesters, SettingsTyped
<1>7. CASE UNCHANGED settingsVars
  BY <1>7 DEF settingsVars, SettingsTyped
<1>8. {"lms", "workplan"} \subseteq Kinds /\ {} \in SUBSET Pairs
  BY DEF Kinds
<1> QED
  BY <1>1, <1>2, <1>3, <1>4, <1>5, <1>6, <1>7, <1>8
     DEF SettingsNext, SystemLMSSave, WorkplanSettingsSave
\* Whoever neither starts to insert nor goes on with it leaves the locks alone.
LEMMA LocksStay ==
    ASSUME LocksInv, semesters' = semesters,
           \A r \in Savers : saves'[r].pc = "assigning" =>
              /\ saves[r].pc = "assigning" /\ saves'[r].form = saves[r].form
              /\ saves'[r].doomed = saves[r].doomed /\ saves'[r].inserted = saves[r].inserted
    PROVE  LocksInv'
<1>1. KeyHolds'
  BY DEF LocksInv, KeyHolds
<1>2. ASSUME NEW r \in Savers PROVE Inserting(saves'[r], semesters')
  <2>1. Inserting(saves[r], semesters)
    BY DEF LocksInv
  <2> QED
    BY <2>1 DEF Inserting
<1>3. ASSUME NEW r \in Savers, NEW p \in Savers, r # p PROVE Apart(saves'[r], saves'[p])
  <2>1. Apart(saves[r], saves[p])
    BY <1>3 DEF LocksInv
  <2> QED
    BY <2>1 DEF Apart
<1> QED
  BY <1>1, <1>2, <1>3 DEF LocksInv

\* Every step keeps the key, as nobody inserts beside a lock.
LEMMA LocksStep ==
    ASSUME SettingsTyped, SemestersInv, LocksInv, [SettingsNext]_settingsVars
    PROVE  LocksInv'
<1>1. ASSUME NEW s \in Savers, NEW kind \in Kinds, NEW wanted \in SUBSET Pairs,
             Begin(s, kind, wanted)
      PROVE  LocksInv'
  <2>1. ASSUME NEW r \in Savers, saves'[r].pc = "assigning"
        PROVE  /\ saves[r].pc = "assigning" /\ saves'[r].form = saves[r].form
               /\ saves'[r].doomed = saves[r].doomed /\ saves'[r].inserted = saves[r].inserted
    <3>1. CASE r = s
      <4>1. PICK alone \in BOOLEAN :
               saves'[s] = [Idle EXCEPT !.pc = "writing", !.kind = kind, !.form = started + 1,
                                        !.wanted = wanted, !.alone = alone]
        BY <1>1 DEF Begin
      <4>2. saves'[s].pc = "writing"
        BY <4>1 DEF Idle
      <4> QED
        BY <2>1, <3>1, <4>2
    <3>2. CASE r # s
      <4>1. saves'[r] = saves[r] \/ saves'[r] = [saves[r] EXCEPT !.alone = FALSE]
        BY <1>1, <3>2 DEF Begin
      <4>2. saves[r] \in Save
        BY DEF SettingsTyped
      <4> QED
        BY <2>1, <4>1, <4>2 DEF Save
    <3> QED
      BY <3>1, <3>2
  <2> QED
    BY <1>1, <2>1, LocksStay DEF Begin
<1>2. ASSUME NEW s \in Savers, SaveSetting(s) \/ SwapLMS(s) \/ SaveFails(s) \/ StartClear(s)
      PROVE  LocksInv'
  <2>1. semesters' = semesters /\ \E q : Continue(s, q) /\ q.pc # "assigning"
    <3>1. saves[s] \in Save
      BY DEF SettingsTyped
    <3>2. CASE SaveSetting(s)
      <4>1. PICK pc \in {"writing", "swapping", "begin"} :
               Continue(s, [saves[s] EXCEPT !.pc = pc, !.next = @ + 1])
        BY <3>2 DEF SaveSetting
      <4>2. [saves[s] EXCEPT !.pc = pc, !.next = @ + 1].pc = pc
        BY <3>1 DEF Save
      <4> QED
        BY <3>2, <4>1, <4>2 DEF SaveSetting
    <3>3. CASE SwapLMS(s) \/ SaveFails(s)
      BY <3>3 DEF SwapLMS, SaveFails, Idle
    <3>4. CASE StartClear(s)
      <4>1. [saves[s] EXCEPT !.pc = "clearing", !.doomed = semesters].pc = "clearing"
        BY <3>1 DEF Save
      <4> QED
        BY <3>4, <4>1 DEF StartClear
    <3> QED
      BY <1>2, <3>2, <3>3, <3>4
  <2>2. \A r \in Savers : saves'[r].pc = "assigning" => saves'[r] = saves[r]
    BY <2>1 DEF Continue, SettingsTyped
  <2> QED
    BY <2>1, <2>2, LocksStay
<1>3. CASE Restart
  <2>1. \A r \in Savers : saves'[r].pc # "assigning"
    BY <1>3 DEF Restart, Idle
  <2>2. semesters' = semesters
    BY <1>3 DEF Restart
  <2> QED
    BY <2>1, <2>2, LocksStay
<1>4. ASSUME NEW s \in Savers, FinishClear(s) PROVE LocksInv'
  <2>1. /\ saves[s] \in Save /\ saves[s].pc = "clearing" /\ saves[s].inserted = {}
        /\ semesters' = semesters
    BY <1>4 DEF SettingsTyped, SemestersInv, Replacing, FinishClear
  <2>2. saves' = [saves EXCEPT ![s] = [saves[s] EXCEPT !.pc = "assigning",
                     !.doomed = @ \cap semesters, !.todo = saves[s].wanted]]
    BY <1>4 DEF FinishClear, Continue
  <2>3. /\ saves'[s].pc = "assigning" /\ saves'[s].inserted = {}
        /\ saves'[s].doomed = saves[s].doomed \cap semesters
        /\ \A r \in Savers \ {s} : saves'[r] = saves[r]
    <3>1. saves'[s] = [saves[s] EXCEPT !.pc = "assigning", !.doomed = @ \cap semesters,
                                       !.todo = saves[s].wanted]
      BY <2>2 DEF SettingsTyped
    <3>2. \A r \in Savers \ {s} : saves'[r] = saves[r]
      BY <2>2 DEF SettingsTyped
    <3> QED
      BY <2>1, <3>1, <3>2 DEF Save
  <2>4. \A r \in Savers \ {s} : saves[r].pc = "assigning" => saves[r].doomed \cap saves[s].doomed = {}
    BY <1>4 DEF FinishClear, Holding
  <2>5. KeyHolds'
    BY <2>1 DEF LocksInv, KeyHolds
  <2>6. ASSUME NEW r \in Savers PROVE Inserting(saves'[r], semesters')
    BY <2>1, <2>3 DEF LocksInv, Inserting
  <2>7. ASSUME NEW r \in Savers, NEW p \in Savers, r # p PROVE Apart(saves'[r], saves'[p])
    <3>1. CASE r = s
      BY <2>3, <2>4, <2>7, <3>1 DEF Apart
    <3>2. CASE p = s
      BY <2>3, <2>4, <2>7, <3>2 DEF Apart
    <3>3. CASE r # s /\ p # s
      BY <2>3, <2>7, <3>3 DEF LocksInv
    <3> QED
      BY <3>1, <3>2, <3>3
  <2> QED
    BY <2>5, <2>6, <2>7 DEF LocksInv
<1>5. ASSUME NEW s \in Savers, AssignSemester(s) PROVE LocksInv'
  <2>1. saves[s] \in Save /\ saves[s].pc = "assigning" /\ semesters' = semesters
    BY <1>5 DEF SettingsTyped, AssignSemester
  <2>2. PICK pair \in saves[s].todo :
           /\ Holding(s, {}, {pair}) = {}
           /\ Continue(s, [saves[s] EXCEPT !.todo = @ \ {pair},
                !.inserted = IF \E row \in semesters \ saves[s].doomed : row[1] = pair
                             THEN @ ELSE @ \cup {<<pair, saves[s].form>>}])
    BY <1>5 DEF AssignSemester, FirstOf
  <2> DEFINE inserted == IF \E row \in semesters \ saves[s].doomed : row[1] = pair
                         THEN saves[s].inserted
                         ELSE saves[s].inserted \cup {<<pair, saves[s].form>>}
  <2>3. /\ Continue(s, [saves[s] EXCEPT !.todo = @ \ {pair}, !.inserted = inserted])
        /\ \/ inserted = saves[s].inserted
           \/ /\ inserted = saves[s].inserted \cup {<<pair, saves[s].form>>}
              /\ \A row \in semesters \ saves[s].doomed : row[1] # pair
    BY <2>2
  <2> HIDE DEF inserted
  <2>4. /\ saves'[s].pc = "assigning" /\ saves'[s].inserted = inserted
        /\ saves'[s].doomed = saves[s].doomed /\ saves'[s].form = saves[s].form
        /\ \A r \in Savers \ {s} : saves'[r] = saves[r]
    <3>1. saves'[s] = [saves[s] EXCEPT !.todo = @ \ {pair}, !.inserted = inserted]
      BY <2>3 DEF Continue, SettingsTyped
    <3>2. \A r \in Savers \ {s} : saves'[r] = saves[r]
      BY <2>3 DEF Continue, SettingsTyped
    <3> QED
      BY <2>1, <3>1, <3>2 DEF Save
  <2>5. KeyHolds'
    BY <2>1 DEF LocksInv, KeyHolds
  <2>6. CASE inserted = saves[s].inserted
    BY <2>1, <2>4, <2>6, LocksStay
  <2>7. CASE /\ inserted = saves[s].inserted \cup {<<pair, saves[s].form>>}
             /\ \A row \in semesters \ saves[s].doomed : row[1] # pair
    <3>1. <<pair, saves[s].form>>[1] = pair
      OBVIOUS
    <3>2. \A row \in inserted : row \in saves[s].inserted \/ (row = <<row[1], saves[s].form>> /\ row[1] = pair)
      BY <2>7, <3>1
    <3>3. Inserting(saves'[s], semesters')
      <4>1. Inserting(saves[s], semesters)
        BY DEF LocksInv
      <4> QED
        BY <2>1, <2>4, <2>7, <3>2, <4>1 DEF Inserting
    <3>4. \A r \in Savers \ {s} : Inserting(saves'[r], semesters')
      BY <2>1, <2>4 DEF LocksInv
    <3>5. \A r \in Savers \ {s} : saves[r].pc = "assigning" =>
             \A row \in saves[r].inserted : row[1] # pair
      BY <2>2 DEF Holding
    <3>6. ASSUME NEW r \in Savers \ {s}
          PROVE  Apart(saves'[s], saves'[r]) /\ Apart(saves'[r], saves'[s])
      <4>1. Apart(saves[s], saves[r]) /\ saves'[r] = saves[r]
        BY <2>4 DEF LocksInv
      <4>2. saves[r].pc = "assigning" =>
               /\ saves[s].doomed \cap saves[r].doomed = {}
               /\ \A row \in inserted, q \in saves[r].inserted : row[1] # q[1]
        BY <2>1, <3>2, <3>5, <4>1 DEF Apart
      <4> QED
        BY <2>4, <4>1, <4>2 DEF Apart
    <3>7. ASSUME NEW r \in Savers, NEW p \in Savers, r # p PROVE Apart(saves'[r], saves'[p])
      <4>1. CASE r # s /\ p # s
        BY <2>4, <3>7, <4>1 DEF LocksInv
      <4> QED
        BY <3>6, <3>7, <4>1
    <3> QED
      BY <2>5, <3>3, <3>4, <3>7 DEF LocksInv
  <2> QED
    BY <2>3, <2>6, <2>7
<1>6. ASSUME NEW s \in Savers, CommitSemesters(s) PROVE LocksInv'
  <2>1. /\ saves[s] \in Save /\ saves[s].pc = "assigning"
        /\ semesters' = (semesters \ saves[s].doomed) \cup saves[s].inserted
    BY <1>6 DEF SettingsTyped, CommitSemesters
  <2>2. Inserting(saves[s], semesters)
    BY DEF LocksInv
  <2>3. KeyHolds'
    <3> SUFFICES ASSUME NEW r \in semesters', NEW q \in semesters', r[1] = q[1] PROVE r = q
      BY DEF KeyHolds
    <3>1. CASE r \in semesters \ saves[s].doomed /\ q \in semesters \ saves[s].doomed
      BY <3>1 DEF LocksInv, KeyHolds
    <3>2. CASE r \in saves[s].inserted /\ q \in saves[s].inserted
      <4>1. r = <<r[1], saves[s].form>> /\ q = <<q[1], saves[s].form>>
        BY <2>1, <2>2, <3>2 DEF Inserting
      <4> QED
        BY <4>1
    <3>3. CASE r \in saves[s].inserted /\ q \in semesters \ saves[s].doomed
      BY <2>1, <2>2, <3>3 DEF Inserting
    <3>4. CASE q \in saves[s].inserted /\ r \in semesters \ saves[s].doomed
      BY <2>1, <2>2, <3>4 DEF Inserting
    <3> QED
      BY <2>1, <3>1, <3>2, <3>3, <3>4
  <2>4. saves'[s].pc = "idle"
    BY <1>6 DEF CommitSemesters, Idle
  <2>5. ASSUME NEW r \in Savers \ {s}
        PROVE  /\ saves'[r].pc = saves[r].pc /\ saves'[r].form = saves[r].form
               /\ saves'[r].doomed = saves[r].doomed /\ saves'[r].inserted = saves[r].inserted
    <3>1. saves'[r] = saves[r] \/ saves'[r] = [saves[r] EXCEPT !.clean = FALSE]
      BY <1>6 DEF CommitSemesters
    <3>2. saves[r] \in Save
      BY DEF SettingsTyped
    <3> QED
      BY <3>1, <3>2 DEF Save
  <2>6. ASSUME NEW r \in Savers PROVE Inserting(saves'[r], semesters')
    <3>1. CASE r = s
      BY <2>4, <3>1 DEF Inserting
    <3>2. CASE r # s /\ saves[r].pc = "assigning"
      <4>1. Inserting(saves[r], semesters) /\ Apart(saves[r], saves[s])
        BY <3>2 DEF LocksInv
      <4>2. /\ saves[r].doomed \subseteq semesters
            /\ saves[r].doomed \cap saves[s].doomed = {}
            /\ \A row \in saves[r].inserted : row = <<row[1], saves[r].form>>
            /\ \A row \in saves[r].inserted, q \in semesters \ saves[r].doomed : row[1] # q[1]
            /\ \A row \in saves[r].inserted, q \in saves[s].inserted : row[1] # q[1]
        BY <2>1, <3>2, <4>1 DEF Inserting, Apart
      <4>3. saves[r].doomed \subseteq semesters'
        BY <2>1, <4>2
      <4>4. \A row \in saves[r].inserted, q \in semesters' \ saves[r].doomed : row[1] # q[1]
        BY <2>1, <4>2
      <4> QED
        BY <2>5, <3>2, <4>2, <4>3, <4>4 DEF Inserting
    <3>3. CASE r # s /\ saves[r].pc # "assigning"
      BY <2>5, <3>3 DEF Inserting
    <3> QED
      BY <3>1, <3>2, <3>3
  <2>7. ASSUME NEW r \in Savers, NEW p \in Savers, r # p PROVE Apart(saves'[r], saves'[p])
    <3>1. CASE r = s \/ p = s
      BY <2>4, <3>1 DEF Apart
    <3>2. CASE r # s /\ p # s
      <4>1. Apart(saves[r], saves[p])
        BY <2>7 DEF LocksInv
      <4> QED
        BY <2>5, <3>2, <4>1 DEF Apart
    <3> QED
      BY <3>1, <3>2
  <2> QED
    BY <2>3, <2>6, <2>7 DEF LocksInv
<1>7. CASE UNCHANGED settingsVars
  BY <1>7, LocksStay DEF settingsVars
<1>8. {"lms", "workplan"} \subseteq Kinds /\ {} \in SUBSET Pairs
  BY DEF Kinds
<1> QED
  BY <1>1, <1>2, <1>3, <1>4, <1>5, <1>6, <1>7, <1>8
     DEF SettingsNext, SystemLMSSave, WorkplanSettingsSave

\* SettingsTypeOK: the variables hold what they should, and no two rows of
\* workplan_period_semesters have one key, however many saves replace them.
THEOREM SettingsTyping == SettingsSpec => []SettingsTypeOK
<1>1. SettingsInit => SettingsTyped /\ LocksInv
  <2> SUFFICES ASSUME SettingsInit PROVE SettingsTyped /\ LocksInv
    OBVIOUS
  <2>1. 0 \in Forms
    BY SettingsAssumption DEF Forms
  <2>2. SettingsTyped
    BY <2>1, IdleIsSave DEF SettingsInit, SettingsTyped
  <2>3. semesters = {} /\ \A r \in Savers : saves[r].pc = "idle"
    BY DEF SettingsInit, Idle
  <2> QED
    BY <2>2, <2>3 DEF LocksInv, KeyHolds, Inserting, Apart
<1>2. SettingsInit => SemestersInv /\ AgreeInv
  BY SettingsStart
<1>3. /\ SettingsTyped /\ AgreeInv /\ SemestersInv /\ LocksInv /\ [SettingsNext]_settingsVars
      => SettingsTyped' /\ AgreeInv' /\ SemestersInv' /\ LocksInv'
  BY TypedStep, LocksStep, AgreeStep, SettingsStep
<1>4. SettingsTyped /\ LocksInv => SettingsTypeOK
  BY DEF SettingsTyped, LocksInv, KeyHolds, SettingsTypeOK
<1> QED
  BY <1>1, <1>2, <1>3, <1>4, PTL DEF SettingsSpec
=============================================================================
