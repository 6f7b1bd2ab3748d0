------------------------------- MODULE Workplan -------------------------------
(***************************************************************************)
(* The teachers' own pages: the days they are available, and their         *)
(* requests for leave.                                                     *)
(*                                                                         *)
(* Every request is one statement or one transaction that nobody else's    *)
(* rows matter to, except "set defaults", which sends five statements.     *)
(* The store can approve and decline a request; no handler calls it.       *)
(***************************************************************************)
EXTENDS Integers, Sequences

CONSTANTS
    Persons,        \* the signed-in persons who are teachers
    Dates,          \* the dates of the calendar, consecutive numbers
    Hours,          \* the times of day the forms offer
    MaxLeave        \* bound: the requests for leave that are ever made

Days == 1 .. 6      \* Monday to Saturday
Weekdays == 1 .. 5
Opening == 8
Closing == 22

ASSUME WorkplanAssumption ==
    /\ Dates \subseteq Int
    /\ {Opening, Closing} \subseteq Hours /\ Hours \subseteq Nat
    /\ MaxLeave \in Nat

Times == [from: Hours, to: Hours]
Defaults == [from |-> Opening, to |-> Closing]
NoTimes == [from |-> 0, to |-> 0]

\* CHECK (end_time > start_time)
Lasting(t) == t.to > t.from

VARIABLES
    availability,   \* <<teacher, day>> -> times, or NoTimes
    defaulting,     \* teacher -> the day that "set defaults" is at, or 0
    touched,        \* history: the days other requests set meanwhile
    leave           \* leave_requests with their dates, in the order of their ids

workplanVars == <<availability, defaulting, touched, leave>>

WorkplanInit ==
    /\ availability = [d \in Persons \X Days |-> NoTimes]
    /\ defaulting = [t \in Persons |-> 0]
    /\ touched = [t \in Persons |-> {}]
    /\ leave = <<>>

-----------------------------------------------------------------------------
(* Availability                                                            *)

\* INSERT ... ON CONFLICT (teacher_id, day_of_week) DO UPDATE
UpsertTeacherAvailability(t, day, times) ==
    /\ Lasting(times)
    /\ availability' = [availability EXCEPT ![<<t, day>>] = times]
DeleteTeacherAvailability(t, day) ==
    availability' = [availability EXCEPT ![<<t, day>>] = NoTimes]

Touch(t, day) ==
    touched' = [touched EXCEPT ![t] = IF defaulting[t] = 0 THEN {} ELSE @ \cup {day}]

WorkplanAvailabilitySet ==
    /\ \E t \in Persons, day \in Days, times \in Times :
          UpsertTeacherAvailability(t, day, times) /\ Touch(t, day)
    /\ UNCHANGED <<defaulting, leave>>

WorkplanAvailabilityDelete ==
    /\ \E t \in Persons, day \in Days : DeleteTeacherAvailability(t, day) /\ Touch(t, day)
    /\ UNCHANGED <<defaulting, leave>>

\* for day := 1; day <= 5; day++
WorkplanAvailabilitySetDefaults ==
    /\ \E t \in Persons :
          /\ defaulting[t] = 0
          /\ defaulting' = [defaulting EXCEPT ![t] = 1]
          /\ touched' = [touched EXCEPT ![t] = {}]
    /\ UNCHANGED <<availability, leave>>

SetDefault(t) ==
    /\ defaulting[t] \in Weekdays
    /\ UpsertTeacherAvailability(t, defaulting[t], Defaults)
    /\ defaulting' = [defaulting EXCEPT ![t] = @ + 1]
    /\ UNCHANGED <<touched, leave>>

\* The page is redirected to: the loop is through.
DefaultsSet(t) ==
    /\ defaulting[t] > 5
    /\ defaulting' = [defaulting EXCEPT ![t] = 0]
    /\ UNCHANGED <<availability, touched, leave>>

\* Mutant: the loop goes on after an error.
SkipDay(t) ==
    /\ defaulting[t] \in Weekdays
    /\ defaulting' = [defaulting EXCEPT ![t] = @ + 1]
    /\ UNCHANGED <<availability, touched, leave>>

\* A statement fails: the days before it keep their defaults.
SetDefaultFails(t) ==
    /\ defaulting[t] \in Weekdays
    /\ defaulting' = [defaulting EXCEPT ![t] = 0]
    /\ UNCHANGED <<availability, touched, leave>>

-----------------------------------------------------------------------------
(* Leave                                                                   *)

\* The days the form names: a range, or single dates, of which two may be the
\* same.  No usable date at all is an empty list.
DateRange(first, last) == [i \in 1 .. last - first + 1 |-> first + i - 1]
DateLists ==
    {DateRange(first, last) : first \in Dates, last \in Dates} \cup
    {<<d, e>> : d \in Dates, e \in Dates}

LeaveForms == [dates: DateLists, partial: BOOLEAN, times: Times \cup {NoTimes}]

\* The times are stored only for part of a day; CHECK (is_partial_day = false
\* OR (... partial_end > partial_start)).  The request and its dates are one
\* transaction; a date that is named twice is stored once.
CreateLeaveRequest(t, f) ==
    /\ f.partial => Lasting(f.times)
    /\ leave' = Append(leave,
          [teacher |-> t, dates |-> {f.dates[i] : i \in DOMAIN f.dates}, partial |-> f.partial,
           times |-> IF f.partial THEN f.times ELSE NoTimes, status |-> "Pending"])

\* Mutant: a form without a usable date is accepted.
WorkplanLeaveAccept ==
    /\ Len(leave) < MaxLeave
    /\ \E t \in Persons, f \in LeaveForms :
          /\ f.partial => Len(f.dates) <= 1
          /\ CreateLeaveRequest(t, f)
    /\ UNCHANGED <<availability, defaulting, touched>>

WorkplanLeaveCreate ==
    /\ Len(leave) < MaxLeave
    /\ \E t \in Persons, f \in LeaveForms :
          /\ Len(f.dates) > 0
          /\ f.partial => Len(f.dates) <= 1
          /\ CreateLeaveRequest(t, f)
    /\ UNCHANGED <<availability, defaulting, touched>>

\* ... WHERE id = $1 AND teacher_id = $2 AND status = 'Pending'
CancelLeaveRequest(t, id) ==
    /\ leave[id].teacher = t
    /\ leave[id].status = "Pending"
    /\ leave' = [leave EXCEPT ![id].status = "Cancelled"]

WorkplanLeaveCancel ==
    /\ \E t \in Persons, id \in DOMAIN leave : CancelLeaveRequest(t, id)
    /\ UNCHANGED <<availability, defaulting, touched>>

\* JOIN leave_request_dates: a request without dates is not in the list.
ListLeaveRequests(t) == {id \in DOMAIN leave : leave[id].teacher = t /\ leave[id].dates # {}}

-----------------------------------------------------------------------------
Planning ==
    \/ WorkplanAvailabilitySet \/ WorkplanAvailabilityDelete
    \/ WorkplanAvailabilitySetDefaults
    \/ \E t \in Persons : SetDefault(t) \/ DefaultsSet(t) \/ SetDefaultFails(t)

TakingLeave == WorkplanLeaveCreate \/ WorkplanLeaveCancel

WorkplanNext == Planning \/ TakingLeave

WorkplanSpec == WorkplanInit /\ [][WorkplanNext]_workplanVars
-----------------------------------------------------------------------------
(* Properties                                                              *)

\* When "set defaults" answers that it is done, every weekday has the default
\* hours, except those that another request of the teacher set meanwhile.
DefaultsReachFriday ==
    [][\A t \in Persons :
          DefaultsSet(t) =>
            \A day \in Weekdays \ touched[t] : availability[<<t, day>>] = Defaults]_workplanVars

\* Every request for leave is in its teacher's list, where alone it can be
\* cancelled; one for part of a day is for one day and for some time of it.
LeaveIsListed ==
    \A id \in DOMAIN leave :
        /\ id \in ListLeaveRequests(leave[id].teacher)
        /\ leave[id].partial =>
              /\ \A d, e \in leave[id].dates : d = e
              /\ Lasting(leave[id].times)
=============================================================================
