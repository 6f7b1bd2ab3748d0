----------------------------- MODULE MCTimetable -----------------------------
(* Small timetables for TLC: one teacher, one room, one or two classes, three *)
(* dates a week apart, the last of them in the next year.                     *)
EXTENDS Timetable, TLC

CONSTANTS t1, c1, c2, room1, g1, p1, p2

MCYearOf == [d \in Days |-> IF d < 3 THEN 1 ELSE 2]

TwoHours == [t \in Teachers |-> 2]

EightHours == [t \in Teachers |-> 8]

NoPeriodCap == [t \in Teachers |-> NoCap]

Form(c, d, from, to, room) ==
    [class |-> c, day |-> d, start |-> from, end |-> to, room |-> room]

\* A one-hour and a two-hour session that overlap on a common date, the first
\* in the room.
MCForms ==
    {Form(c1, 1, 10, 11, room1), Form(c2, 3, 9, 11, NoRoom)}

\* The same times for one class, both in the room.
RoomForms ==
    {Form(c1, 1, 10, 11, room1), Form(c1, 3, 9, 11, room1)}

\* One class has an intake group, the other none.
OneGroup ==
    [c \in Classes |-> [period |-> p1, group |-> IF c = c1 THEN g1 ELSE NoGroup]]

\* Every class has the group and starts in the first period.
AllInP1 == [c \in Classes |-> [period |-> p1, group |-> g1]]

\* The forms of a class: in each of the periods, with a group and without.
TwoShapes == {[period |-> p1, group |-> g1], [period |-> p2, group |-> NoGroup]}

MCSymmetry == Permutations(SessionIds)
=============================================================================
