------------------------------ MODULE MCHolidays ------------------------------
(***************************************************************************)
(* Holidays for TLC: the rules that the screens are given, and one year.   *)
(***************************************************************************)
EXTENDS Holidays

\* Holidays: in 2021 Christmas and Boxing Day are a Saturday and a Sunday, and
\* February has no fifth Monday.
Blank ==
    [name |-> "", state |-> "*", recurrence |-> "", month |-> 0, day |-> 0, weekday |-> 0,
     nth |-> 0, offset |-> 0, fixed |-> NoDate, substitute |-> FALSE, from |-> 0, to |-> 0]
Christmas == [Blank EXCEPT !.name = "Christmas", !.recurrence = "ANNUAL_FIXED",
                           !.month = 12, !.day = 25, !.substitute = TRUE]
BoxingDay == [Christmas EXCEPT !.name = "Boxing", !.day = 26]
FifthMonday == [Blank EXCEPT !.name = "Fifth", !.recurrence = "ANNUAL_NTH_DOW",
                             !.state = "VIC", !.month = 2, !.weekday = 1, !.nth = 5, !.to = 2021]
EasterMonday == [Blank EXCEPT !.name = "Easter", !.recurrence = "ANNUAL_EASTER_OFFSET", !.offset = 1]
EasterSunday == [EasterMonday EXCEPT !.offset = 0]
April31 == [Christmas EXCEPT !.name = "Odd", !.month = 4, !.day = 31]
Mourning == [Blank EXCEPT !.name = "Mourning", !.recurrence = "ONCE", !.fixed = GoDate(2022, 9, 22)]
MCRuleForms ==
    {Blank, Christmas, BoxingDay, FifthMonday, EasterMonday, EasterSunday, April31, Mourning}
MCHandForms == {Observance(GoDate(2021, 12, 27), "Day", "", "*", 0, FALSE)}

MCYearsShown == 1990 .. 2090

YearSpec == HolidaysInit /\ year = 2021 /\ [][HolidaysNext]_holidaysVars
=============================================================================
