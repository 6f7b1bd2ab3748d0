------------------------------- MODULE MCOffice -------------------------------
(***************************************************************************)
(* The offices around the timetable, for TLC.  They share no table, so one *)
(* of them works at a time: part says which, and the others rest in their  *)
(* initial states.                                                         *)
(***************************************************************************)
EXTENDS Campus, Records, Workplan, Settings, MCHolidays, Concurrent, TLC

VARIABLE part

\* Campus: one row in most tables, a role called Teacher.
MCSeed ==
    [t \in Tabs |->
        CASE t = "orgs"      -> <<[code |-> "a"]>>
          [] t = "locations" -> <<[org |-> 1, code |-> "a", state |-> "VIC"]>>
          [] t = "buildings" -> <<[location |-> 1, code |-> "a"]>>
          [] t = "rooms"     -> <<[building |-> 1, code |-> "a"]>>
          [] t = "issues"    -> <<[room |-> 1, status |-> "Open", resolved |-> FALSE]>>
          [] t = "faculties" -> <<[name |-> "a"]>>
          [] t = "departments" -> <<[name |-> "a", faculty |-> 1, deleted |-> FALSE]>>
          [] t = "programs"  -> <<[faculty |-> 1, code |-> "a"]>>
          [] t = "subjects"  -> <<[code |-> "a"]>>
          [] t = "subjectprograms" -> <<[subject |-> 1, program |-> 1]>>
          [] t = "periods"   -> <<[code |-> "a"]>>
          [] t = "intakes"   -> <<[program |-> 1, period |-> 1, location |-> 1, code |-> "a"]>>
          [] t = "groups"    -> <<[intake |-> 1, code |-> "a"]>>
          [] t = "roletypes" -> <<[code |-> "Teacher"]>>
          [] t = "classes"   -> <<[period |-> 1, location |-> 1, group |-> 1]>>
          [] t = "classsubjects" -> <<[class |-> 1, subject |-> 1]>>
          [] t = "sessions"  -> <<[class |-> 1, room |-> 1, building |-> 1, date |-> 1]>>
          [] t = "enrolments" -> <<[program |-> 1, group |-> 1]>>
          [] OTHER           -> <<>>]
EmptySeed == [t \in Tabs |-> <<>>]
MCSeeds == {MCSeed, EmptySeed}
MCObservances == {[date |-> 1, state |-> "NSW"]}
\* Two screens together when a foreign key joins their tables.
MCShifts ==
    {{"orgs", "locations"}, {"locations", "buildings"}, {"locations", "preferences"},
     {"locations", "intakes"}, {"buildings", "rooms"}, {"rooms", "issues"}, {"rooms", "labs"},
     {"faculties", "departments"}, {"departments", "persondepts"}, {"faculties", "programs"},
     {"programs", "subjects"}, {"subjects", "classes"}, {"programs", "intakes"},
     {"periods", "intakes"}, {"intakes", "groups"}, {"roles", "orgroles"}}

\* Records: a student with one subject twice, another with another subject.
MCUnitStudent == ("u1" :> "s1") @@ ("u2" :> "s1") @@ ("u3" :> "s2")
MCUnitSubject == ("u1" :> "x") @@ ("u2" :> "x") @@ ("u3" :> "y")
MCClassUnits == ("c1" :> {"u1"}) @@ ("c2" :> {"u3"})
MCSessionClass == ("k1" :> "c1")

\* Concurrent: two classes of one group, sessions that meet, two years.
Form(class, day, from, to, room) ==
    [class |-> class, day |-> day, from |-> from, to |-> to, room |-> room]
MCSessionForms ==
    {Form("c", 1, 8, 10, "r"), Form("e", 1, 9, 10, "none"), Form("c", 2, 8, 9, "none")}
MCGroupOf == ("c" :> "g") @@ ("e" :> "g")
MCYearOf == <<2021, 2022>>
MCYearCap == "t" :> 3

-----------------------------------------------------------------------------
Parts == {"campus", "results", "attendance", "enrolments", "workplan", "leave", "settings",
          "calendar", "holidays", "timetable"}

\* The calendar is looked at once for each of a hundred years; holidays are
\* generated in one.
OfficeInit ==
    /\ part \in Parts
    /\ CampusInit
    /\ IF part = "campus" THEN db = MCSeed ELSE db = EmptySeed /\ open = {"roles", "orgroles"}
    /\ RecordsInit /\ WorkplanInit /\ SettingsInit /\ HolidaysInit /\ ConcurrentInit
    /\ year \in IF part = "calendar" THEN YearsShown ELSE {2021}

officeVars ==
    <<part, campusVars, recordsVars, workplanVars, settingsVars, holidaysVars, concurrentVars>>

\* The tables of one part are left alone while another works.
CampusWorks     == CampusNext     /\ UNCHANGED <<recordsVars, workplanVars, settingsVars, holidaysVars, concurrentVars>>
RecordsWork     == /\ CASE part = "results"    -> Grading
                        [] part = "attendance" -> SetAttendance
                        [] part = "enrolments" -> Enrolling
                   /\ UNCHANGED <<campusVars, workplanVars, settingsVars, holidaysVars, concurrentVars>>
WorkplanWorks   == /\ IF part = "workplan" THEN Planning ELSE TakingLeave
                   /\ UNCHANGED <<campusVars, recordsVars, settingsVars, holidaysVars, concurrentVars>>
SettingsWork    == SettingsNext   /\ UNCHANGED <<campusVars, recordsVars, workplanVars, holidaysVars, concurrentVars>>
HolidaysWork    == HolidaysNext   /\ UNCHANGED <<campusVars, recordsVars, workplanVars, settingsVars, concurrentVars>>
TimetableWorks  == ConcurrentNext /\ UNCHANGED <<campusVars, recordsVars, workplanVars, settingsVars, holidaysVars>>

OfficeNext ==
    /\ UNCHANGED part
    /\ \/ part = "campus" /\ CampusWorks
       \/ part \in {"results", "attendance", "enrolments"} /\ RecordsWork
       \/ part \in {"workplan", "leave"} /\ WorkplanWorks
       \/ part = "settings" /\ SettingsWork
       \/ part = "holidays" /\ HolidaysWork
       \/ part = "timetable" /\ TimetableWorks

OfficeSpec == OfficeInit /\ [][OfficeNext]_officeVars
=============================================================================
