-------------------------------- MODULE Campus --------------------------------
(***************************************************************************)
(* The administrators' screens for what the timetable stands on: training  *)
(* organisations, locations, buildings, rooms and what is in them;         *)
(* faculties, departments, programs, subjects, periods, intakes and their  *)
(* groups; the organisational roles and the departments of the staff.      *)
(*                                                                         *)
(* Every screen sends single statements, except two that send several:     *)
(* a new subject is linked to its program by a second statement, and a     *)
(* person given the role Teacher becomes a teacher by a third one.         *)
(*                                                                         *)
(* classes, sessions, enrolments and unit enrolments belong to other       *)
(* screens: here they only follow the deletions of the rows they name.     *)
(* The public holidays are those of the start; that a new period brings    *)
(* more of them is in Holidays.                                            *)
(* A statement that the database refuses changes nothing and is no step.   *)
(***************************************************************************)
EXTENDS Tables, FiniteSets

CONSTANTS
    MaxRow,         \* bound: the rows a table's sequence can number
    Labels,         \* the codes and names that forms send
    States,         \* australian_states, and NoState for a virtual location
    NoState,
    Staff,          \* the persons with a row in staff
    TeacherName,    \* the name 'Teacher' of a role type
    Shifts,         \* bound: the sets of screens that are in use together
    Seeds,          \* bound: the databases there may be at the start
    Observances,    \* the public holidays: their dates and states, or NoState
    MaxPending      \* bound: requests between two of their statements

Tabs ==
    {"orgs", "locations", "buildings", "rooms", "specs", "software", "issues", "prefs",
     "faculties", "departments", "persondepts", "programs", "subjects", "subjectprograms",
     "periods", "intakes", "groups", "roletypes", "staffroles", "teachers",
     "classes", "classsubjects", "sessions", "enrolments", "units"}

\* A table's rows have these columns.
Columns ==
    LET Code == {"code"}
    IN  [t \in Tabs |->
            CASE t \in {"orgs", "subjects", "periods", "roletypes"} -> Code
              [] t = "locations"   -> {"org", "code", "state"}
              [] t = "buildings"   -> {"location", "code"}
              [] t = "rooms"       -> {"building", "code"}
              [] t = "specs"       -> {"room"}
              [] t = "software"    -> {"room", "name"}
              [] t = "issues"      -> {"room", "status", "resolved"}
              [] t = "prefs"       -> {"person", "location", "rank"}
              [] t = "faculties"   -> {"name"}
              [] t = "departments" -> {"name", "faculty", "deleted"}
              [] t = "persondepts" -> {"person", "department"}
              [] t = "programs"    -> {"faculty", "code"}
              [] t = "subjectprograms" -> {"subject", "program"}
              [] t = "intakes"     -> {"program", "period", "location", "code"}
              [] t = "groups"      -> {"intake", "code"}
              [] t = "staffroles"  -> {"person", "role", "ended"}
              [] t = "teachers"    -> {"person"}
              [] t = "classes"     -> {"period", "location", "group"}
              [] t = "classsubjects" -> {"class", "subject"}
              [] t = "sessions"    -> {"class", "room", "building", "date"}
              [] t = "enrolments"  -> {"program", "group"}
              [] t = "units"       -> {"enrolment", "subject"}]

\* Mutant: every reference that a deletion should clear goes with the deleted row.
CascadingKey(from, col, to, rule, optional) ==
    [from |-> from, col |-> col, to |-> to, optional |-> optional,
     rule |-> IF rule = "set_null" THEN "cascade" ELSE rule]

Key(from, col, to, rule, optional) ==
    [from |-> from, col |-> col, to |-> to, rule |-> rule, optional |-> optional]

PlaceKeys ==
    {Key("locations", "org",      "orgs",      "cascade",   FALSE),
     Key("buildings", "location", "locations", "cascade",   FALSE),
     Key("rooms",     "building", "buildings", "cascade",   FALSE),
     Key("specs",     "room",     "rooms",     "cascade",   FALSE),
     Key("software",  "room",     "rooms",     "cascade",   FALSE),
     Key("issues",    "room",     "rooms",     "cascade",   FALSE),
     Key("prefs",     "location", "locations", "cascade",   FALSE),
     Key("intakes",   "location", "locations", "restrict",  FALSE),
     Key("classes",   "location", "locations", "no_action", FALSE),
     Key("sessions",  "room",     "rooms",     "set_null",  TRUE),
     Key("sessions",  "building", "buildings", "set_null",  TRUE)}

CurriculumKeys ==
    {Key("departments",     "faculty",    "faculties",   "set_null",  TRUE),
     Key("persondepts",     "department", "departments", "cascade",   FALSE),
     Key("programs",        "faculty",    "faculties",   "restrict",  FALSE),
     Key("subjectprograms", "subject",    "subjects",    "cascade",   FALSE),
     Key("subjectprograms", "program",    "programs",    "cascade",   FALSE),
     Key("intakes",         "program",    "programs",    "restrict",  FALSE),
     Key("intakes",         "period",     "periods",     "restrict",  FALSE),
     Key("groups",          "intake",     "intakes",     "cascade",   FALSE),
     Key("staffroles",      "role",       "roletypes",   "restrict",  FALSE)}

TeachingKeys ==
    {Key("classes",       "period",    "periods",    "no_action", FALSE),
     Key("classes",       "group",     "groups",     "set_null",  TRUE),
     Key("classsubjects", "class",     "classes",    "cascade",   FALSE),
     Key("classsubjects", "subject",   "subjects",   "cascade",   FALSE),
     Key("sessions",      "class",     "classes",    "cascade",   FALSE),
     Key("enrolments",    "program",   "programs",   "restrict",  FALSE),
     Key("enrolments",    "group",     "groups",     "set_null",  TRUE),
     Key("units",         "enrolment", "enrolments", "restrict",  TRUE),
     Key("units",         "subject",   "subjects",   "restrict",  FALSE)}

Keys == PlaceKeys \cup CurriculumKeys \cup TeachingKeys

Uniques ==
    {[table |-> t, columns |-> {"code"}] :
        t \in {"orgs", "programs", "subjects", "periods", "intakes", "roletypes"}} \cup
    {[table |-> "locations",       columns |-> {"org", "code"}],
     [table |-> "buildings",       columns |-> {"location", "code"}],
     [table |-> "rooms",           columns |-> {"building", "code"}],
     [table |-> "specs",           columns |-> {"room"}],
     [table |-> "prefs",           columns |-> {"person", "location"}],
     [table |-> "persondepts",     columns |-> {"person", "department"}],
     [table |-> "subjectprograms", columns |-> {"subject", "program"}],
     [table |-> "groups",          columns |-> {"intake", "code"}],
     [table |-> "classsubjects",   columns |-> {"class", "subject"}],
     [table |-> "teachers",        columns |-> {"person"}]}

\* What the people of the college have done, which no screen here may undo.
Teaching == {"classes", "sessions", "enrolments", "units"}

RoomsBuilding(db, s) == db["rooms"][db["sessions"][s]["room"]]["building"]

\* The session has a room and a building, and the room is in another one.
Astray(db, s) ==
    /\ db["sessions"][s]["room"] # Null
    /\ db["sessions"][s]["building"] # Null
    /\ db["sessions"][s]["building"] # RoomsBuilding(db, s)

IsTeacher(db, p) == \E i \in DOMAIN db["teachers"] : db["teachers"][i]["person"] = p

\* The role i of the staff has the name that makes teachers, and is current.
CalledTeacher(db, i) == db["roletypes"][db["staffroles"][i]["role"]]["code"] = TeacherName
TeacherRole(db, i) == ~ db["staffroles"][i]["ended"] /\ CalledTeacher(db, i)

ASSUME CampusAssumption ==
    /\ MaxRow \in Nat
    /\ MaxPending \in Nat
    /\ NoState \in States
    /\ TeacherName \in Labels
    /\ \A seed \in Seeds :
          /\ DOMAIN seed = Tabs
          /\ \A t \in Tabs : DOMAIN seed[t] \subseteq 1 .. MaxRow

\* What these screens leave behind, but for a statement that failed.  An ended
\* role counts too: its end can be taken back.
ASSUME SeedAssumption ==
    \A seed \in Seeds :
        /\ \A t \in Tabs : \A i \in DOMAIN seed[t] : DOMAIN seed[t][i] = Columns[t]
        /\ Whole(seed, Keys)
        /\ \A s \in DOMAIN seed["sessions"] : ~ Astray(seed, s)
        /\ \A i \in DOMAIN seed["issues"] :
              seed["issues"][i]["resolved"] => seed["issues"][i]["status"] = "Resolved"
        /\ \A i \in DOMAIN seed["staffroles"] :
              CalledTeacher(seed, i) => IsTeacher(seed, seed["staffroles"][i]["person"])

VARIABLES
    db,         \* the tables
    sequence,   \* table -> the last number its sequence gave
    open,       \* the screens in use
    pending,    \* requests between two of their statements
    moved,      \* history: rooms that were given another building
    promised,   \* history: subjects created for a program, whose link did not fail
    lapsed      \* history: staff roles with a reason not to have made a teacher

campusVars == <<db, sequence, open, pending, moved, promised, lapsed>>

history == <<moved, promised, lapsed>>

Ids(t) == DOMAIN db[t]

Highest(S) == IF S = {} THEN 0 ELSE CHOOSE i \in S : \A j \in S : j <= i

CampusInit ==
    /\ db \in Seeds
    /\ sequence = [t \in Tabs |-> Highest(Ids(t))]
    /\ open \in Shifts
    /\ pending = {}
    /\ moved = {} /\ promised = {} /\ lapsed = {}

-----------------------------------------------------------------------------
(* Statements                                                              *)

NewId(t) == sequence[t] + 1

Insert(t, row) ==
    /\ NewId(t) <= MaxRow
    /\ Accepted(db, Keys, Uniques, t, NewId(t), row)
    /\ db' = With(db, t, NewId(t), row)
    /\ sequence' = [sequence EXCEPT ![t] = @ + 1]

Update(t, i, row) ==
    /\ i \in Ids(t)
    /\ Accepted(db, Keys, Uniques, t, i, row)
    /\ db' = With(db, t, i, row)
    /\ UNCHANGED sequence

Delete(t, i) ==
    /\ i \in Ids(t)
    /\ LET D == Doomed(db, Keys, {Row(t, i)})
       IN  ~ Refused(db, Keys, D) /\ db' = Without(db, Keys, D)
    /\ UNCHANGED sequence

\* A form of the screen s was sent; the request is this one statement.
On(s) == s \in open /\ UNCHANGED <<open, pending, history>>

-----------------------------------------------------------------------------
(* Organisations and locations                                             *)

CreateTrainingOrg(code) == Insert("orgs", [code |-> code])
UpdateTrainingOrg(i, code) == Update("orgs", i, [code |-> code])
DeleteTrainingOrg(i) == Delete("orgs", i)

AdminOrgCreate == On("orgs") /\ \E code \in Labels : CreateTrainingOrg(code)
AdminOrgUpdate == On("orgs") /\ \E i \in Ids("orgs"), code \in Labels : UpdateTrainingOrg(i, code)
AdminOrgDelete == On("orgs") /\ \E i \in Ids("orgs") : DeleteTrainingOrg(i)

\* A virtual location is stored without address and state.
Location(org, code, virtual, state) ==
    [org |-> org, code |-> code, state |-> IF virtual THEN NoState ELSE state]

CreateDeliveryLocation(org, code, virtual, state) ==
    Insert("locations", Location(org, code, virtual, state))
UpdateDeliveryLocation(i, org, code, virtual, state) ==
    Update("locations", i, Location(org, code, virtual, state))
DeleteDeliveryLocation(i) == Delete("locations", i)

\* What the location form may hold: a real location has a state.
LocationForms ==
    {f \in [org: Ids("orgs"), code: Labels, virtual: BOOLEAN, state: States] :
        ~ f.virtual => f.state # NoState}

AdminLocCreate ==
    /\ On("locations")
    /\ \E f \in LocationForms : CreateDeliveryLocation(f.org, f.code, f.virtual, f.state)
AdminLocUpdate ==
    /\ On("locations")
    /\ \E i \in Ids("locations"), f \in LocationForms :
          UpdateDeliveryLocation(i, f.org, f.code, f.virtual, f.state)
AdminLocDelete == On("locations") /\ \E i \in Ids("locations") : DeleteDeliveryLocation(i)

\* The older form, which knows no virtual locations.
AdminLocationCreate ==
    /\ On("locations")
    /\ \E org \in Ids("orgs"), code \in Labels, state \in States \ {NoState} :
          CreateDeliveryLocation(org, code, FALSE, state)

UpsertPersonLocationPref(p, l, rank) ==
    LET row == [person |-> p, location |-> l, rank |-> rank]
        old == {i \in Ids("prefs") : db["prefs"][i]["person"] = p /\ db["prefs"][i]["location"] = l}
    IN  IF old = {} THEN Insert("prefs", row) ELSE \E i \in old : Update("prefs", i, row)
DeletePersonLocationPref(p, l) ==
    \E i \in Ids("prefs") :
        /\ db["prefs"][i]["person"] = p /\ db["prefs"][i]["location"] = l
        /\ Delete("prefs", i)

\* Rank 0, or none, clears the preference.
AdminPersonLocationPrefSave ==
    /\ On("preferences")
    /\ \E p \in Staff, l \in Ids("locations"), rank \in 0 .. 2 :
          IF rank = 0 THEN DeletePersonLocationPref(p, l) ELSE UpsertPersonLocationPref(p, l, rank)

-----------------------------------------------------------------------------
(* Buildings, rooms and what is in them                                    *)

Place(in, id, code) == [c \in {in, "code"} |-> IF c = in THEN id ELSE code]

CreateBuilding(l, code) == Insert("buildings", Place("location", l, code))
UpdateBuilding(i, l, code) == Update("buildings", i, Place("location", l, code))
DeleteBuilding(i) == Delete("buildings", i)

AdminBuildingCreate ==
    On("buildings") /\ \E l \in Ids("locations"), code \in Labels : CreateBuilding(l, code)
AdminBuildingUpdate ==
    /\ On("buildings")
    /\ \E i \in Ids("buildings"), l \in Ids("locations"), code \in Labels : UpdateBuilding(i, l, code)
AdminBuildingDelete == On("buildings") /\ \E i \in Ids("buildings") : DeleteBuilding(i)

\* Mutant: without WHERE, every room goes to the building.
UpdateRooms(i, b, code) ==
    /\ i \in Ids("rooms")
    /\ \A j \in Ids("rooms") \ {i} : db["rooms"][j]["code"] # code
    /\ db' = [db EXCEPT !["rooms"] = [j \in Ids("rooms") |->
                 Place("building", b, IF j = i THEN code ELSE db["rooms"][j]["code"])]]
    /\ UNCHANGED sequence

CreateRoom(b, code) == Insert("rooms", Place("building", b, code))
UpdateRoom(i, b, code) == Update("rooms", i, Place("building", b, code))
DeleteRoom(i) == Delete("rooms", i)

AdminRoomCreate ==
    On("rooms") /\ \E b \in Ids("buildings"), code \in Labels : CreateRoom(b, code)
AdminRoomUpdate ==
    /\ "rooms" \in open
    /\ \E i \in Ids("rooms"), b \in Ids("buildings"), code \in Labels :
          /\ UpdateRoom(i, b, code)
          /\ moved' = IF b = db["rooms"][i]["building"] THEN moved ELSE moved \cup {i}
    /\ UNCHANGED <<open, pending, promised, lapsed>>
AdminRoomDelete == On("rooms") /\ \E i \in Ids("rooms") : DeleteRoom(i)

IssueStatuses == {"Open", "Investigating", "Resolved"}

\* Mutant: an issue that is opened again keeps its time of resolution.
UpdateStatus(i, status) ==
    Update("issues", i, [room |-> db["issues"][i]["room"], status |-> status,
                         resolved |-> db["issues"][i]["resolved"] \/ status = "Resolved"])

\* resolved tells whether resolved_at is set; an insert never sets it.
CreateRoomIssue(r, status) == Insert("issues", [room |-> r, status |-> status, resolved |-> FALSE])
UpdateRoomIssue(i, status) ==
    Update("issues", i, [room |-> db["issues"][i]["room"], status |-> status,
                         resolved |-> status = "Resolved"])
DeleteRoomIssue(i) == Delete("issues", i)

AdminRoomIssueCreate ==
    On("issues") /\ \E r \in Ids("rooms"), status \in IssueStatuses : CreateRoomIssue(r, status)
AdminRoomIssueUpdate ==
    On("issues") /\ \E i \in Ids("issues"), status \in IssueStatuses : UpdateRoomIssue(i, status)
AdminRoomIssueDelete == On("issues") /\ \E i \in Ids("issues") : DeleteRoomIssue(i)

\* The upsert of a row that is there changes figures no property looks at.
UpsertRoomLabSpecs(r) == Insert("specs", [room |-> r])
AdminRoomLabSpecsUpsert == On("labs") /\ \E r \in Ids("rooms") : UpsertRoomLabSpecs(r)

CreateRoomLabSoftware(r, name) == Insert("software", [room |-> r, name |-> name])
UpdateRoomLabSoftware(i, name) ==
    Update("software", i, [room |-> db["software"][i]["room"], name |-> name])
DeleteRoomLabSoftware(i) == Delete("software", i)

AdminRoomLabSoftwareCreate ==
    On("labs") /\ \E r \in Ids("rooms"), name \in Labels : CreateRoomLabSoftware(r, name)
AdminRoomLabSoftwareUpdate ==
    On("labs") /\ \E i \in Ids("software"), name \in Labels : UpdateRoomLabSoftware(i, name)
AdminRoomLabSoftwareDelete ==
    On("labs") /\ \E i \in Ids("software") : DeleteRoomLabSoftware(i)
-----------------------------------------------------------------------------
(* Faculties and departments                                               *)

CreateFaculty(name) == Insert("faculties", [name |-> name])
UpdateFaculty(i, name) == Update("faculties", i, [name |-> name])
DeleteFaculty(i) == Delete("faculties", i)

AdminFacultyCreate == On("faculties") /\ \E name \in Labels : CreateFaculty(name)
AdminFacultyUpdate ==
    On("faculties") /\ \E i \in Ids("faculties"), name \in Labels : UpdateFaculty(i, name)
AdminFacultyDelete == On("faculties") /\ \E i \in Ids("faculties") : DeleteFaculty(i)

Department(name, f) == [name |-> name, faculty |-> f, deleted |-> FALSE]

CreateDepartment(name, f) == Insert("departments", Department(name, f))
\* ... WHERE id = $1 AND deleted_at IS NULL
UpdateDepartment(i, name, f) ==
    ~ db["departments"][i]["deleted"] /\ Update("departments", i, Department(name, f))
DeleteDepartment(i) ==
    Update("departments", i, [db["departments"][i] EXCEPT !["deleted"] = TRUE])

\* A department need not have a faculty.
AdminDepartmentCreate ==
    /\ On("departments")
    /\ \E name \in Labels, f \in Ids("faculties") \cup {Null} : CreateDepartment(name, f)
AdminDepartmentUpdate ==
    /\ On("departments")
    /\ \E i \in Ids("departments"), name \in Labels, f \in Ids("faculties") \cup {Null} :
          UpdateDepartment(i, name, f)
AdminDepartmentDelete == On("departments") /\ \E i \in Ids("departments") : DeleteDepartment(i)

AddPersonDepartment(p, d) == Insert("persondepts", [person |-> p, department |-> d])
RemovePersonDepartment(p, d) ==
    \E i \in Ids("persondepts") :
        /\ db["persondepts"][i] = [person |-> p, department |-> d]
        /\ Delete("persondepts", i)

AdminPersonDeptAdd ==
    On("persondepts") /\ \E p \in Staff, d \in Ids("departments") : AddPersonDepartment(p, d)
AdminPersonDeptRemove ==
    On("persondepts") /\ \E p \in Staff, d \in Ids("departments") : RemovePersonDepartment(p, d)

-----------------------------------------------------------------------------
(* Programs and subjects                                                   *)

CreateProgram(f, code) == Insert("programs", Place("faculty", f, code))
UpdateProgram(i, f, code) == Update("programs", i, Place("faculty", f, code))
DeleteProgram(i) == Delete("programs", i)

\* The form must name a faculty and a code; its other fields are figures.
ProgramForms == [faculty: Ids("faculties"), code: Labels]

AdminProgramCreate ==
    On("programs") /\ \E f \in ProgramForms : CreateProgram(f.faculty, f.code)
AdminProgramUpdate ==
    /\ On("programs")
    /\ \E i \in Ids("programs"), f \in ProgramForms : UpdateProgram(i, f.faculty, f.code)
AdminProgramDelete == On("programs") /\ \E i \in Ids("programs") : DeleteProgram(i)

CreateSubject(code) == Insert("subjects", [code |-> code])
UpdateSubject(i, code) == Update("subjects", i, [code |-> code])
DeleteSubject(i) == Delete("subjects", i)

Link(s, p) == [pc |-> "link", subject |-> s, program |-> p]

\* The new subject's program, if the form names one, is left to a second statement.
AdminSubjectCreate ==
    /\ "subjects" \in open /\ Cardinality(pending) < MaxPending
    /\ \E code \in Labels, p \in Ids("programs") \cup {Null} :
          /\ CreateSubject(code)
          /\ LET links == IF p = Null THEN {} ELSE {<<NewId("subjects"), p>>}
             IN  /\ promised' = promised \cup links
                 /\ pending' = pending \cup {Link(l[1], l[2]) : l \in links}
    /\ UNCHANGED <<open, moved, lapsed>>

\* Mutant: the arguments are swapped.
LinkProgramToSubject(s, p) == Insert("subjectprograms", [subject |-> p, program |-> s])

LinkSubjectToProgram(s, p) == Insert("subjectprograms", [subject |-> s, program |-> p])

\* The second statement succeeds, ...
LinkNewSubject(q) ==
    /\ q \in pending /\ q.pc = "link"
    /\ LinkSubjectToProgram(q.subject, q.program)
    /\ pending' = pending \ {q}
    /\ UNCHANGED <<open, history>>

\* ... is refused or fails, which is logged, or is never sent.
LinkFails(q) ==
    /\ q \in pending /\ q.pc = "link"
    /\ pending' = pending \ {q}
    /\ promised' = promised \ {<<q.subject, q.program>>}
    /\ UNCHANGED <<db, sequence, open, moved, lapsed>>

AdminSubjectUpdate ==
    On("subjects") /\ \E i \in Ids("subjects"), code \in Labels : UpdateSubject(i, code)
AdminSubjectDelete == On("subjects") /\ \E i \in Ids("subjects") : DeleteSubject(i)

AddClassSubject(c, s) == Insert("classsubjects", [class |-> c, subject |-> s])
RemoveClassSubject(c, s) ==
    \E i \in Ids("classsubjects") :
        db["classsubjects"][i] = [class |-> c, subject |-> s] /\ Delete("classsubjects", i)

AdminClassToggleSubject ==
    /\ On("classes")
    /\ \E c \in Ids("classes"), s \in Ids("subjects"), checked \in BOOLEAN :
          IF checked THEN AddClassSubject(c, s) ELSE RemoveClassSubject(c, s)

-----------------------------------------------------------------------------
(* Periods, intakes and their groups                                       *)

CreatePeriod(code) == Insert("periods", [code |-> code])
UpdatePeriod(i, code) == Update("periods", i, [code |-> code])
DeletePeriod(i) == Delete("periods", i)

AdminPeriodCreate == On("periods") /\ \E code \in Labels : CreatePeriod(code)
AdminPeriodUpdate ==
    On("periods") /\ \E i \in Ids("periods"), code \in Labels : UpdatePeriod(i, code)
AdminPeriodDelete == On("periods") /\ \E i \in Ids("periods") : DeletePeriod(i)

IntakeForms ==
    [program: Ids("programs"), period: Ids("periods"), location: Ids("locations"), code: Labels]

CreateIntake(f) == Insert("intakes", f)
UpdateIntake(i, f) == Update("intakes", i, f)
DeleteIntake(i) == Delete("intakes", i)

AdminIntakeCreate == On("intakes") /\ \E f \in IntakeForms : CreateIntake(f)
AdminIntakeUpdate ==
    On("intakes") /\ \E i \in Ids("intakes"), f \in IntakeForms : UpdateIntake(i, f)
AdminIntakeDelete == On("intakes") /\ \E i \in Ids("intakes") : DeleteIntake(i)

GroupForms == [intake: Ids("intakes"), code: Labels]

CreateIntakeGroup(f) == Insert("groups", f)
UpdateIntakeGroup(i, f) == Update("groups", i, f)
DeleteIntakeGroup(i) == Delete("groups", i)

AdminIntakeGroupCreate == On("groups") /\ \E f \in GroupForms : CreateIntakeGroup(f)
AdminIntakeGroupUpdate ==
    On("groups") /\ \E i \in Ids("groups"), f \in GroupForms : UpdateIntakeGroup(i, f)
AdminIntakeGroupDelete == On("groups") /\ \E i \in Ids("groups") : DeleteIntakeGroup(i)

-----------------------------------------------------------------------------
(* Organisational roles                                                    *)

CreateRoleType(name) == Insert("roletypes", [code |-> name])
\* Nothing asks whether the role is a system role.
UpdateRoleType(i, name) == Update("roletypes", i, [code |-> name])
DeleteRoleType(i) == Delete("roletypes", i)

AdminRoleTypeCreate == On("roles") /\ \E name \in Labels : CreateRoleType(name)

\* Who holds a role that is called Teacher from now on was not made a teacher.
AdminRoleTypeUpdate ==
    /\ "roles" \in open
    /\ \E i \in Ids("roletypes"), name \in Labels :
          /\ UpdateRoleType(i, name)
          /\ LET renamed == name = TeacherName /\ db["roletypes"][i]["code"] # name
             IN  lapsed' = lapsed \cup
                     {j \in Ids("staffroles") : renamed /\ db["staffroles"][j]["role"] = i}
    /\ UNCHANGED <<open, pending, moved, promised>>
AdminRoleTypeDelete == On("roles") /\ \E i \in Ids("roletypes") : DeleteRoleType(i)

GetRoleTypeName(r) == db["roletypes"][r]["code"]
AddStaffOrgRole(p, r) == Insert("staffroles", [person |-> p, role |-> r, ended |-> FALSE])
\* Mutant: the role Teacher is a role like any other.
AddNoTeacher(p) == p \in Staff /\ UNCHANGED <<db, sequence>>

AddTeacherRole(p) ==
    IF IsTeacher(db, p) THEN UNCHANGED <<db, sequence>> ELSE Insert("teachers", [person |-> p])

\* First the name of the role type is read, ...
AdminOrgRoleAdd ==
    /\ "orgroles" \in open /\ Cardinality(pending) < MaxPending
    /\ \E p \in Staff, r \in Ids("roletypes") :
          pending' = pending \cup {[pc |-> "add", person |-> p, role |-> r, name |-> GetRoleTypeName(r)]}
    /\ UNCHANGED <<db, sequence, open, history>>

\* ... then the role is added, ...
AddRole(q) ==
    /\ q \in pending /\ q.pc = "add"
    /\ AddStaffOrgRole(q.person, q.role)
    /\ LET row == NewId("staffroles")
       IN  /\ pending' = (pending \ {q}) \cup
                 (IF q.name = TeacherName THEN {[pc |-> "teach", person |-> q.person, row |-> row]} ELSE {})
           /\ lapsed' = IF q.name # TeacherName /\ GetRoleTypeName(q.role) = TeacherName
                        THEN lapsed \cup {row} ELSE lapsed
    /\ UNCHANGED <<open, moved, promised>>

\* ... or refused, because the role type is gone; ...
AddRoleFails(q) ==
    /\ q \in pending /\ q.pc = "add"
    /\ pending' = pending \ {q}
    /\ UNCHANGED <<db, sequence, open, history>>

\* ... and the person whose role was read as Teacher becomes a teacher, ...
MakeTeacher(q) ==
    /\ q \in pending /\ q.pc = "teach"
    /\ AddTeacherRole(q.person)
    /\ pending' = pending \ {q}
    /\ UNCHANGED <<open, history>>

\* ... unless the statement fails, which is logged, or the server stops.
MakeTeacherFails(q) ==
    /\ q \in pending /\ q.pc = "teach"
    /\ pending' = pending \ {q}
    /\ lapsed' = lapsed \cup {q.row}
    /\ UNCHANGED <<db, sequence, open, moved, promised>>

SetEnd(i, ended) == Update("staffroles", i, [db["staffroles"][i] EXCEPT !["ended"] = ended])
UpdateStaffOrgRoleEndDate(i, p, ended) == db["staffroles"][i]["person"] = p /\ SetEnd(i, ended)
DeleteStaffOrgRole(i, p) == db["staffroles"][i]["person"] = p /\ Delete("staffroles", i)

AdminOrgRoleUpdateEnd ==
    /\ On("orgroles")
    /\ \E i \in Ids("staffroles"), p \in Staff, ended \in BOOLEAN : UpdateStaffOrgRoleEndDate(i, p, ended)
AdminOrgRoleDelete ==
    On("orgroles") /\ \E i \in Ids("staffroles"), p \in Staff : DeleteStaffOrgRole(i, p)

-----------------------------------------------------------------------------
(* Listings: the rows that the joins of a page's query leave               *)

Joined(t, col, others) == {i \in Ids(t) : db[t][i][col] \in others}

ListPrograms == Joined("programs", "faculty", Ids("faculties"))
ListIntakeGroups == Joined("groups", "intake", Ids("intakes"))
ListClasses == Joined("classes", "period", Ids("periods")) \cap
               Joined("classes", "location", Ids("locations"))
ListDeliveryLocationsFull == Joined("locations", "org", Ids("orgs"))
ListBuildings == Joined("buildings", "location", Ids("locations"))
ListRooms == Joined("rooms", "building", ListBuildings)
ListIntakesFull == Joined("intakes", "period", Ids("periods")) \cap
                   Joined("intakes", "location", Ids("locations"))
\* Mutant: JOIN faculties.
ListFacultyDepartments ==
    {i \in Ids("departments") : ~ db["departments"][i]["deleted"] /\ db["departments"][i]["faculty"] # Null}

\* LEFT JOIN faculties: a department may have none.
ListDepartments == {i \in Ids("departments") : ~ db["departments"][i]["deleted"]}
ListStaffOrgRoles == Joined("staffroles", "role", Ids("roletypes"))

\* NOT EXISTS: no public holiday of the nation or of the location's state.
NotObserved(s) ==
    LET l == db["classes"][db["sessions"][s]["class"]]["location"]
    IN  \A o \in Observances :
            o.date = db["sessions"][s]["date"] =>
                o.state \notin {NoState, db["locations"][l]["state"]}

\* LEFT JOIN groups, intakes, programs, rooms, buildings: none need be there.
TimetableRange == {s \in Joined("sessions", "class", ListClasses) : NotObserved(s)}
WeekSessionsForRoom(r) ==
    {s \in Joined("sessions", "class", Ids("classes")) :
        db["sessions"][s]["room"] = r /\ NotObserved(s)}
ScheduleForIntakeGroup(g) ==
    {s \in Joined("sessions", "class", Ids("classes")) :
        db["classes"][db["sessions"][s]["class"]]["group"] = g /\ NotObserved(s)}

\* The boxes of the timetable page: the programs of a period, the groups of a
\* program, the classes of a group.
ProgramsForPeriod(t) ==
    {p \in Ids("programs") :
        \E sp \in Ids("subjectprograms"), cs \in Ids("classsubjects") :
            /\ db["subjectprograms"][sp]["program"] = p
            /\ db["subjectprograms"][sp]["subject"] = db["classsubjects"][cs]["subject"]
            /\ db["classes"][db["classsubjects"][cs]["class"]]["period"] = t}
GroupsForProgram(t, p) ==
    {g \in Ids("groups") :
        /\ db["intakes"][db["groups"][g]["intake"]]["program"] = p
        /\ \E c \in Ids("classes") : db["classes"][c]["period"] = t /\ db["classes"][c]["group"] = g}
ClassesForGroup(t, g) ==
    {c \in Ids("classes") :
        /\ db["classes"][c]["period"] = t /\ db["classes"][c]["group"] = g
        /\ \E cs \in Ids("classsubjects") : db["classsubjects"][cs]["class"] = c}

-----------------------------------------------------------------------------
CampusNext ==
    \/ AdminOrgCreate \/ AdminOrgUpdate \/ AdminOrgDelete
    \/ AdminLocCreate \/ AdminLocUpdate \/ AdminLocDelete \/ AdminLocationCreate
    \/ AdminBuildingCreate \/ AdminBuildingUpdate \/ AdminBuildingDelete
    \/ AdminRoomCreate \/ AdminRoomUpdate \/ AdminRoomDelete
    \/ AdminRoomIssueCreate \/ AdminRoomIssueUpdate \/ AdminRoomIssueDelete
    \/ AdminRoomLabSpecsUpsert
    \/ AdminRoomLabSoftwareCreate \/ AdminRoomLabSoftwareUpdate \/ AdminRoomLabSoftwareDelete
    \/ AdminPersonLocationPrefSave \/ AdminPersonDeptAdd \/ AdminPersonDeptRemove
    \/ AdminFacultyCreate \/ AdminFacultyUpdate \/ AdminFacultyDelete
    \/ AdminDepartmentCreate \/ AdminDepartmentUpdate \/ AdminDepartmentDelete
    \/ AdminProgramCreate \/ AdminProgramUpdate \/ AdminProgramDelete
    \/ AdminSubjectCreate \/ AdminSubjectUpdate \/ AdminSubjectDelete
    \/ AdminClassToggleSubject
    \/ AdminPeriodCreate \/ AdminPeriodUpdate \/ AdminPeriodDelete
    \/ AdminIntakeCreate \/ AdminIntakeUpdate \/ AdminIntakeDelete
    \/ AdminIntakeGroupCreate \/ AdminIntakeGroupUpdate \/ AdminIntakeGroupDelete
    \/ AdminRoleTypeCreate \/ AdminRoleTypeUpdate \/ AdminRoleTypeDelete
    \/ AdminOrgRoleAdd \/ AdminOrgRoleUpdateEnd \/ AdminOrgRoleDelete
    \/ \E q \in pending :
          \/ LinkNewSubject(q) \/ LinkFails(q)
          \/ AddRole(q) \/ AddRoleFails(q)
          \/ MakeTeacher(q) \/ MakeTeacherFails(q)

CampusSpec == CampusInit /\ [][CampusNext]_campusVars
-----------------------------------------------------------------------------
(* Properties                                                              *)

\* Tables hold rows of their columns, numbered by their sequences, and an
\* issue has a time of resolution only while it is resolved.
CampusTypeOK ==
    /\ DOMAIN db = Tabs
    /\ sequence \in [Tabs -> 0 .. MaxRow]
    /\ \A t \in Tabs :
          /\ Ids(t) \subseteq 1 .. sequence[t]
          /\ \A i \in Ids(t) : DOMAIN db[t][i] = Columns[t]
    /\ \A i \in Ids("issues") : db["issues"][i]["resolved"] => db["issues"][i]["status"] = "Resolved"
    /\ IsFiniteSet(pending) /\ Cardinality(pending) <= MaxPending

\* No deletion on these screens takes away a class, a session, an enrolment
\* or a unit enrolment with its result, whatever the deleted row owned.
TeachingSurvives ==
    [][\A t \in Teaching : Ids(t) \subseteq Ids(t)']_campusVars

\* Every row that was not deleted is in its listing: no inner join of a
\* listing drops a row because of a parent that a deletion took away or
\* cleared.  A session is missing from the timetable of its day only
\* because that day is a public holiday, and a class of a group can be found
\* from its period when one of its subjects belongs to the group's program.
EverythingListed ==
    /\ ListPrograms = Ids("programs")
    /\ ListIntakeGroups = Ids("groups")
    /\ ListClasses = Ids("classes")
    /\ ListDeliveryLocationsFull = Ids("locations")
    /\ ListBuildings = Ids("buildings")
    /\ ListRooms = Ids("rooms")
    /\ ListIntakesFull = Ids("intakes")
    /\ \A i \in Ids("departments") : i \in ListDepartments \/ db["departments"][i]["deleted"]
    /\ ListStaffOrgRoles = Ids("staffroles")
    /\ \A s \in Ids("sessions") :
          NotObserved(s) =>
            /\ s \in TimetableRange
            /\ LET r == db["sessions"][s]["room"]
                   g == db["classes"][db["sessions"][s]["class"]]["group"]
               IN  /\ r # Null => s \in WeekSessionsForRoom(r)
                   /\ g # Null => s \in ScheduleForIntakeGroup(g)
    /\ \A cs \in Ids("classsubjects") :
          LET c == db["classsubjects"][cs]["class"]
              t == db["classes"][c]["period"]
              g == db["classes"][c]["group"]
              p == db["intakes"][db["groups"][g]["intake"]]["program"]
              linked == \E i \in Ids("subjectprograms") :
                           db["subjectprograms"][i] =
                               [subject |-> db["classsubjects"][cs]["subject"], program |-> p]
          IN  g # Null /\ linked =>
                /\ p \in ProgramsForPeriod(t)
                /\ g \in GroupsForProgram(t, p)
                /\ c \in ClassesForGroup(t, g)

\* A session is shown with its own building; only a room that was given
\* another building makes it a building the room is not in.
SessionsKnowTheirBuilding ==
    \A s \in Ids("sessions") : Astray(db, s) => db["sessions"][s]["room"] \in moved

\* A subject that was created for a program is one of its subjects, once the
\* second statement was sent and unless it failed.
NewSubjectsAreLinked ==
    \A l \in promised :
        \/ l[1] \notin Ids("subjects") \/ l[2] \notin Ids("programs")
        \/ Link(l[1], l[2]) \in pending
        \/ \E i \in Ids("subjectprograms") :
              db["subjectprograms"][i] = [subject |-> l[1], program |-> l[2]]

\* Who holds a role called Teacher is a teacher, or will be in the next
\* statement, or that statement failed, or the role was not called Teacher when
\* it was given: the screen renames every role type, which the documents say it
\* does not (SystemRolesStay).
TeachersAreMade ==
    \A i \in Ids("staffroles") :
        TeacherRole(db, i) =>
            \/ IsTeacher(db, db["staffroles"][i]["person"])
            \/ i \in lapsed
            \/ \E q \in pending : q.pc = "teach" /\ q.row = i

\* What the repository's documents say, and the code does not.  DATABASE.md:
\* "System rows cannot be renamed or deleted through the UI (the application
\* blocks these operations)".  Teacher is the system row with which the
\* database starts.
SystemRolesStay ==
    [][\A i \in Ids("roletypes") :
        db["roletypes"][i]["code"] = TeacherName =>
            i \in Ids("roletypes")' /\ db'["roletypes"][i]["code"] = TeacherName]_campusVars
=============================================================================
