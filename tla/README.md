# A TLA+ verification project for NVIMS

NVIMS is a training-institution information system: one Go server
(`src/src/cmd/server`, `src/src/internal`), one PostgreSQL database whose
schema and triggers (`src/src/nvims.sql`) hold much of the program's logic, and
an S3-compatible object store for evidence documents. The repository has no
tests. The modules here are translated from the Go code and the SQL schema;
`docs/DATABASE.md` and the comments are used only for what they promise.

## 1. Inventory

How the parts interact: every request runs a handler (`handler.go`) in its own
goroutine, after the session middleware (`auth/session.go`) and the permission
guard (`main.go`, `perm.go`). A handler calls methods of the store (`store.go`),
each one or more SQL statements; a method that does not open a transaction
commits each statement by itself, at PostgreSQL's default READ COMMITTED level.
Triggers and constraints run inside the statement. A request's database context
ends when the client goes away, so a handler can stop between any two of its
statements. Three things live in the server's memory and are lost with it: the
login sessions, the cache of role permissions, the cache of settings.

| Component | State | Operations | What is hard | What makes it correct |
|---|---|---|---|---|
| Class sessions and teaching hours | `classes`, `class_sessions`, `session_teachers`, `teacher_yearly_balances`, `teacher_period_allocations` | create with teacher and autofill, repeat weekly, generate, update, delete, class create/update/delete; ten triggers and constraints | requests of several statements, bulk transactions that abort halfway, cascades, triggers that fire on insert only, balances kept incrementally | rooms, and but for races groups and teachers, are not booked twice; balances cover what is taught and stay within the caps; batches are whole |
| Accounts, sign-in, login sessions | `app_users`, `app_user_roles`; the in-memory session map | login, logout, expiry, bootstrap, create account, grant and revoke roles | roles copied into a session at login; start-up that stops between two inserts; revocation on a page view | what a session may do was granted and earned; a revocation takes hold in the end |
| Role permissions | `role_permissions`; in-memory cache | save, load, check | delete-then-insert by two savers; a load that overtakes another | a permission that every save keeps is never missing; every save ends |
| Results and attendance | `client_subject_enrolments`, `session_attendance` | record, clear, publish one or a column, mark | pages and popups of any age; publishing crosses recording | what students see was recorded and stands until it is taken back; a column publishes what its grid shows |
| Enrolments | `student_course_enrollments` | create, edit, soft delete | a partial unique index that counts deleted rows | one open enrolment for a student and program |
| Leave and workplan | `teacher_availability`, `leave_requests`, `leave_request_dates` | set a day, set defaults, request, cancel | five statements outside a transaction; requests built from two form fields | defaults reach every weekday; every request is in its teacher's list |
| Settings, link to the LMS | `system_settings`, `workplan_period_semesters`; the link in memory | save, restart | statements of two saves interleave; a DELETE that does not see what it waits for | settings come from one form; memory and table agree; the semesters are replaced |
| VCC records and evidence | `vcc`, `vcc_*`, document rows; objects in the bucket | upload, register, link, delete, publish | two stores that commit separately; objects keyed by the second | a document's row has its file, and no object is left behind, but in the ways one can name |
| Holidays | `holiday_rules`, `holiday_observances` | rules, observances by hand, generate a year, the trigger on `academic_periods` | the rules are computed twice, in Go and in SQL; generation is one statement to a rule | both give the calendar the rules describe; a generated year is complete; a deleted rule leaves nothing; substitutes fall on free days |
| Catalogue, programs, periods, intakes, buildings, rooms | 21 tables and their foreign keys | create, edit, delete, list | four ON DELETE rules and chains of cascades; listings with inner joins; requests of two and three statements | no deletion takes away what was taught; no listing loses a row; what a request promises in its second statement is done |
| People | `staff_roles`, `person_departments`, `teachers`, `person_location_preferences` | roles, departments, preferences | a role that makes a teacher in another statement | who holds the role Teacher is a teacher; the system's own roles keep their names |
| Slot template, database-only functions | `weekly_slots`, ... | `fn_generate_sessions`, `fn_set_slot_period` | nothing in Go calls them | not modelled |
| Backup, audit, messaging, PDF, templates | | | external processes or presentation | not modelled |

## 2. The plan

| Step | Modules | State |
|---|---|---|
| 1 | `Timetable`, `MCTimetable`, `TimetableProofs`: sessions and hours, one statement or bulk transaction to a step | done |
| 2 | `Access`, `AccessProofs`: accounts, roles, login sessions | done |
| 3 | `Permissions`, `MCPermissions`, `PermissionsProofs`: the role table, its savers and its cache | done |
| 4 | `Documents`, `DocumentsProofs`: the bucket and the rows that point into it | done |
| 5 | `Concurrent`, `Ledger`, `ConcurrentProofs`: the triggers' reads and writes as steps of their own under READ COMMITTED, against an abstract account of hours | done |
| 6 | `Records`: results, attendance, enrolments | done |
| 7 | `Workplan`, `Settings`: the teachers' pages, the settings and the semesters; `OfficeProofs` for these and `Records` | done |
| 8 | `Calendar`, `Holidays`, `MCHolidays`, `HolidaysProofs`: the calendar rules of the Go code against those of the database | done |
| 9 | `Tables`, `Campus`, `CampusProofs`: the catalogue's screens and cascades | done |
| 10 | `MCTeaching`, `MCRights`, `MCOffice`: the modules of steps 1 and 4, of steps 2 and 3, and of steps 5 to 9, each group in one instance | done |

The order is that of what the system could get wrong at most cost. The modules
that share state are composed: `Concurrent` implements `Ledger`, the abstract
specification of what the balances promise; `Holidays` computes with `Calendar`
and `Campus` deletes with `Tables`. `Timetable` and `Concurrent` look at the
same tables at two grains: `Timetable` has all the operations on sessions and
classes with a statement or transaction as one step, `Concurrent` has the
statements on one session with the triggers as steps. What a conflict trigger
keeps apart is therefore asked of `Concurrent` only: in `Timetable` its answer
is left open. The other modules share
only identities of people and rows.

What is left is in section 6.

## 3. The modules and the code

Common to all: a step is one SQL statement that commits by itself, one
transaction where nothing inside it can be seen, or one call of the object
store. Triggers, constraints and cascades belong to the statement that fires
them. Whatever a handler remembers from one statement to the next is in the
record `requests[r]` (`handling[w]` in `Documents`), whose field `pc` names the
statement to come, so that any other request can act in between; a request that
ends early forgets the record.

### Timetable

The variables are tables: `classes` (period and intake group), `sessions`
(`class_sessions`), `staffing` (`session_teachers`), `booked`
(`teacher_yearly_balances`), `periodBooked` (`teacher_period_allocations`). A
date is a day number, a time an hour, `Week` the distance of two recurrences.

- `GroupClash`, `TeacherClash`, `RoomClash`, `SlotTaken` are the triggers
  `fn_check_group_session_conflict` and `fn_check_teacher_session_conflict`, the
  exclusion constraint and the unique index. `CapRefuses` and `HoursCharged`,
  `MoveRefused` and `HoursMoved` are the two hour triggers with the functions
  that adjust a balance; `Removed` is a cascade, during which the hour trigger
  finds no session and refunds nothing.
- The exclusion constraint, the unique index and the balances' row locks wait
  for other transactions and see what these did, so their part of a step may
  look at all rows. A conflict trigger queries what is committed and writes
  later. With `Racing`, what it finds says nothing of the rows that are there
  when the step takes effect: `Passes` and `Raises` let it go either way. The
  runs that hold and the theorems allow `Racing`; the violation runs do without,
  so that what they show needs no race.
- `CreateSession`, `AddSessionTeacher`, `AddSessionTeacherFails`, `UndoCreate`,
  `Autofill` are the statements of `AdminSessionCreate`; `ReadTemplate`,
  `ReadTemplateTeachers`, `RepeatSessionWeekly` those of a weekly repeat;
  `Abandon` is a client that goes away between two of them.
- `GenerateSessions`, `UpdateSession`, `DeleteSession`,
  `DeleteSessionsForClass`, `CreateClass`, `UpdateClass`, `DeleteClass` are the
  handlers of one statement or one transaction.
- `BatchCommits` and `BatchRolledBack` are the two ends of a bulk transaction:
  an error inside the loop aborts the transaction, so the rest of the loop does
  nothing and the commit rolls back. `BatchRefused` has the rows that a
  constraint or a cap refuses, `BatchClashes` those a conflict trigger may.

### Access

`people`, `jobs`, `owner` and `grants` are tables; `logins` is the map of
`auth/session.go` and dies with the server. A login copies the roles it has read
and lives `TTL` ticks. `StartServer` and `BootstrapRole` are the two inserts of
`BootstrapAdmin`, `StopServer` may fall between them. `ReadUser` and
`OpenSession` are the two halves of `LoginPost`, with the password's comparison
in between. `CreatePerson` and `CreateUserForPerson`, `AddRole` and
`GrantAppUserRole` are handlers of two statements, and `SecondStatementFails`
is what the first leaves when the second does not happen. `MayManage` is the
permission guard in front of the administration screens. Only
`CreateAdminUserForPerson` makes administrators, and only of new accounts, which
is why a revoked one stays revoked (`RevokedRoleReturns`).

### Permissions

A save is the transaction of `SetRolePermissions`, taken apart: `BeginSave`
fixes the rows its DELETE will look at, `DeleteRows`, `InsertNext` and `Commit`
follow, `Rollback` may come at any time. Row locks are not a variable: `Blockers`
says from the state of the transactions whom a statement has to wait for, and
`AbortDeadlocked` is PostgreSQL's deadlock detector. `Load` and `Swap` are the
two halves of `LoadPermissions`; `Restart` loads the cache again, or leaves it
empty.

### Documents

`objects` is the bucket; `rows`, `file` and `link` are `teacher_documents` and
`teacher_document_connections`; `records` stands for the four evidence tables.
The upload and delete handlers exist once for each kind of evidence and once for
the library, and do the same calls in the same order; one set of actions stands
for them, and a record is any of the four.

- Adding: `Upload`, `InsertRow` or `InsertLibraryRow`, `InsertLink`, with
  `UndoUpload` after an error. `RefuseRow` and `RefuseLink` are the answers the
  database gives when the record is gone.
- Deleting a document: `ReadKey`, `DeleteObject`, `DeleteRow`.
- Deleting a record: `ReadKeys`, `DeleteDocs`, `DeleteRecord`, `Sweep`,
  `EndSweep`.
- Every call can fail before or after its effect (the actions that end in
  `Fails` and `Unanswered`), and `DocumentsRestart` can come between any two.

Two history variables say which files the module gives up on. `mayMiss` has the
files that may be gone while a row names them, `mayStray` the objects that may
stay without a row. Each action that puts a file in doubt says so itself, and
the set of those places is tight: take any one of them out of the module and TLC
shows a file that is lost or left by it. The places without any failure are two:
an upload in a second in which the same name is in use, and an add that crosses
the delete of its record. What they amount to:

- A document that another request adds between the read of a record's keys and
  the delete of its documents goes without its object being deleted
  (`store.go:4302`).
- A connection that is refused because the record is gone deletes the object and
  leaves the row in the library (`store.go:4260`).
- Two uploads of one file name in one second share an object; deleting one
  document takes the other's file (`handler.go:4596`).

### Concurrent and Ledger

`Ledger` is an account: a booking takes hours and is whole, no account goes
beyond its cap, a booking that changes is refunded and booked anew, one that is
dropped is not refunded. `Concurrent` has the transactions that PostgreSQL runs
for `AdminSessionCreate`, `AdminSessionUpdate` and `AdminSessionDelete`. The
variables `sessions`, `staffing` and `booked` are what is committed; `work[w]`
is a request with the transaction it has open: `row` what it has written, `held`
the balances it has locked with the amounts it has given them.

- Creating: `CheckGroup` (the BEFORE trigger's query), `CreateSession` (the
  insert, which waits for rows in its way), `CommitCreate`; then the teacher's
  statement: `AddSessionTeacher` (the trigger's query), `Refer` (the foreign key
  with its lock), `ReadHours`, `AdjustBalance`, `CommitStaff`. `UndoCreate` is
  the handler's delete after a refusal.
- Moving: `LockSession`, `CheckGroup`, `UpdateSession`, `AdjustBalance` for the
  refund and for the charge, `CommitMove`. Deleting: `LockSession`,
  `DeleteSession`. `Abort` may end any of them.
- `Contested`, `Changing`, `Referring` and `Holds` say whom a step waits for.

`Account` instantiates `Ledger` with the committed sessions as bookings. Three
history variables name the races of READ COMMITTED: `crossed` has the pairs of
sessions whose group checks were blind to each other, `paired` those whose
teacher checks were, `relocated` the sessions that were moved with a teacher on
them or coming, which no trigger checks.

### Records

`result` and `published` are columns of `client_subject_enrolments`,
`attendance` the marks, `enrolments` the rows of `student_course_enrollments`.
`SetResult`, `PublishResult`, `PublishColumn` and `SetAttendance` come from
pages that may be of any age, so they are enabled at any time;
`ResultsGrid` is the query that says what a column shows. Enrolments are under
the index `idx_uq_active_course_enrollment`, which counts deleted rows:
`DeletedActiveBlocksForGood` says what follows.

### Workplan and Settings

`Workplan` has `teacher_availability` and `leave_requests` with the days that
the handler makes of the form's dates. "Set defaults" is five statements
(`defaulting` is the day to come); another request of the teacher can act
between them. `Settings` has the two pages that save settings key by key:
`SaveSetting` one statement, `SwapLMS` the swap in memory, `StartClear`,
`FinishClear`, `AssignSemester` and `CommitSemesters` the transaction that
replaces the semesters, with the rows its DELETE has seen and those it has to
wait for; `SaveFails` and `Restart` may come at any time. `torn` says which
page's settings two forms may have mixed.

### Calendar and Holidays

`Calendar` has the arithmetic of dates: days since an epoch, Easter as the code
computes it and, for comparison, from the ecclesiastical full moon, and the
weekdays of a month by the Go code (`nthWeekdayOfMonth`) and by the database
(`fn_nth_weekday`). `Holidays` has the rules, the observances entered by hand,
"generate" with a statement to each row (`AdminExceptionGenerate`, `Generate`,
`GenerateDone`, `GenerateFails`; a year before 2000 is refused), and the trigger
that materialises a year within the INSERT of an academic period
(`PeriodCreated`).

### Tables and Campus

`Tables` says what a statement does under foreign keys: `Doomed` is what
cascades take, `Refused` when RESTRICT and NO ACTION stop it, `Unset` what SET
NULL clears, `Unique` and `Refers` what an insert or update must satisfy.
`Campus` declares the foreign keys and unique constraints of the schema as data
(`Keys`, `Uniques`) and has one action for each screen, named for its handler,
over one operator for each method of the store. `ListPrograms` to
`ScheduleForIntakeGroup` are the listings with their joins. A new subject is
linked to its program, and a holder of the role Teacher becomes a teacher, in a
later statement that can fail (`pending`). The screen of role types renames and
deletes whatever it is given, the system's own rows included
(`SystemRolesStay`).

## 4. The runs

| Run | Question | Answer |
|---|---|---|
| `teaching` | Sessions and hours: do balances cover what is taught and keep to the caps, are rooms booked once and batches whole, with classes that come, go and change period and group? Documents: are there ways to lose or to leave a file but the ones the module names? | `HoursCovered`, `CapsRespected`, `NoRoomDoubleBooking`, `BatchCompletes`, `FilesOfRowsExist`, `NothingLeftBehind` hold |
| `rights` | Accounts: was what a session may do ever granted and earned, and does a revocation take hold? Permissions: can a save make a kept permission vanish for a moment, do saves that wait for each other end? | `RightsAreEarned`, `RevokedRightsLapse`, `KeptPermissionsStay`, `SavesEnd` hold |
| `office` | What the offices around the timetable promise, one office at a time; and whether session statements that run together keep an account of hours | the 23 properties below hold |
| `leak` | Is the balance the cache of the sessions that `docs/DATABASE.md` calls it? | no: deleting a session leaves its hours |
| `move` | Is a teacher in two overlapping sessions prevented, as `docs/DATABASE.md` lists? | no: moving a session is not checked |
| `repeat` | Are teacher conflicts skipped by a weekly repeat, as its comment says? | no: one conflict undoes all weeks |
| `refill` | Does a bulk create skip the sessions that exist, as its comment says? | no: for a class with an intake group it aborts |
| `regrant` | Can a revoked administrator be made one again, as the schema's comment on `app_user_roles` says? | no: no screen grants Admin to an account that exists |
| `replace` | Does a save replace a role's permissions, as its comment says? | no: two saves can leave the union |
| `roles` | Do the system's own role types keep their names, as `docs/DATABASE.md` says? | no: the screen renames and deletes any |
| `second_period` | Is a second academic period in a year harmless, as the trigger's comment says? | no: it observes a weekend's substitute once more, a day later |
| `substitutes` | Is a substitute observed on the next free weekday, as the comments of the holiday functions say? | no: the Go code puts two on one Monday |

The nine last are expected to be violated; each quotes the line it holds the
code against in `PROJECT.json`.

The parts of `teaching`, of `rights` and of `office` share no table, so they work
one at a time: `part` says which, from the initial state on, and the states add
up instead of multiplying. The type invariants are `TypeOK` (of `Timetable` in
`teaching`, of `Access` in `rights`), `DocumentsTypeOK`, `PermissionsTypeOK`,
`CampusTypeOK`, `RecordsTypeOK` and `SettingsTypeOK`.

`office` asks, of each office, what it could get wrong over several requests:

- of the catalogue: deletions spare classes, sessions, enrolments and results
  (`TeachingSurvives`); listings lose no row (`EverythingListed`); a session's
  building is its room's, but for a room that was moved
  (`SessionsKnowTheirBuilding`); second statements are made good
  (`NewSubjectsAreLinked`, `TeachersAreMade`).
- of results and enrolments: `PublishedStands`, `ColumnIsPublished`,
  `OneOpenEnrolment`, `DeletedActiveBlocksForGood`.
- of the teachers' pages: `DefaultsReachFriday`, `LeaveIsListed`.
- of the settings: `SettingsAgree`, `SemestersReplaced`.
- of the holidays: `CalendarIsRight` for each of a hundred years,
  `GeneratedYearIsComplete`, `DeletedRuleLeavesNothing`.
- of the transactions on sessions: `HoursAreAnAccount` (the refinement of
  `Ledger`), `BalancesCover`, `GroupsApartUnlessRacing`,
  `TeachersApartUnlessRacing`.

### Bounds

- `teaching`, timetable: one teacher, one class that starts with an intake group
  and may be deleted and made again, with a group or without and in either of two
  periods, one room, three dates in two years, three sessions, one request
  between its statements, forms for a one-hour and a two-hour session that overlap
  in the room, caps of two hours for the year and the period, `Racing`. Three
  sessions are a repeat of two weeks and its template; the dates are what a repeat
  over the end of a year needs; a cap is reached by one long or two short
  sessions. Any number of other requests act between the statements of the one, in
  steps of their own, so a second one that remembers something adds little; the
  transactions that run together are those of `Concurrent`.
- `leak`, `move`, `repeat`, `refill`: two classes, one of them with the group,
  no cap of the period, and a cap of the year that is out of the way in `move` and
  `repeat`; no `Racing`.
- `teaching`, documents: two requests, one record, two document ids, two seconds. A
  third request has been tried and adds nothing. The timetable and the documents
  together have about 500 000 states.
- The rows of a table are interchangeable, so `SessionIds` is a symmetry set, and
  so are the requests and the rows of documents; no run with symmetry checks
  liveness. Deadlock is not checked in these runs, because the modelled ids can
  be used up, which the real ones cannot.
- `rights`, accounts: one person, the bootstrap account and one account more, two
  login sessions, two requests, a lifetime of two ticks: a revocation can race a
  login and one session can outlive another. `regrant` has the same.
- `rights`, permissions, and `replace`: one role, two savers, two permissions.
  Saves of different roles touch different rows; two rows and two savers are enough
  for a cycle of waits. The two parts have about 420 000 states; there is no
  symmetry, since the run checks liveness.
- `office`: about 400 000 states. The catalogue starts with one row in most
  tables, or with none, may number two rows a table, and has two screens in use
  together, one pair for each foreign key between screens (`Shifts`): a deletion
  meets the rows that name what it deletes. Records: three units of two students,
  one of whom takes a subject
  twice; two enrolments, so that the second can meet a deleted one. Workplan: one
  teacher, two dates, two requests for leave. Settings: two saves, since a
  third would meet one of them only after the other is through. Holidays: two
  rules out of eight forms that are shaped by what the two implementations treat
  differently: a substitute on a weekend, a fifth Monday in February, an Easter
  offset of zero, a 31st of April. Transactions: two workers and two sessions of
  one intake group that meet, over the end of a year, with a cap that two
  sessions reach; a race, a lock and a wait each need two.
- `roles` has the constants of `office`; `substitutes` two rules, one generation
  and no period.
- `second_period`: one rule and two periods of 2021, when Christmas and Boxing
  Day are on a weekend.

`MaxSecond`, `DocumentIds`, `Handlers`, `Records`, `SessionIds`, `Requests`,
`Users`, `Tokens`, `Savers`, `Workers` are bounds of the models, not of
the system, and are marked
so where they are declared.

### Fairness

`Timetable`, `Documents` and the modules of `office` assume none and state no
liveness: their requests may stop anywhere, and nothing in the code takes them up
again. `Access` assumes
that time passes (`WF_vars(Tick)`) and that a login that has read its account is
carried through (`WF_vars(OpenSession(r))`), which nothing but the end of the
server prevents: neither the comparison nor the map looks at the request's
context. `Permissions` assumes strong fairness of each save's next step
(`PermissionsFairness`).
Strong, because a statement that waits is free and blocked in turn as other saves
come and go; justified, because PostgreSQL queues the waiters of a row and
aborts one transaction of a cycle. Nothing has to begin and nothing has to fail.

## 5. What is proved

All theorems hold for every value of the constants, under the named `ASSUME`s of
the modules and no others, and TLC evaluates each of those on a run. The sets of
ids and dates are finite, dates and caps are numbers, the values that stand for
NULL are not values. `SeedAssumption` says that the tables `Campus` starts from
are such as its screens leave: rows have their columns, references stand,
sessions are in the building of their room, an issue that is resolved has that
status, and who has the role Teacher is a teacher. `HolidaysAssumption` says that
years are positive, that a rule's numbers are numbers, and that an observance
entered by hand has the columns of the table.

- `TimetableProofs`. `TypeInv` strengthens `TypeOK` by what a request carries
  for its next statement, and by sessions that end after they start. Every step
  is then shown to be one of a few kinds: nothing of interest, one row inserted,
  teachers assigned, a batch, a row moved, rows deleted. Rooms, caps and hours
  are proved over the kinds and not over the actions. `HoursAlwaysCovered` is the
  hard one: hours are a set of cells `<<session, hour>>`, and each kind of step
  changes the set by at most what it charges or refunds; it needs
  `ReferencesAlwaysHold`, that no teacher stays on a session that is gone, since
  a new session would otherwise start with hours nobody was charged for. None of
  it rests on what a conflict trigger finds, so all of it holds with `Racing`.
  `BatchesAreComplete` rests on two facts: a request that ends its autofill or
  its repeat with sessions changed has committed the batch (`RequestsEnd`), and a
  committed batch has a session on each of its dates, which it added or found
  there (`BatchHeld`).
- `AccessProofs`. `RightsAreEarned` looks only at sessions and is not inductive.
  `Inv` adds what lies upstream: a session's roles come from a login, the
  login's from grants, a grant from a request that gave the job first; teachers
  are staff; the bootstrap account belongs to nobody; nothing is under way while
  the server is down. `Grows` says that people, jobs, owners and grants are
  never taken back, so what was earned stays earned.
- `PermissionsProofs`. `Inv` says of a save between its delete and its commit
  that whatever it keeps, deletes and is through with it has inserted
  (`PutsBack`), so that its commit takes away nothing it keeps.
- `DocumentsProofs`. `Inv` says, for each `pc`, what the request knows that is
  still so (`InsertingOK` to `SweepingOK`), that a crossed add is in doubt
  (`CrossedOK`), that a sure object has one row (`RowsOK`), and the two
  properties in a form about one file (`FilesOK`, `ObjectsOK`). The 29
  actions are looked at once, in lemmas about the effect of any step on objects,
  rows, links, records and requests (`ObjectsGone`, `RowsNew`, `LinksStep`,
  `Beginning`, ...); the parts of the invariant are then proved from the effects.
  Here even `TypeOK` rests on the whole invariant: an undo and a delete must
  know the name of an object.

- `OfficeProofs`, of the three modules around the timetable. `RecordsInv` adds to
  the type and to `OneOpenEnrolment`, which the index keeps inductive since it
  looks at every row, that a result the students see was recorded
  (`SeenIsRecorded`); the action properties follow from it step by step.
  `DefaultsInv` says of a teacher whose defaults are being set that the days
  before the next one have them unless touched. `LeaveInv` is about the rows
  alone: dates are not empty, and a part of a day is for one. `SemestersInv`
  follows a save through its transaction: a DELETE that nobody committed after
  has seen all there is, and what is inserted is what is wanted less what is to
  do. `AgreeInv` says what a save has written so far is still there: all of it
  while it is alone, or while nobody has torn the settings; and a save that is
  alone has no company. `SettingsTyping` has more to it than types, since
  `SettingsTypeOK` says that the semesters obey their primary key. `LocksInv` is
  why they do although two saves insert in transactions of their own: a
  transaction that inserts has locked what it deletes, and two of them delete
  different rows and insert different keys.
- `CampusProofs`. `CampusInv` has five parts: the tables have their columns and
  their references stand (`TablesInv`), the statements to come are well-formed
  and few (`RequestsOK`), and the three properties that more than one statement
  has to do with, of which `RolesMakeTeachers` is the stronger form of
  `TeachersAreMade` that also counts ended roles, because an end can be taken
  back. The foreign keys are data, so the proof is about data: every cascade goes
  down in `Depth`, so four rounds take all that a deletion takes
  (`DoomedIsClosed`), and what is left names nothing that is gone. Each of the
  screens is one of a few kinds of statement, and `Kept` is what the invariant
  needs of a statement. `TeachingStays` needs only that no cascade leads from
  outside the teaching into it; `ListingsAreComplete` needs what `ReferencesStand`
  says, and of each inner join that its column may not be NULL.
- `HolidaysProofs`. `CalendarAlwaysRight` is arithmetic: for every positive year
  the Go code and the database find the same n-th weekday
  (`WeekdaysAlwaysAgree`; a fifth one that is not there is the exception),
  and `computeEaster` finds the Sunday after the full moon of the Church
  (`EasterAlwaysRight`), by what its remainders can be and the two corrections
  they bring. `HolidaysInv` says of "generate" that whatever the rules ask for is
  there or still to be inserted, unless a rule or an observance was edited
  meanwhile (`NothingForgotten`), which makes `GeneratedYears` true at the end. The trigger
  is a recursive function of the rules. That it keeps the columns and the
  rules' numbers is shown without induction over an operator: of the
  steps that would break it there is a first (`FirstOfMany`), and that one does not.
- `ConcurrentProofs`. `ConcurrentInv` has six parts: the shape of each
  transaction (`ShapeInv`), that whoever changes a session is alone with it
  (`LockInv`), that a session is made by one request, under an id of its own,
  and has no teacher before (`MakerInv`), that a pair of sessions whose checks have been made is apart or
  in `crossed` and `paired` (`GroupInv`, `TeacherInv`), and that a balance
  is held by one transaction, and amounts to what was committed and what its
  statement charges (`AmountInv`). From it, every step is a booking, a rebooking, a drop
  or a stutter of the account: `Accounted` is the refinement of `Ledger` for any
  number of workers. `Covered` adds `CoverInv`, that the set of booked hours of an
  account is finite and no larger than its balance, by the cardinalities of what
  one booking adds and takes.

What the conflict triggers are good for is proved in `ConcurrentProofs`, where
their query and their write are two steps.

Every invariant and action property of a passing run is the subject of a theorem.
Only model-checked are the two liveness properties, `RevokedRightsLapse` and
`SavesEnd`: they rest on fairness, hence on ENABLED, which is out of this
prover's reach. So is induction with a theorem of the library that takes a
predicate; where an induction is needed, over the trigger's loop, it is replaced
by a smallest counterexample. The properties of the runs that expect a violation
are, of course, refuted and not proved.

## 6. What is not modelled

- In the timetable: `DeleteSessionsForEntity`, which nothing calls; the deletion
  of a room or an intake group, which sets the session's column to NULL; the
  columns `cancelled` and `role`, which no Go code sets. In the concurrent
  transactions: bulk creation, classes that change their group, several teachers
  on one session and the balances of a period, all of which `Timetable` has at its
  coarser grain.
- In access: passwords and cookies, `is_active`, and the deletion of an account
  by hand in the database.
- In documents: the fields of the evidence records, the rows that link a
  document to elements, ratings and units, and the cascades from a deleted
  teacher or VCC.
- On the teachers' pages: `ApproveLeaveRequest` and `DeclineLeaveRequest`, which
  no handler calls. In the settings: that deleting an academic period takes its
  semesters along.
- In the catalogue: names, addresses and other columns that nothing refers to;
  deleting the staff members themselves. The offices are not composed with each
  other: a period that `Campus` creates brings no holidays, which `Holidays` does
  by itself.
- The functions only the database has (`fn_generate_sessions`,
  `fn_set_slot_period`, the recomputations, the compliance triggers): they work
  on tables that no Go code writes or calls.
- Not at all: backup and restore run `pg_dump` and `psql` as external processes;
  the audit log is read by nothing; internal messages have tables but no
  handlers; PDF, templates and listings only present what is stored; personal
  data forms change nothing the system acts on.
