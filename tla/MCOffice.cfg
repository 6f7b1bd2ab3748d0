CONSTANTS
    MaxRow = 2
    Labels = {"a", "Teacher"}
    States = {"none", "VIC", "NSW"}
    NoState = "none"
    Staff = {"p"}
    TeacherName = "Teacher"
    Shifts <- MCShifts
    Seeds <- MCSeeds
    Observances <- MCObservances
    MaxPending = 1
    Units = {"u1", "u2", "u3"}
    UnitStudent <- MCUnitStudent
    UnitSubject <- MCUnitSubject
    ClassUnits <- MCClassUnits
    SessionClass <- MCSessionClass
    Programs = {"p"}
    Groups = {"g"}
    NoGroup = "none"
    MaxEnrolments = 2
    Persons = {"t"}
    Dates = {1, 2}
    Hours = {8, 22}
    MaxLeave = 2
    Periods = {1}
    Savers = {"a", "b"}
    MaxSaves = 2
    YearsShown <- MCYearsShown
    RuleForms <- MCRuleForms
    HandForms <- MCHandForms
    Generators = {"g"}
    MaxRules = 2
    MaxPeriods = 1
    MaxEdits = 1
    Teachers = {"t"}
    Unstaffed = "nobody"
    GroupOf <- MCGroupOf
    Ungrouped = "no"
    SessionForms <- MCSessionForms
    Roomless = "none"
    YearOf <- MCYearOf
    YearCap <- MCYearCap
    MaxSessions = 2
    Workers = {"a", "b"}
SPECIFICATION OfficeSpec
INVARIANTS
    CampusTypeOK
    EverythingListed
    SessionsKnowTheirBuilding
    NewSubjectsAreLinked
    TeachersAreMade
    RecordsTypeOK
    OneOpenEnrolment
    LeaveIsListed
    SettingsTypeOK
    SettingsAgree
    SemestersReplaced
    CalendarIsRight
    DeletedRuleLeavesNothing
    BalancesCover
    GroupsApartUnlessRacing
    TeachersApartUnlessRacing
PROPERTIES
    TeachingSurvives
    PublishedStands
    ColumnIsPublished
    DeletedActiveBlocksForGood
    DefaultsReachFriday
    GeneratedYearIsComplete
    HoursAreAnAccount
CHECK_DEADLOCK FALSE
