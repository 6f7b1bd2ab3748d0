\* A session is moved onto another of its teacher's sessions.
SPECIFICATION Spec
CONSTANTS
    t1 = t1  c1 = c1  c2 = c2  room1 = room1  g1 = g1  p1 = p1  p2 = p2
    NoCap = NoCap  NoRoom = NoRoom  NoGroup = NoGroup  NoClass = NoClass
    NoSession = NoSession
    Racing = FALSE
    Teachers = {t1}
    Classes = {c1, c2}
    Rooms = {room1}
    Groups = {g1}
    Periods = {p1}
    InitialClasses <- OneGroup
    SessionIds = {s1, s2, s3}
    Requests = {r1}
    Days = {1, 2, 3}
    Years = {1, 2}
    Week = 1
    Hours = {9, 10, 11}
    YearOf <- MCYearOf
    Forms <- MCForms
    ClassForms = {}
    PeriodEnds = {3}
    YearCap <- EightHours
    PeriodCap <- NoPeriodCap
SYMMETRY MCSymmetry
CHECK_DEADLOCK FALSE
INVARIANT
    NoTeacherDoubleBooking
