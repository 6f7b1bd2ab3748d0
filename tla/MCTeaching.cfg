\* One class in two periods, one teacher with a cap of the year and one of the period,
\* three sessions on three dates in two years; every session and class operation, with a
\* request that interleaves with the others between its statements, and with other
\* transactions committing while a conflict trigger looks.
\* Two requests at once over one record, two documents and two seconds.
SPECIFICATION TeachingSpec
CONSTANTS
    t1 = t1  c1 = c1  c2 = c2  room1 = room1  g1 = g1  p1 = p1  p2 = p2
    NoCap = NoCap  NoRoom = NoRoom  NoGroup = NoGroup  NoClass = NoClass
    NoSession = NoSession
    Racing = TRUE
    Teachers = {t1}
    Classes = {c1}
    Rooms = {room1}
    Groups = {g1}
    Periods = {p1, p2}
    InitialClasses <- AllInP1
    SessionIds = {s1, s2, s3}
    Requests = {r1}
    Days = {1, 2, 3}
    Years = {1, 2}
    Week = 1
    Hours = {9, 10, 11}
    YearOf <- MCYearOf
    Forms <- RoomForms
    ClassForms <- TwoShapes
    PeriodEnds = {3}
    YearCap <- TwoHours
    PeriodCap <- TwoHours
    w1 = w1  w2 = w2  d1 = d1  d2 = d2
    Handlers = {w1, w2}
    Records = {evidence}
    DocumentIds = {d1, d2}
    MaxSecond = 2
    NoKey = NoKey
    NoId = NoId
    NoRecord = NoRecord
SYMMETRY TeachingSymmetry
CHECK_DEADLOCK FALSE
INVARIANTS
    TypeOK
    HoursCovered
    NoRoomDoubleBooking
    CapsRespected
    DocumentsTypeOK
    FilesOfRowsExist
    NothingLeftBehind
PROPERTIES
    BatchCompletes
