\* One person, the bootstrap account and one of the person; two login sessions and two
\* requests, enough for a revocation to race a login and for one session to outlive
\* another.  Two saves under way for one role, of two permissions: enough for a deadlock
\* between them.
CONSTANTS
    Persons = {p1}
    Users = {u0, u1}
    BootstrapUser = u0
    Tokens = {t1, t2}
    Requests = {r1, r2}
    RoleForms = {"Staff", "Teacher"}
    TTL = 2
    NoPerson = NoPerson
    NoAccount = NoAccount
    NoLogin = NoLogin
    NoUser = NoUser
    RoleTypes = {Teacher}
    Savers = {s1, s2}
    PermCount = 2
    Seed <- MCSeed
    NoRole = NoRole
SPECIFICATION RightsSpec
INVARIANTS
    TypeOK
    RightsAreEarned
    PermissionsTypeOK
PROPERTIES
    RevokedRightsLapse
    KeptPermissionsStay
    SavesEnd
