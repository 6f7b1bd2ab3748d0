\* An administrator is revoked and cannot be made one again.
CONSTANTS
    Persons = {p1}
    Users = {u0, u1}
    BootstrapUser = u0
    Tokens = {t1, t2}
    Requests = {r1, r2}
    RoleForms = {"Staff", "Teacher"}
    TTL = 2
    NoPerson = NoPerson
    NoAccount = NoAccount
    NoLogin = NoLogin
    NoUser = NoUser
SPECIFICATION Spec
INVARIANT
    RevokedRoleReturns
