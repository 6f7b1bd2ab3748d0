\* Two saves under way for one role, of two permissions: enough for a deadlock between them.
CONSTANTS
    RoleTypes = {Teacher}
    Savers = {s1, s2}
    PermCount = 2
    Seed <- MCSeed
    NoRole = NoRole
SPECIFICATION PermissionsSpec
PROPERTIES
    SaveReplaces
