----------------------------- MODULE AccessProofs -----------------------------
(***************************************************************************)
(* What a login session may do was earned, for any number of people,       *)
(* accounts, sessions and requests.                                        *)
(*                                                                         *)
(* RightsAreEarned looks only at sessions.  It is carried by what lies     *)
(* upstream of them: a session's roles come from the login that read them, *)
(* the login's from grants, a grant from a request that gave the person    *)
(* the job first, and jobs and accounts are never taken away.              *)
(***************************************************************************)
EXTENDS Access, TLAPS

\* Teachers are staff: the screen refuses others.
TeachersAreStaff ==
    \A p \in Persons : "Teacher" \in jobs[p] => "Staff" \in jobs[p]

\* A role was granted to an account that exists, for a job its person has.
GrantsAreEarned ==
    \A u \in Users, role \in Roles : grants[u][role] # "none" => Earned(u, role)

\* Requests between two statements remember only what is so.
RequestsAreEarned ==
    \A r \in Requests :
        /\ requests[r].pc \in {"account", "grant"} => requests[r].person \in people
        /\ requests[r].pc = "grant" => requests[r].roles \subseteq jobs[requests[r].person]
        /\ requests[r].pc = "login" =>
            /\ requests[r].user \in Users
            /\ \A role \in requests[r].roles : grants[requests[r].user][role] # "none"

\* Between its two inserts, the bootstrap account belongs to nobody and has
\* never had the role.
BootstrapIsNobodys ==
    server = "bootstrap" => owner[BootstrapUser] = NoPerson

\* Sessions and requests end with the server.
OnlyUpServes ==
    server # "up" =>
        /\ \A tok \in Tokens : logins[tok] = NoLogin
        /\ \A r \in Requests : requests[r].pc = "idle"

LoginsAreGranted ==
    \A tok \in Tokens : logins[tok] # NoLogin =>
        \A role \in logins[tok].roles : grants[logins[tok].user][role] # "none"

Inv ==
    /\ TypeOK
    /\ TeachersAreStaff
    /\ GrantsAreEarned
    /\ RequestsAreEarned
    /\ LoginsAreGranted
    /\ BootstrapIsNobodys
    /\ OnlyUpServes

USE DEF Roles, Jobs

-----------------------------------------------------------------------------
\* The tables start empty and the server down.
LEMMA InitEstablishes == Init => Inv
<1> SUFFICES ASSUME Init PROVE Inv
    OBVIOUS
<1> USE AccessAssumption DEF Init
<1>1. TypeOK
    BY DEF TypeOK, Ungranted, Idle, Request
<1>2. TeachersAreStaff
    BY DEF TeachersAreStaff
<1>3. GrantsAreEarned
    BY DEF GrantsAreEarned, Ungranted
<1>4. RequestsAreEarned
    BY DEF RequestsAreEarned, Idle
<1>5. LoginsAreGranted
    BY DEF LoginsAreGranted
<1>6. BootstrapIsNobodys
    BY DEF BootstrapIsNobodys
<1>7. OnlyUpServes
    BY DEF OnlyUpServes, Idle
<1> QED
    BY <1>1, <1>2, <1>3, <1>4, <1>5, <1>6, <1>7 DEF Inv

\* A lifetime that has not run out can lose a tick.
LEMMA CountDown ==
    ASSUME NEW n \in 0 .. TTL, n # 0
    PROVE  n - 1 \in 0 .. TTL
BY AccessAssumption

\* Every step keeps types.
LEMMA TypePreserved == Inv /\ [Next]_vars => TypeOK'
<1> SUFFICES ASSUME Inv, [Next]_vars PROVE TypeOK'
    OBVIOUS
<1> USE AccessAssumption, NoLoginAssumption DEF Inv, TypeOK, tables
<1>1. CASE StartServer
    BY <1>1 DEF StartServer
<1>2. CASE BootstrapRole
    BY <1>2 DEF BootstrapRole
<1>3. CASE StopServer
    BY <1>3 DEF StopServer, Idle, Request
<1>4. ASSUME NEW r \in Requests, ReadUser(r) PROVE TypeOK'
  <2>1. PICK u \in Accounts : requests' = [requests EXCEPT ![r] =
            [Idle EXCEPT !.pc = "login", !.user = u, !.roles = ActiveRoles(u)]]
    BY <1>4 DEF ReadUser
  <2>2. [Idle EXCEPT !.pc = "login", !.user = u, !.roles = ActiveRoles(u)] \in Request
    BY DEF Idle, Request, Accounts, ActiveRoles
  <2> QED
    BY <1>4, <2>1, <2>2 DEF ReadUser
<1>5. ASSUME NEW r \in Requests, OpenSession(r) PROVE TypeOK'
  <2>1. requests[r].roles \subseteq Roles /\ requests[r].user \in Users
    BY <1>5 DEF OpenSession, Request, RequestsAreEarned
  <2>2. [user |-> requests[r].user, roles |-> requests[r].roles, left |-> TTL] \in Login
    BY <2>1 DEF Login
  <2>3. requests' \in [Requests -> Request]
    BY <1>5 DEF OpenSession, Finish, Idle, Request
  <2> QED
    BY <1>5, <2>2, <2>3 DEF OpenSession
<1>6. ASSUME NEW r \in Requests, CreatePerson(r) PROVE TypeOK'
    BY <1>6 DEF CreatePerson, Continue, Request
<1>7. ASSUME NEW r \in Requests, CreateUserForPerson(r) PROVE TypeOK'
    BY <1>7 DEF CreateUserForPerson, Finish, Idle, Request
<1>8. ASSUME NEW r \in Requests, AddRole(r) PROVE TypeOK'
    BY <1>8 DEF AddRole, Continue, Request
<1>9. ASSUME NEW r \in Requests, GrantAppUserRole(r) PROVE TypeOK'
    BY <1>9 DEF GrantAppUserRole, Finish, Idle, Request
<1>10. ASSUME NEW r \in Requests, SecondStatementFails(r) PROVE TypeOK'
    BY <1>10 DEF SecondStatementFails, Finish, Idle, Request
<1>11. CASE Logout
    BY <1>11 DEF Logout
<1>12. CASE Tick
  <2>1. ASSUME NEW tok \in Tokens, Running(tok)
        PROVE  [logins[tok] EXCEPT !.left = @ - 1] \in Login
    <3>1. logins[tok] \in Login
      BY <2>1 DEF Running
    <3>2. logins[tok].left \in 0 .. TTL /\ logins[tok].left # 0
      BY <2>1, <3>1 DEF Running, Login
    <3>3. logins[tok].left - 1 \in 0 .. TTL
      BY <3>2, CountDown
    <3> QED
      BY <3>1, <3>3 DEF Login
  <2> QED
    BY <1>12, <2>1 DEF Tick
<1>13. CASE CreateAdminUserForPerson
    BY <1>13 DEF CreateAdminUserForPerson
<1>14. CASE RevokeAdminRole
    BY <1>14 DEF RevokeAdminRole
<1>15. CASE AutoRevokeNonStaffAdmins
    BY <1>15 DEF AutoRevokeNonStaffAdmins
<1>16. CASE UNCHANGED vars
    BY <1>16 DEF vars
<1> QED
    BY <1>1, <1>2, <1>3, <1>4, <1>5, <1>6, <1>7, <1>8, <1>9, <1>10, <1>11,
       <1>12, <1>13, <1>14, <1>15, <1>16 DEF Next

-----------------------------------------------------------------------------
(* Nothing earned is lost. *)

\* People stay, jobs stay, an account keeps its person, and a grant leaves a
\* row behind for good.
Grows ==
    /\ people \subseteq people'
    /\ \A p \in Persons : jobs[p] \subseteq jobs'[p]
    /\ \A u \in Users : owner[u] # NoAccount => owner'[u] = owner[u]
    /\ \A u \in Users, role \in Roles :
        grants[u][role] # "none" => grants'[u][role] # "none"

\* No screen, restart or failure takes back what Grows lists.
LEMMA OnlyGrows == Inv /\ [Next]_vars => Grows
<1> SUFFICES ASSUME Inv, [Next]_vars PROVE Grows
    OBVIOUS
<1> USE AccessAssumption DEF Inv, TypeOK, tables, Grows
<1>1. CASE StartServer
    BY <1>1 DEF StartServer, Accounts
<1>2. CASE BootstrapRole
    BY <1>2 DEF BootstrapRole
<1>3. CASE StopServer \/ Logout \/ Tick \/ UNCHANGED vars
    BY <1>3 DEF StopServer, Logout, Tick, vars
<1>4. ASSUME NEW r \in Requests,
             ReadUser(r) \/ OpenSession(r) \/ SecondStatementFails(r)
      PROVE  Grows
    BY <1>4 DEF ReadUser, OpenSession, SecondStatementFails
<1>5. ASSUME NEW r \in Requests, CreatePerson(r) PROVE Grows
    BY <1>5 DEF CreatePerson
<1>6. ASSUME NEW r \in Requests, CreateUserForPerson(r) PROVE Grows
    BY <1>6 DEF CreateUserForPerson, Accounts
<1>7. ASSUME NEW r \in Requests, AddRole(r) PROVE Grows
    BY <1>7 DEF AddRole
<1>8. ASSUME NEW r \in Requests, GrantAppUserRole(r) PROVE Grows
    BY <1>8 DEF GrantAppUserRole
<1>9. CASE CreateAdminUserForPerson
    BY <1>9 DEF CreateAdminUserForPerson, Accounts
<1>10. CASE RevokeAdminRole
    BY <1>10 DEF RevokeAdminRole
<1>11. CASE AutoRevokeNonStaffAdmins
    BY <1>11 DEF AutoRevokeNonStaffAdmins
<1> QED
    BY <1>1, <1>2, <1>3, <1>4, <1>5, <1>6, <1>7, <1>8, <1>9, <1>10, <1>11 DEF Next

\* What was earned stays earned.
LEMMA EarnedStays ==
    ASSUME Inv, [Next]_vars, NEW u \in Users, NEW role \in Roles, Earned(u, role)
    PROVE  Earned(u, role)'
<1>1. Grows
    BY OnlyGrows
<1>2. CASE owner[u] = NoPerson
    BY <1>1, <1>2, AccessAssumption DEF Grows, Earned
<1>3. CASE owner[u] # NoPerson
  <2>1. owner[u] \in people /\ people \subseteq Persons
    BY <1>3 DEF Earned, Inv, TypeOK
  <2>2. owner'[u] = owner[u]
    BY <1>1, <2>1, AccessAssumption DEF Grows
  <2> QED
    BY <1>1, <1>3, <2>1, <2>2 DEF Grows, Earned
<1> QED
    BY <1>2, <1>3

-----------------------------------------------------------------------------
\* Only AddRole makes teachers, and it asks for staff first.
LEMMA StaffPreserved == Inv /\ [Next]_vars => TeachersAreStaff'
<1> SUFFICES ASSUME Inv, [Next]_vars PROVE TeachersAreStaff'
    OBVIOUS
<1> USE DEF Inv, TypeOK, TeachersAreStaff
<1>1. ASSUME NEW r \in Requests, AddRole(r) PROVE TeachersAreStaff'
    BY <1>1, AccessAssumption DEF AddRole
<1>2. CASE UNCHANGED jobs
    BY <1>2
<1> QED
    BY <1>1, <1>2 DEF Next, vars, tables, StartServer, BootstrapRole, StopServer, ReadUser,
       OpenSession, CreatePerson, CreateUserForPerson, GrantAppUserRole,
       SecondStatementFails, Logout, Tick, CreateAdminUserForPerson,
       RevokeAdminRole, AutoRevokeNonStaffAdmins

\* A step that grants: each new grant is earned as the step is taken.
LEMMA GrantsPreserved == Inv /\ [Next]_vars => GrantsAreEarned'
<1> SUFFICES ASSUME Inv, [Next]_vars, NEW u \in Users, NEW role \in Roles,
                    grants'[u][role] # "none"
             PROVE  Earned(u, role)'
    BY DEF GrantsAreEarned
<1>1. CASE grants[u][role] # "none"
    BY <1>1, EarnedStays DEF Inv, GrantsAreEarned
<1>2. CASE grants[u][role] = "none"
  <2> USE <1>2, AccessAssumption DEF Inv, TypeOK
  <2>1. CASE BootstrapRole
    BY <2>1 DEF BootstrapRole, Earned, BootstrapIsNobodys
  <2>2. ASSUME NEW r \in Requests, GrantAppUserRole(r) PROVE Earned(u, role)'
    BY <2>2 DEF GrantAppUserRole, RequestsAreEarned, Earned
  <2>3. CASE CreateAdminUserForPerson
    BY <2>3 DEF CreateAdminUserForPerson, Earned, Accounts
  <2>4. CASE RevokeAdminRole \/ AutoRevokeNonStaffAdmins
    BY <2>4 DEF RevokeAdminRole, AutoRevokeNonStaffAdmins
  <2>5. CASE UNCHANGED grants
    BY <2>5
  <2> QED
    BY <2>1, <2>2, <2>3, <2>4, <2>5 DEF Next, vars, tables, StartServer, StopServer,
       ReadUser, OpenSession, CreatePerson, CreateUserForPerson, AddRole,
       SecondStatementFails, Logout, Tick
<1> QED
    BY <1>1, <1>2

\* What a request remembers between its statements stays so, since the tables only grow.
LEMMA RequestsPreserved == Inv /\ [Next]_vars => RequestsAreEarned'
<1> SUFFICES ASSUME Inv, [Next]_vars, NEW r \in Requests
             PROVE  /\ requests'[r].pc \in {"account", "grant"} => requests'[r].person \in people'
                    /\ requests'[r].pc = "grant" => requests'[r].roles \subseteq jobs'[requests'[r].person]
                    /\ requests'[r].pc = "login" =>
                        /\ requests'[r].user \in Users
                        /\ \A role \in requests'[r].roles : grants'[requests'[r].user][role] # "none"
    BY DEF RequestsAreEarned
<1>1. Grows
    BY OnlyGrows
<1>2. CASE requests'[r] = requests[r]
  <2>1. requests[r].roles \subseteq Roles /\ people \subseteq Persons
    BY DEF Inv, TypeOK, Request
  <2>2. CASE requests[r].pc = "login"
    BY <1>1, <1>2, <2>1, <2>2 DEF Grows, Inv, RequestsAreEarned
  <2>3. CASE requests[r].pc \in {"account", "grant"}
    <3>1. requests[r].person \in people
      BY <2>3 DEF Inv, RequestsAreEarned
    <3> QED
      BY <1>1, <1>2, <2>1, <2>3, <3>1 DEF Grows, Inv, RequestsAreEarned
  <2> QED
    BY <1>2, <2>2, <2>3
<1>3. CASE requests'[r] = Idle
    BY <1>3 DEF Idle
<1>4. CASE ReadUser(r)
  <2>1. PICK u \in Accounts : requests' = [requests EXCEPT ![r] =
            [Idle EXCEPT !.pc = "login", !.user = u, !.roles = ActiveRoles(u)]]
    BY <1>4 DEF ReadUser
  <2>2. requests'[r] = [Idle EXCEPT !.pc = "login", !.user = u, !.roles = ActiveRoles(u)]
    BY <2>1 DEF Inv, TypeOK
  <2>3. /\ requests'[r].pc = "login"
        /\ requests'[r].user = u
        /\ requests'[r].roles = ActiveRoles(u)
    BY <2>2 DEF Idle
  <2>4. \A role \in ActiveRoles(u) : grants[u][role] # "none"
    BY DEF ActiveRoles
  <2> QED
    BY <1>4, <2>3, <2>4 DEF ReadUser, tables, Accounts
<1>5. CASE CreatePerson(r)
    BY <1>5 DEF CreatePerson, Continue, Inv, TypeOK
<1>6. CASE AddRole(r)
    BY <1>6 DEF AddRole, Continue, Inv, TypeOK
<1> QED
  <2>1. ASSUME NEW q \in Requests, q # r, ReadUser(q) \/ CreatePerson(q) \/ AddRole(q)
        PROVE  requests'[r] = requests[r]
    BY <2>1 DEF ReadUser, CreatePerson, AddRole, Continue, Inv, TypeOK
  <2>2. ASSUME NEW q \in Requests,
               \/ OpenSession(q) \/ CreateUserForPerson(q)
               \/ GrantAppUserRole(q) \/ SecondStatementFails(q)
        PROVE  requests'[r] \in {requests[r], Idle}
    BY <2>2 DEF OpenSession, CreateUserForPerson, GrantAppUserRole,
       SecondStatementFails, Finish, Inv, TypeOK
  <2>3. CASE StopServer
    BY <1>3, <2>3 DEF StopServer
  <2>4. CASE UNCHANGED requests
    BY <1>2, <2>4
  <2> QED
    BY <1>2, <1>3, <1>4, <1>5, <1>6, <2>1, <2>2, <2>3, <2>4 DEF Next, vars, tables,
       StartServer, BootstrapRole, Logout, Tick, CreateAdminUserForPerson,
       RevokeAdminRole, AutoRevokeNonStaffAdmins

\* A session opens with the roles of a login, and keeps them.
LEMMA LoginsPreserved == Inv /\ [Next]_vars => LoginsAreGranted'
<1> SUFFICES ASSUME Inv, [Next]_vars, NEW tok \in Tokens, logins'[tok] # NoLogin,
                    NEW role \in logins'[tok].roles
             PROVE  grants'[logins'[tok].user][role] # "none"
    BY DEF LoginsAreGranted
<1>1. Grows
    BY OnlyGrows
<1> USE DEF Inv, TypeOK
<1>2. CASE /\ logins[tok] # NoLogin
           /\ logins'[tok].user = logins[tok].user
           /\ logins'[tok].roles = logins[tok].roles
    BY <1>1, <1>2 DEF Grows, LoginsAreGranted, Login
<1>3. ASSUME NEW r \in Requests, OpenSession(r)
      PROVE  grants'[logins'[tok].user][role] # "none"
    BY <1>1, <1>2, <1>3 DEF OpenSession, RequestsAreEarned, Grows, Request, tables
<1>4. CASE StopServer \/ Logout
    BY <1>2, <1>4 DEF StopServer, Logout
<1>5. CASE Tick
    BY <1>2, <1>5 DEF Tick, Running, Login
<1>6. CASE UNCHANGED logins
    BY <1>2, <1>6
<1> QED
    BY <1>3, <1>4, <1>5, <1>6 DEF Next, vars, StartServer, BootstrapRole,
       ReadUser, CreatePerson, CreateUserForPerson, AddRole, GrantAppUserRole,
       SecondStatementFails, CreateAdminUserForPerson, RevokeAdminRole,
       AutoRevokeNonStaffAdmins

-----------------------------------------------------------------------------
\* A server that is not up starts, stops or stutters.
LEMMA StepsOutside ==
    ASSUME Inv, [Next]_vars, server # "up"
    PROVE  StartServer \/ BootstrapRole \/ StopServer \/ UNCHANGED vars
BY DEF Inv, OnlyUpServes, Next, ReadUser, OpenSession, CreatePerson,
   CreateUserForPerson, AddRole, GrantAppUserRole, SecondStatementFails, Logout, Tick,
   Running, CreateAdminUserForPerson, RevokeAdminRole, AutoRevokeNonStaffAdmins,
   MayManage, Served

\* A server that is up stays up until it stops.
LEMMA StepsInside ==
    ASSUME [Next]_vars, server = "up"
    PROVE  StopServer \/ server' = "up"
BY DEF Next, vars, StartServer, BootstrapRole, ReadUser, OpenSession, CreatePerson,
   CreateUserForPerson, AddRole, GrantAppUserRole, SecondStatementFails, Logout, Tick,
   CreateAdminUserForPerson, RevokeAdminRole, AutoRevokeNonStaffAdmins

\* Stopping the server clears its memory, and nothing fills it before it is up.
LEMMA OnlyUpPreserved == Inv /\ [Next]_vars => OnlyUpServes'
<1> SUFFICES ASSUME Inv, [Next]_vars PROVE OnlyUpServes'
    OBVIOUS
<1>1. CASE server # "up"
    BY <1>1, StepsOutside DEF Inv, OnlyUpServes, StartServer, BootstrapRole, StopServer,
       vars, Idle
<1>2. CASE server = "up"
    BY <1>2, StepsInside DEF OnlyUpServes, StopServer, Idle
<1> QED
    BY <1>1, <1>2

\* The account BootstrapAdmin inserted is still nobody's when it gets its role.
LEMMA BootstrapPreserved == Inv /\ [Next]_vars => BootstrapIsNobodys'
<1> SUFFICES ASSUME Inv, [Next]_vars, server' = "bootstrap"
             PROVE  owner'[BootstrapUser] = NoPerson
    BY DEF BootstrapIsNobodys
<1>1. CASE StartServer
    BY <1>1, AccessAssumption DEF StartServer, Inv, TypeOK
<1>2. CASE server = "bootstrap"
    BY <1>2, StepsOutside DEF Inv, BootstrapIsNobodys, StopServer, tables, vars,
       BootstrapRole, StartServer
<1>3. CASE server = "up"
    BY <1>3, StepsInside DEF StopServer
<1>4. CASE server = "down"
    BY <1>1, <1>4, StepsOutside DEF BootstrapRole, StopServer, vars
<1> QED
    BY <1>2, <1>3, <1>4 DEF Inv, TypeOK

\* Every step keeps the invariant.
LEMMA Inductive == Inv /\ [Next]_vars => Inv'
<1> SUFFICES ASSUME Inv, [Next]_vars PROVE Inv'
    OBVIOUS
<1> QED
    BY TypePreserved, StaffPreserved, GrantsPreserved, RequestsPreserved,
       LoginsPreserved, OnlyUpPreserved, BootstrapPreserved DEF Inv

\* Every reachable state satisfies the invariant.
LEMMA Invariance == Spec => []Inv
    BY InitEstablishes, Inductive, PTL DEF Spec

\* Every reachable state has its type: expired entries keep a lifetime of zero,
\* and requests remember accounts and people that exist (session.go, store.go).
THEOREM TypeOKAlways == Spec => []TypeOK
<1>1. Inv => TypeOK
    BY DEF Inv
<1> QED
    BY <1>1, Invariance, PTL

\* No session acts in a role its account was never given, or whose job its
\* person does not hold (handler.go:1373, 5369).
THEOREM RightsAlwaysEarned == Spec => []RightsAreEarned
<1>1. Inv => RightsAreEarned
  <2> SUFFICES ASSUME Inv, NEW tok \in Tokens, logins[tok] # NoLogin,
                      NEW role \in logins[tok].roles
               PROVE  /\ grants[logins[tok].user][role] # "none"
                      /\ Earned(logins[tok].user, role)
                      /\ role = "Teacher" => Earned(logins[tok].user, "Admin")
    BY DEF RightsAreEarned
  <2>1. logins[tok].user \in Users /\ role \in Roles
    BY DEF Inv, TypeOK, Login
  <2>2. grants[logins[tok].user][role] # "none"
    BY DEF Inv, LoginsAreGranted
  <2>3. Earned(logins[tok].user, role)
    BY <2>1, <2>2 DEF Inv, GrantsAreEarned
  <2>4. role = "Teacher" => Earned(logins[tok].user, "Admin")
    BY <2>1, <2>3 DEF Inv, TypeOK, TeachersAreStaff, Earned
  <2> QED
    BY <2>2, <2>3, <2>4
<1> QED
    BY <1>1, Invariance, PTL
=============================================================================
