-------------------------------- MODULE Access --------------------------------
(***************************************************************************)
(* People, their accounts and roles, and the login sessions that copy      *)
(* those roles.                                                            *)
(*                                                                         *)
(* The database tables people, staff, teachers, students, app_users and    *)
(* app_user_roles outlive the server; the map of login sessions does not.  *)
(* A session is never renewed: it is served until its lifetime has run     *)
(* out, with the roles its login read.  Handlers that issue two statements *)
(* take two steps, and the server may stop between them.                   *)
(*                                                                         *)
(* Usernames stand for accounts, every password is right, and nothing      *)
(* under src/ clears app_users.is_active, so none of these is kept.        *)
(***************************************************************************)
EXTENDS Integers

CONSTANTS
    Persons,
    Users,          \* bound: rows that app_users can hold
    BootstrapUser,  \* the account named in BOOTSTRAP_ADMIN_USER
    Tokens,         \* bound: entries that the session map can hold
    Requests,       \* bound: multi-statement requests under way at once
    RoleForms,      \* bound: the roles that the person screen adds
    TTL,            \* a session's lifetime, 8 hours in the code
    NoPerson, NoAccount, NoLogin, NoUser

Jobs == {"Student", "Staff", "Teacher"}

Roles == Jobs \cup {"Admin"}

ASSUME AccessAssumption ==
    /\ BootstrapUser \in Users
    /\ RoleForms \subseteq Jobs
    /\ TTL \in Nat \ {0}
    /\ NoPerson \notin Persons
    /\ NoAccount \notin Persons \cup {NoPerson}
    /\ NoUser \notin Users

Login == [user: Users, roles: SUBSET Roles, left: 0 .. TTL]

ASSUME NoLoginAssumption == NoLogin \notin Login

VARIABLES
    server,     \* "down", "bootstrap" between the two inserts, or "up"
    people,     \* the rows of people
    jobs,       \* which of students, staff and teachers has the person's row
    owner,      \* app_users: account -> app_users.person_id
    grants,     \* app_user_roles: account -> role -> its latest row
    logins,     \* auth.Sessions.data: token -> entry
    requests    \* requests between two of their statements

vars == <<server, people, jobs, owner, grants, logins, requests>>

tables == <<people, jobs, owner, grants>>

Idle == [pc |-> "idle", user |-> NoUser, person |-> NoPerson, roles |-> {}]

Request ==
    [pc: {"idle", "login", "account", "grant"},
     user: Users \cup {NoUser},
     person: Persons \cup {NoPerson},
     roles: SUBSET Roles]

Ungranted == [role \in Roles |-> "none"]

TypeOK ==
    /\ server \in {"down", "bootstrap", "up"}
    /\ people \subseteq Persons
    /\ jobs \in [Persons -> SUBSET Jobs]
    /\ owner \in [Users -> Persons \cup {NoPerson, NoAccount}]
    /\ grants \in [Users -> [Roles -> {"none", "active", "revoked"}]]
    /\ logins \in [Tokens -> Login \cup {NoLogin}]
    /\ requests \in [Requests -> Request]

Init ==
    /\ server = "down"
    /\ people = {}
    /\ jobs = [p \in Persons |-> {}]
    /\ owner = [u \in Users |-> NoAccount]
    /\ grants = [u \in Users |-> Ungranted]
    /\ logins = [tok \in Tokens |-> NoLogin]
    /\ requests = [r \in Requests |-> Idle]

-----------------------------------------------------------------------------
Accounts == {u \in Users : owner[u] # NoAccount}

ActiveRoles(u) == {role \in Roles : grants[u][role] = "active"}

\* Mutant: the middleware looks the token up and forgets the expiry.
ServedForever(tok) == logins[tok] # NoLogin

\* The middleware lets the request through.
Served(tok) == logins[tok] # NoLogin /\ logins[tok].left > 0

\* Some request passes the permission check of an administration screen.  Any
\* role may have been given any permission; a session without a role has none.
MayManage == \E tok \in Tokens : Served(tok) /\ logins[tok].roles # {}

\* A handler goes on to its next statement.
Continue(r, pc, person, roles) ==
    requests' = [requests EXCEPT ![r] =
        [pc |-> pc, user |-> NoUser, person |-> person, roles |-> roles]]

Finish(r) == requests' = [requests EXCEPT ![r] = Idle]

-----------------------------------------------------------------------------
(* The server starts and stops. *)

\* BootstrapAdmin: the account, when there is none at all.  Each of its two
\* inserts commits by itself.
StartServer ==
    /\ server = "down"
    /\ IF Accounts = {}
       THEN /\ owner' = [owner EXCEPT ![BootstrapUser] = NoPerson]
            /\ server' = "bootstrap"
       ELSE /\ server' = "up"
            /\ UNCHANGED owner
    /\ UNCHANGED <<people, jobs, grants, logins, requests>>

BootstrapRole ==
    /\ server = "bootstrap"
    /\ grants' = [grants EXCEPT ![BootstrapUser]["Admin"] = "active"]
    /\ server' = "up"
    /\ UNCHANGED <<people, jobs, owner, logins, requests>>

StopServer ==
    /\ server # "down"
    /\ server' = "down"
    /\ logins' = [tok \in Tokens |-> NoLogin]
    /\ requests' = [r \in Requests |-> Idle]
    /\ UNCHANGED tables

-----------------------------------------------------------------------------
(* Signing in and out. *)

\* LoginPost reads the account with its active roles ...
ReadUser(r) ==
    /\ server = "up" /\ requests[r].pc = "idle"
    /\ \E u \in Accounts :
        requests' = [requests EXCEPT ![r] =
            [Idle EXCEPT !.pc = "login", !.user = u, !.roles = ActiveRoles(u)]]
    /\ UNCHANGED <<server, tables, logins>>

\* ... and, once the password is checked, opens a session with what it read.
\* None of the steps in between looks at the request's context.
OpenSession(r) ==
    /\ requests[r].pc = "login"
    /\ \E tok \in Tokens :
        /\ logins[tok] = NoLogin
        /\ logins' = [logins EXCEPT ![tok] =
                [user |-> requests[r].user, roles |-> requests[r].roles, left |-> TTL]]
    /\ Finish(r)
    /\ UNCHANGED <<server, tables>>

Logout ==
    /\ \E tok \in Tokens :
        /\ logins[tok] # NoLogin
        /\ logins' = [logins EXCEPT ![tok] = NoLogin]
    /\ UNCHANGED <<server, tables, requests>>

\* Mutant: an entry's time goes on running after it has expired.
Kept(tok) == logins[tok] # NoLogin

Running(tok) == logins[tok] # NoLogin /\ logins[tok].left # 0

\* Time passes.  Expired entries stay in the map.
Tick ==
    /\ \E tok \in Tokens : Running(tok)
    /\ logins' = [tok \in Tokens |->
            IF Running(tok) THEN [logins[tok] EXCEPT !.left = @ - 1] ELSE logins[tok]]
    /\ UNCHANGED <<server, tables, requests>>

-----------------------------------------------------------------------------
(* People, their accounts and their roles. *)

\* AdminPersonCreate inserts the person ...
CreatePerson(r) ==
    /\ MayManage /\ requests[r].pc = "idle"
    /\ \E p \in Persons \ people :
        /\ people' = people \cup {p}
        /\ Continue(r, "account", p, {})
    /\ UNCHANGED <<server, jobs, owner, grants, logins>>

\* ... then the account; when that fails, the error is logged and no more.
CreateUserForPerson(r) ==
    /\ requests[r].pc = "account"
    /\ \E u \in Users \ Accounts :
        owner' = [owner EXCEPT ![u] = requests[r].person]
    /\ Finish(r)
    /\ UNCHANGED <<server, people, jobs, grants, logins>>

\* Mutant: the role is granted although the person could not get the job.
AddRoleGrantsAnyway(r) ==
    /\ MayManage /\ requests[r].pc = "idle"
    /\ \E p \in people, job \in RoleForms :
        /\ jobs' = IF job = "Teacher" /\ "Staff" \notin jobs[p]
                   THEN jobs
                   ELSE [jobs EXCEPT ![p] = @ \cup {job}]
        /\ Continue(r, "grant", p, {job})
    /\ UNCHANGED <<server, people, owner, grants, logins>>

\* AdminRoleAdd: the row of students, staff or teachers ...  Only staff become
\* teachers.
AddRole(r) ==
    /\ MayManage /\ requests[r].pc = "idle"
    /\ \E p \in people, job \in RoleForms :
        /\ job = "Teacher" => "Staff" \in jobs[p]
        /\ jobs' = [jobs EXCEPT ![p] = @ \cup {job}]
        /\ Continue(r, "grant", p, {job})
    /\ UNCHANGED <<server, people, owner, grants, logins>>

\* ... then the role, for every account the person has by now.
GrantAppUserRole(r) ==
    /\ requests[r].pc = "grant"
    /\ grants' = [u \in Users |->
            IF owner[u] = requests[r].person
            THEN [role \in Roles |->
                    IF role \in requests[r].roles THEN "active" ELSE grants[u][role]]
            ELSE grants[u]]
    /\ Finish(r)
    /\ UNCHANGED <<server, people, jobs, owner, logins>>

\* The second statement fails, or the client is gone before it.
SecondStatementFails(r) ==
    /\ requests[r].pc \in {"account", "grant"}
    /\ Finish(r)
    /\ UNCHANGED <<server, tables, logins>>

\* SystemUserCreate: an account of its own for a member of staff, and its role,
\* in one transaction.  No code takes a person off the staff, so what the
\* checks before it saw still holds.
CreateAdminUserForPerson ==
    /\ MayManage
    /\ \E p \in people, u \in Users \ Accounts :
        /\ "Staff" \in jobs[p]
        /\ owner' = [owner EXCEPT ![u] = p]
        /\ grants' = [grants EXCEPT ![u]["Admin"] = "active"]
    /\ UNCHANGED <<server, people, jobs, logins, requests>>

RevokeAdminRole ==
    /\ MayManage
    /\ \E u \in Users :
        /\ grants[u]["Admin"] = "active"
        /\ grants' = [grants EXCEPT ![u]["Admin"] = "revoked"]
    /\ UNCHANGED <<server, people, jobs, owner, logins, requests>>

\* Opening the list of administrators revokes those no longer on the staff.
AutoRevokeNonStaffAdmins ==
    /\ MayManage
    /\ grants' = [u \in Users |->
            IF owner[u] \in Persons /\ "Staff" \notin jobs[owner[u]]
                /\ grants[u]["Admin"] = "active"
            THEN [grants[u] EXCEPT !["Admin"] = "revoked"]
            ELSE grants[u]]
    /\ UNCHANGED <<server, people, jobs, owner, logins, requests>>

-----------------------------------------------------------------------------
Next ==
    \/ StartServer
    \/ BootstrapRole
    \/ StopServer
    \/ \E r \in Requests :
        \/ ReadUser(r)
        \/ OpenSession(r)
        \/ CreatePerson(r)
        \/ CreateUserForPerson(r)
        \/ AddRole(r)
        \/ GrantAppUserRole(r)
        \/ SecondStatementFails(r)
    \/ Logout
    \/ Tick
    \/ CreateAdminUserForPerson
    \/ RevokeAdminRole
    \/ AutoRevokeNonStaffAdmins

Spec == Init /\ [][Next]_vars

\* Time passes, and a login that has read its account runs to its end.
Fairness ==
    /\ WF_vars(Tick)
    /\ \A r \in Requests : WF_vars(OpenSession(r))

FairSpec == Spec /\ Fairness

-----------------------------------------------------------------------------
\* The job a role stands for: administrators come from the staff, except the
\* bootstrap account, which belongs to nobody.
Earned(u, role) ==
    \/ owner[u] = NoPerson
    \/ /\ owner[u] \in people
       /\ IF role = "Admin"
          THEN "Staff" \in jobs[owner[u]]
          ELSE role \in jobs[owner[u]]

\* Whoever a session acts as, its account was given that role, and its person
\* holds the job behind it: no failed request, restart, stale login or order of
\* the role screens makes a teacher of somebody who is not on the staff
\* (handler.go:1373, 5369, store.go:488).
RightsAreEarned ==
    \A tok \in Tokens : logins[tok] # NoLogin =>
        \A role \in logins[tok].roles :
            /\ grants[logins[tok].user][role] # "none"
            /\ Earned(logins[tok].user, role)
            /\ role = "Teacher" => Earned(logins[tok].user, "Admin")

AdminAtWork(u) ==
    \E tok \in Tokens :
        Served(tok) /\ logins[tok].user = u /\ "Admin" \in logins[tok].roles

\* Nobody is told of a revocation, yet it takes hold in the end: sessions that
\* copied the role run out and logins that read it before come to an end, after
\* which no request of the account is served as an administrator again
\* (session.go:69, store.go:623).
RevokedRightsLapse ==
    \A u \in Users :
        <>[](grants[u]["Admin"] = "revoked") => <>[](~AdminAtWork(u))

-----------------------------------------------------------------------------
(* What the repository's documents and comments say, and the code does not. *)

\* nvims.sql: the key of app_user_roles "allows the same role to be re-granted
\* after revocation".  Somebody at work on the screens, which make administrators
\* in one step, can make an account one again if it still has what made it one.
RevokedRoleReturns ==
    \A u \in Users :
        (MayManage /\ grants[u]["Admin"] = "revoked" /\ Earned(u, "Admin"))
            => ENABLED (Next /\ grants'[u]["Admin"] = "active")
=============================================================================
