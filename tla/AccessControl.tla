----------------------------- MODULE AccessControl -----------------------------
(***************************************************************************)
(* core/compliance/AccessControl.ts with the default configuration: users,    *)
(* their roles, their permissions and their sessions.  A user is made with      *)
(* the very list of roles the caller passed, and a list passed twice is one     *)
(* list of two users.  No operation makes a policy, so the attribute check        *)
(* never denies; nobody has multi-factor authentication, and no user, role or     *)
(* permission is ever made inactive.  A password is right or wrong.            *)
(***************************************************************************)
EXTENDS Integers, FiniteSets, Maps

CONSTANTS
    Accounts,         \* the users that may be made
    Roles,
    Permissions,
    MaxLoginAttempts, \* 5 in the code
    SessionTimeout,   \* in the model's units: 30 minutes in the code
    MaxTime,          \* bound: time that passes
    MaxSessions       \* bound: sessions made

VARIABLES
    time,
    roles,        \* role -> its permissions
    roleLists,    \* the lists of roles users were made with
    users,        \* user -> [list, permissions, loginAttempts, isLocked]
    sessions,     \* session -> [user, expiresAt, isActive]
    accessRequests \* the granted requests logged: {<<user, permission>>}

accessVars == <<time, roles, roleLists, users, sessions, accessRequests>>

Init ==
    /\ time = 0
    /\ roles = Empty /\ roleLists = Empty /\ users = Empty /\ sessions = Empty
    /\ accessRequests = {}

\* updateUserPermissions: those of the roles in his list.
PermissionsOf(list) == UNION {roles[r] : r \in list}

CreateRole(r, permissions) ==
    /\ r \notin DOMAIN roles
    /\ roles' = Put(roles, r, permissions)
    /\ UNCHANGED <<time, roleLists, users, sessions, accessRequests>>

\* createUser, with a list of the caller's or with one he used before.  An id
\* that names no role stays in the list to no effect.
CreateUser(u, l, list) ==
    /\ u \notin DOMAIN users
    /\ IF l \in DOMAIN roleLists THEN list = roleLists[l] ELSE list \subseteq DOMAIN roles
    /\ roleLists' = Put(roleLists, l, list)
    /\ users' = Put(users, u, [list |-> l, permissions |-> PermissionsOf(list), loginAttempts |-> 0, isLocked |-> FALSE])
    /\ UNCHANGED <<time, roles, sessions, accessRequests>>

SetRoles(u, list) ==
    /\ roleLists' = [roleLists EXCEPT ![users[u].list] = list]
    /\ users' = [users EXCEPT ![u].permissions = PermissionsOf(list)]
    /\ UNCHANGED <<time, roles, sessions, accessRequests>>

AssignRole(u, r) ==
    /\ u \in DOMAIN users /\ r \in DOMAIN roles /\ r \notin roleLists[users[u].list]
    /\ SetRoles(u, roleLists[users[u].list] \cup {r})

RemoveRole(u, r) ==
    /\ u \in DOMAIN users /\ r \in roleLists[users[u].list]
    /\ SetRoles(u, roleLists[users[u].list] \ {r})

-----------------------------------------------------------------------------
\* authenticate: a wrong password counts and may lock; nothing unlocks.
FailToAuthenticate(u) ==
    /\ u \in DOMAIN users /\ ~users[u].isLocked
    /\ users' = [users EXCEPT ![u].loginAttempts = @ + 1,
                              ![u].isLocked = users[u].loginAttempts + 1 >= MaxLoginAttempts]
    /\ UNCHANGED <<time, roles, roleLists, sessions, accessRequests>>

\* The right one starts a session (createSession), besides those there are.
Authenticate(u) ==
    /\ u \in DOMAIN users /\ ~users[u].isLocked /\ Cardinality(DOMAIN sessions) < MaxSessions
    /\ users' = [users EXCEPT ![u].loginAttempts = 0]
    /\ sessions' = Put(sessions, Cardinality(DOMAIN sessions) + 1,
                       [user |-> u, expiresAt |-> time + SessionTimeout, isActive |-> TRUE])
    /\ UNCHANGED <<time, roles, roleLists, accessRequests>>

\* validateSession: the session of a user locked since is as valid as any, and
\* being used does not prolong it.
Valid(s) == sessions[s].isActive /\ time <= sessions[s].expiresAt
ValidateSession(s) ==
    /\ s \in DOMAIN sessions
    /\ sessions' = [sessions EXCEPT ![s].isActive = Valid(s)]
    /\ UNCHANGED <<time, roles, roleLists, users, accessRequests>>

Logout(s) ==
    /\ s \in DOMAIN sessions
    /\ sessions' = [sessions EXCEPT ![s].isActive = FALSE]
    /\ UNCHANGED <<time, roles, roleLists, users, accessRequests>>

\* cleanupExpiredSessions, every minute: none is ever taken out of the map.
CleanupExpiredSessions ==
    /\ sessions' = [s \in DOMAIN sessions |-> [sessions[s] EXCEPT !.isActive = Valid(s)]]
    /\ UNCHANGED <<time, roles, roleLists, users, accessRequests>>

-----------------------------------------------------------------------------
\* checkAccess and checkRBACAccess, of a resource and an action that one
\* permission is for: held by the user, or by a role of his list as it is now.
Granted(u, p) ==
    /\ u \in DOMAIN users /\ ~users[u].isLocked
    /\ p \in users[u].permissions \cup PermissionsOf(roleLists[users[u].list])

\* logAccessRequest: granted ones alone.
CheckAccess(u, p) ==
    /\ Granted(u, p)
    /\ accessRequests' = accessRequests \cup {<<u, p>>}
    /\ UNCHANGED <<time, roles, roleLists, users, sessions>>

TimePasses ==
    /\ time < MaxTime /\ time' = time + 1
    /\ UNCHANGED <<roles, roleLists, users, sessions, accessRequests>>

Next ==
    \/ \E r \in Roles : \E permissions \in SUBSET Permissions : CreateRole(r, permissions)
    \/ \E u \in Accounts :
        \/ \E l \in Accounts : \E list \in SUBSET Roles : CreateUser(u, l, list)
        \/ \E r \in Roles : AssignRole(u, r) \/ RemoveRole(u, r)
        \/ FailToAuthenticate(u) \/ Authenticate(u)
        \/ \E p \in Permissions : CheckAccess(u, p)
    \/ \E s \in 1..MaxSessions : ValidateSession(s) \/ Logout(s)
    \/ CleanupExpiredSessions \/ TimePasses

Spec == Init /\ [][Next]_accessVars

-----------------------------------------------------------------------------
TypeOK ==
    /\ time \in 0..MaxTime
    /\ IsMap(roles, Roles, SUBSET Permissions)
    /\ IsMap(roleLists, Accounts, SUBSET DOMAIN roles)
    /\ IsMap(users, Accounts, [list : DOMAIN roleLists, permissions : SUBSET Permissions,
                               loginAttempts : 0..MaxLoginAttempts, isLocked : BOOLEAN])
    /\ IsMap(sessions, 1..MaxSessions, [user : DOMAIN users, expiresAt : Nat, isActive : BOOLEAN])
    /\ \A request \in accessRequests : request[1] \in DOMAIN users

\* The permissions kept with a user are those of his roles, as long as nobody
\* else was made with the same list.
PermissionsMatchRoles ==
    \A u \in DOMAIN users :
        \/ users[u].permissions = PermissionsOf(roleLists[users[u].list])
        \/ \E other \in DOMAIN users \ {u} : users[other].list = users[u].list

\* A user is locked exactly when so many attempts failed in a row, and nothing
\* he could grant himself passes the check any more.
LockedByAttempts ==
    \A u \in DOMAIN users :
        /\ users[u].isLocked <=> users[u].loginAttempts = MaxLoginAttempts
        /\ users[u].isLocked => \A p \in Permissions : ~Granted(u, p)

\* A lock is final, and a session that ended or expired is over for good.
AccessEndsOnce ==
    [][/\ \A u \in DOMAIN users : users[u].isLocked => users'[u].isLocked
       /\ \A s \in DOMAIN sessions : ~Valid(s) => ~(sessions'[s].isActive /\ time' <= sessions'[s].expiresAt)]_accessVars
=============================================================================
