--------------------------- MODULE PermissionManager ---------------------------
(***************************************************************************)
(* core/accesscontrol/PermissionManager.ts: users with a role and a list of   *)
(* permissions.  A user made without a list of his own, or moved to another     *)
(* role, holds the very array the role table holds: what is granted to or taken    *)
(* from him is granted to or taken from everyone else who holds it, and from         *)
(* whoever gets the role later.  Every custom policy grants, so none is here.         *)
(* A user's id is made of his address and the millisecond, so an address made       *)
(* again in the same one replaces its user and one made later has two.             *)
(***************************************************************************)
EXTENDS Integers, Sequences, FiniteSets, Maps

CONSTANTS
    Addresses,
    PMRoles,
    PMPermissions,
    DefaultPermissions,  \* role -> the permissions the constructor gives it
    MaxMs                \* bound: milliseconds that pass

VARIABLES
    ms,
    rolePermissions,  \* role -> permissions, an array users hold too
    pmUsers,          \* <<address, ms>> -> [role, own, shares, isActive]
    accessLog         \* the permissions the log has PERMISSION_GRANTED entries of

pmVars == <<ms, rolePermissions, pmUsers, accessLog>>

UserIds == Addresses \X (0..MaxMs)

\* initializeDefaultRoles
Init ==
    /\ ms = 0
    /\ rolePermissions = DefaultPermissions
    /\ pmUsers = Empty /\ accessLog = {}

\* The array a user holds: the one the role of that name has, or his own.
PermissionsHeld(u) ==
    IF pmUsers[u].shares = {} THEN pmUsers[u].own ELSE UNION {rolePermissions[r] : r \in pmUsers[u].shares}

\* createUser and the three made of it: without a list, shares is the role.
CreateUser(address, role, own, shares) ==
    /\ pmUsers' = Put(pmUsers, <<address, ms>>, [role |-> role, own |-> own, shares |-> shares, isActive |-> TRUE])
    /\ UNCHANGED <<ms, rolePermissions, accessLog>>

UpdateUserRole(u, role) ==
    /\ u \in DOMAIN pmUsers
    /\ pmUsers' = [pmUsers EXCEPT ![u].role = role, ![u].shares = {role}, ![u].own = {}]
    /\ UNCHANGED <<ms, rolePermissions, accessLog>>

\* The array changed in place.
SetPermissions(u, permissions) ==
    IF pmUsers[u].shares = {}
    THEN /\ pmUsers' = [pmUsers EXCEPT ![u].own = permissions]
         /\ UNCHANGED rolePermissions
    ELSE /\ rolePermissions' = [r \in PMRoles |-> IF r \in pmUsers[u].shares THEN permissions ELSE rolePermissions[r]]
         /\ UNCHANGED pmUsers

GrantPermission(u, p) ==
    /\ u \in DOMAIN pmUsers /\ pmUsers[u].isActive /\ p \notin PermissionsHeld(u)
    /\ SetPermissions(u, PermissionsHeld(u) \cup {p})
    /\ accessLog' = accessLog \cup {p}
    /\ UNCHANGED ms

\* An inactive user's too.
RevokePermission(u, p) ==
    /\ u \in DOMAIN pmUsers /\ p \in PermissionsHeld(u)
    /\ SetPermissions(u, PermissionsHeld(u) \ {p})
    /\ UNCHANGED <<ms, accessLog>>

\* hasPermission, and checkAccess, which only adds a log entry.
HasPermission(u, p) == u \in DOMAIN pmUsers /\ pmUsers[u].isActive /\ p \in PermissionsHeld(u)

\* findUserByAddress finds the one made first, active or not.
HasPermissionByAddress(address, p) ==
    \E u \in DOMAIN pmUsers :
        /\ u[1] = address /\ HasPermission(u, p)
        /\ \A other \in DOMAIN pmUsers : other[1] = address => other[2] >= u[2]

\* deactivateUser, activateUser
SwitchUser(u, active) ==
    /\ u \in DOMAIN pmUsers
    /\ pmUsers' = [pmUsers EXCEPT ![u].isActive = active]
    /\ UNCHANGED <<ms, rolePermissions, accessLog>>

MillisecondPasses ==
    /\ ms < MaxMs /\ ms' = ms + 1
    /\ UNCHANGED <<rolePermissions, pmUsers, accessLog>>

Next ==
    \/ \E address \in Addresses : \E role \in PMRoles :
        \/ CreateUser(address, role, {}, {role})
        \/ \E own \in SUBSET PMPermissions : CreateUser(address, role, own, {})
    \/ \E u \in UserIds :
        \/ \E role \in PMRoles : UpdateUserRole(u, role)
        \/ \E p \in PMPermissions : GrantPermission(u, p) \/ RevokePermission(u, p)
        \/ \E active \in BOOLEAN : SwitchUser(u, active)
    \/ MillisecondPasses

Spec == Init /\ [][Next]_pmVars

-----------------------------------------------------------------------------
TypeOK ==
    /\ ms \in 0..MaxMs
    /\ rolePermissions \in [PMRoles -> SUBSET PMPermissions]
    /\ IsMap(pmUsers, UserIds, [role : PMRoles, own : SUBSET PMPermissions,
                                shares : SUBSET PMRoles, isActive : BOOLEAN])
    /\ accessLog \subseteq PMPermissions

\* What a role gives beyond what it was set up with, somebody was granted, and
\* the log says to whom; so whoever has a permission by his address, by a role
\* he was given or by the array he shares, has it from the table, from his own
\* list or from such a grant.
AuthorityIsGranted ==
    /\ \A r \in PMRoles : rolePermissions[r] \ DefaultPermissions[r] \subseteq accessLog
    /\ \A address \in Addresses : \A p \in PMPermissions :
          HasPermissionByAddress(address, p) =>
              \E u \in DOMAIN pmUsers :
                  u[1] = address /\ p \in DefaultPermissions[pmUsers[u].role] \cup pmUsers[u].own \cup accessLog
=============================================================================
