------------------------------- MODULE RBACManager -------------------------------
(***************************************************************************)
(* auth/rbac.ts and auth/middleware.ts: identities with roles, the permissions    *)
(* cached of them, and a request's way through authenticate, rateLimitByRole and     *)
(* requirePermission, which is one step: nothing in it waits.  Identities are never   *)
(* removed and only registering one anew makes it active again.  What is signed is     *)
(* named by the minute it is stamped with: the same request is taken as often as it     *)
(* comes while that minute is near.                                                    *)
(***************************************************************************)
EXTENDS Integers, Sequences, FiniteSets, Maps

CONSTANTS
    Identities,
    StampWindow,  \* minutes, 5 in the code
    RateWindow,   \* minutes of the limiter, 1 in the code
    RoleLimits,   \* role -> requests let through in one
    IdleLimit,    \* minutes, of a request with timeRestricted
    MaxMinute,    \* bound: minutes that pass
    MaxServed     \* bound: requests served

VARIABLES
    minute,
    identities,       \* id -> [roles, permissions, isActive, lastActive]
    permissionCache,  \* id -> permissions
    requestCounts,    \* <<id, role>> -> [count, resetTime]
    served            \* the requests let through: <<[id, role, at]>>

rbacVars == <<minute, identities, permissionCache, requestCounts, served>>

NodeRoles == {"authority", "validator", "peer"}

\* initializeDefaultRoles: one permission of each group of those that go together.
RolePermissions(role) ==
    {"ledger:read", "transaction:submit"}
    \cup (IF role \in {"validator", "authority"} THEN {"block:propose"} ELSE {})
    \cup (IF role = "authority" THEN {"admin:configure"} ELSE {})
NodePermissions == {"ledger:read", "transaction:submit", "block:propose", "admin:configure"}

CalculatePermissions(roles) == UNION {RolePermissions(r) : r \in roles}

Init ==
    /\ minute = 0 /\ identities = Empty /\ permissionCache = Empty
    /\ requestCounts = Empty /\ served = <<>>

-----------------------------------------------------------------------------
\* registerIdentity of a valid one, anew too: it has a role at least.
RegisterIdentity(id, roles) ==
    /\ roles # {}
    /\ identities' = Put(identities, id, [roles |-> roles, permissions |-> CalculatePermissions(roles),
                                          isActive |-> TRUE, lastActive |-> minute])
    /\ permissionCache' = Put(permissionCache, id, CalculatePermissions(roles))
    /\ UNCHANGED <<minute, requestCounts, served>>

\* updateIdentityRoles, of one with none left too and of an inactive one.
UpdateIdentityRoles(id, roles) ==
    /\ id \in DOMAIN identities
    /\ identities' = [identities EXCEPT ![id].roles = roles, ![id].permissions = CalculatePermissions(roles),
                                        ![id].lastActive = minute]
    /\ permissionCache' = Put(permissionCache, id, CalculatePermissions(roles))
    /\ UNCHANGED <<minute, requestCounts, served>>

\* Mutant of DeactivateIdentity: the permissions go, but not those cached.
DeactivateIdentityUncached(id) ==
    /\ id \in DOMAIN identities
    /\ identities' = [identities EXCEPT ![id].isActive = FALSE, ![id].permissions = {}, ![id].lastActive = minute]
    /\ UNCHANGED <<minute, permissionCache, requestCounts, served>>

DeactivateIdentity(id) ==
    /\ id \in DOMAIN identities
    /\ identities' = [identities EXCEPT ![id].isActive = FALSE, ![id].lastActive = minute]
    /\ UNCHANGED <<minute, permissionCache, requestCounts, served>>

-----------------------------------------------------------------------------
\* performContextCheck; of its three the network's is left out.
ContextCheck(id, context) ==
    /\ context = "timeRestricted" => minute - identities[id].lastActive <= IdleLimit
    /\ context = "emergencyMode" => "authority" \in identities[id].roles

\* hasPermission; hasPermissions and hasAnyPermission ask it for each.
HasPermission(id, p, context) ==
    /\ id \in DOMAIN identities /\ identities[id].isActive
    /\ p \in Get(permissionCache, id, identities[id].permissions)
    /\ ContextCheck(id, context)

\* authenticate: a GET needs no signature, another request one near its stamp.
Authenticated(id, get, stamp) ==
    /\ id \in DOMAIN identities /\ identities[id].isActive
    /\ get \/ stamp - minute \in (-StampWindow)..StampWindow

\* The highest role; whoever has none is a peer.
RateRole(id) ==
    CASE "authority" \in identities[id].roles -> "authority"
      [] "authority" \notin identities[id].roles /\ "validator" \in identities[id].roles -> "validator"
      [] OTHER -> "peer"

Current(key) == key \in DOMAIN requestCounts /\ minute <= requestCounts[key].resetTime

\* What rateLimitByRole does of a request it lets through.
Counted(key) ==
    IF Current(key) THEN [requestCounts EXCEPT ![key].count = @ + 1]
    ELSE Put(requestCounts, key, [count |-> 1, resetTime |-> minute + RateWindow])

\* A request that needs a permission, in a context; one that lacks it has been
\* counted all the same.
Request(id, get, stamp, p, context) ==
    LET role == RateRole(id)
        key == <<id, role>>
    IN  /\ Authenticated(id, get, stamp)
        /\ Current(key) => requestCounts[key].count < RoleLimits[role]
        /\ Len(served) < MaxServed
        /\ requestCounts' = Counted(key)
        /\ served' = IF HasPermission(id, p, context)
                     THEN Append(served, [id |-> id, role |-> role, at |-> minute]) ELSE served
        /\ UNCHANGED <<minute, identities, permissionCache>>

MinutePasses ==
    /\ minute < MaxMinute /\ minute' = minute + 1
    /\ UNCHANGED <<identities, permissionCache, requestCounts, served>>

Next ==
    \/ \E id \in Identities :
        \/ \E roles \in SUBSET NodeRoles : RegisterIdentity(id, roles) \/ UpdateIdentityRoles(id, roles)
        \/ DeactivateIdentity(id)
        \/ \E p \in NodePermissions : \E context \in {"none", "timeRestricted", "emergencyMode"} :
              \E get \in BOOLEAN : Request(id, get, 0, p, context)
    \/ MinutePasses

Spec == Init /\ [][Next]_rbacVars

-----------------------------------------------------------------------------
TypeOK ==
    /\ minute \in 0..MaxMinute
    /\ IsMap(identities, Identities, [roles : SUBSET NodeRoles, permissions : SUBSET NodePermissions,
                                      isActive : BOOLEAN, lastActive : 0..minute])
    /\ IsMap(permissionCache, Identities, SUBSET NodePermissions)
    /\ IsMap(requestCounts, Identities \X NodeRoles, [count : Nat, resetTime : 0..(MaxMinute + RateWindow)])
    /\ \A i \in DOMAIN served : served[i] \in [id : Identities, role : NodeRoles, at : 0..minute]

\* Whatever was registered, changed and deactivated, a lookup answers from the
\* roles the identity has now: the cache and the identity agree with them, and in
\* an emergency only an authority passes.
CacheFollowsRoles ==
    /\ DOMAIN permissionCache = DOMAIN identities
    /\ \A id \in DOMAIN identities :
          /\ permissionCache[id] = CalculatePermissions(identities[id].roles)
          /\ permissionCache[id] = identities[id].permissions
          /\ \A p \in NodePermissions : HasPermission(id, p, "emergencyMode") => "authority" \in identities[id].roles

\* In any stretch that is no longer than a window and the minutes at its two ends
\* an identity gets no more than twice its role's limit of requests through: the
\* windows are fixed and do not slide, and end when they should, whatever roles
\* the identity had in between.
RateIsLimited ==
    \A id \in Identities : \A role \in NodeRoles : \A from \in 0..MaxMinute :
        LET through == {i \in DOMAIN served : /\ served[i].id = id /\ served[i].role = role
                                              /\ served[i].at \in from..(from + RateWindow + 1)}
        IN  Cardinality(through) <= 2 * RoleLimits[role]
=============================================================================
