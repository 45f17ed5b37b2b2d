------------------------------- MODULE Roster -------------------------------
(***************************************************************************)
(* What the administration of rights promises, in names only: who has      *)
(* which role and is in which group, and what role, permission and group   *)
(* of a name are worth.  A name that is used again starts from nothing.    *)
(***************************************************************************)
CONSTANTS User, RoleName, PermissionName, GroupName, Grants, Nothing

VARIABLES
    roles,          \* per role that exists, what it grants
    permissions,    \* per permission that exists, what it grants
    groups,         \* per group that exists, its permission
    members,        \* per group that exists, the users in it
    roleOf          \* per user, the role or Nothing

rosterVars == <<roles, permissions, groups, members, roleOf>>

Defined(f, n, v) == [x \in DOMAIN f \union {n} |-> IF x = n THEN v ELSE f[x]]
Dropped(f, n) == [x \in DOMAIN f \ {n} |-> f[x]]

Init ==
    /\ roles = << >> /\ permissions = << >> /\ groups = << >> /\ members = << >>
    /\ roleOf = [u \in User |-> Nothing]

CreateRole(n, g) ==
    /\ n \notin DOMAIN roles
    /\ roles' = Defined(roles, n, g)
    /\ UNCHANGED <<permissions, groups, members, roleOf>>

EditRole(n, g) ==
    /\ n \in DOMAIN roles
    /\ roles' = Defined(roles, n, g)
    /\ UNCHANGED <<permissions, groups, members, roleOf>>

DeleteRole(n) ==
    /\ n \in DOMAIN roles
    /\ roles' = Dropped(roles, n)
    /\ roleOf' = [u \in User |-> IF roleOf[u] = n THEN Nothing ELSE roleOf[u]]
    /\ UNCHANGED <<permissions, groups, members>>

AssignRole(u, n) ==
    /\ n \in DOMAIN roles
    /\ roleOf' = [roleOf EXCEPT ![u] = n]
    /\ UNCHANGED <<roles, permissions, groups, members>>

CreatePermission(n, g) ==
    /\ n \notin DOMAIN permissions
    /\ permissions' = Defined(permissions, n, g)
    /\ UNCHANGED <<roles, groups, members, roleOf>>

EditPermission(n, g) ==
    /\ n \in DOMAIN permissions
    /\ permissions' = Defined(permissions, n, g)
    /\ UNCHANGED <<roles, groups, members, roleOf>>

DeletePermission(n) ==
    /\ \A g \in DOMAIN groups : groups[g] # n
    /\ permissions' = Dropped(permissions, n)
    /\ UNCHANGED <<roles, groups, members, roleOf>>

CreateGroup(n, p) ==
    /\ n \notin DOMAIN groups /\ p \in DOMAIN permissions
    /\ groups' = Defined(groups, n, p)
    /\ members' = Defined(members, n, {})
    /\ UNCHANGED <<roles, permissions, roleOf>>

DeleteGroup(n) ==
    /\ groups' = Dropped(groups, n)
    /\ members' = Dropped(members, n)
    /\ UNCHANGED <<roles, permissions, roleOf>>

Join(u, n) ==
    /\ n \in DOMAIN groups
    /\ members' = [members EXCEPT ![n] = @ \union {u}]
    /\ UNCHANGED <<roles, permissions, groups, roleOf>>

Leave(u, n) ==
    /\ n \in DOMAIN groups
    /\ members' = [members EXCEPT ![n] = @ \ {u}]
    /\ UNCHANGED <<roles, permissions, groups, roleOf>>

Next ==
    \/ \E n \in RoleName, g \in Grants : CreateRole(n, g) \/ EditRole(n, g)
    \/ \E n \in RoleName, u \in User : DeleteRole(n) \/ AssignRole(u, n)
    \/ \E n \in PermissionName, g \in Grants : CreatePermission(n, g) \/ EditPermission(n, g)
    \/ \E n \in PermissionName : DeletePermission(n)
    \/ \E n \in GroupName, p \in PermissionName : CreateGroup(n, p)
    \/ \E n \in GroupName, u \in User : DeleteGroup(n) \/ Join(u, n) \/ Leave(u, n)

Spec == Init /\ [][Next]_rosterVars

(* What the groups of u permit together. *)
Permitted(u) == UNION {permissions[groups[g]] : g \in {x \in DOMAIN groups : u \in members[x]}}
=============================================================================
