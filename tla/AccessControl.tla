---------------------------- MODULE AccessControl ----------------------------
(***************************************************************************)
(* Roles, permissions and groups: UserStore (bw/auth/user.py) and          *)
(* GroupStore (bw/auth/group.py) behind AuthApi, over the tables of        *)
(* bw/models/auth.py, whose rows refer to each other by serial number.     *)
(*                                                                         *)
(* Between the check of the caller's role and the reply a request does not *)
(* wait, so each is one step; the database refuses a statement that breaks *)
(* a unique column or a foreign key, and then nothing is committed.  The   *)
(* caller has a session: Accounts tells how it got it.                     *)
(***************************************************************************)
EXTENDS Naturals, Sequences, FiniteSets

CONSTANTS
    User, RoleName, PermissionName, GroupName,
    RoleGrants,         \* the sets of slots of Roles requests ask for
    PermissionGrants,   \* the same of Permissions
    MaxRows,            \* bound: rows made in a table
    Nothing

ASSUME GrantsAssumption ==
    /\ RoleGrants \subseteq SUBSET {"can_create_role", "can_create_group"}
    /\ PermissionGrants \subseteq SUBSET {"can_upload_mission", "can_test_mission"}
ASSUME MaxRowsAssumption == MaxRows \in Nat
ASSUME NothingAssumption == Nothing \notin Nat \union RoleName

VARIABLES acl, serial

accessVars == <<acl, serial>>

Id == 1..MaxRows

(* serial counts the rows each table ever had.                             *)
AccessInit ==
    /\ acl = [roles |-> {}, permissions |-> {}, groups |-> {}, members |-> {},
              role |-> [u \in User |-> Nothing]]
    /\ serial = [roles |-> 0, permissions |-> 0, groups |-> 0]

-----------------------------------------------------------------------------
(* The database *)

Unique(rows) == \A r, s \in rows : r.name = s.name => r = s
Ids(rows) == {r.id : r \in rows}

(* Unique columns and foreign keys. *)
Consistent(d) ==
    /\ Unique(d.roles) /\ Unique(d.permissions) /\ Unique(d.groups)
    /\ \A u \in User : d.role[u] \in Ids(d.roles) \union {Nothing}
    /\ \A g \in d.groups : g.permissions \in Ids(d.permissions)
    /\ \A m \in d.members : m.group \in Ids(d.groups)

(* A transaction is what the database is after each of its statements.     *)
Accepted(states) == \A i \in DOMAIN states : Consistent(states[i])

Transaction(states) ==
    /\ Accepted(states)
    /\ acl' = states[Len(states)]
    /\ UNCHANGED serial

Named(rows, n) == {r \in rows : r.name = n}
Others(rows, n) == {r \in rows : r.name # n}
Row(rows, n) == CHOOSE r \in rows : r.name = n

(* Insert a row with the next number. *)
Insert(table, row) ==
    LET new == [acl EXCEPT ![table] = @ \union {row}] IN
    /\ row.id \in Id
    /\ Consistent(new)
    /\ acl' = new
    /\ serial' = [serial EXCEPT ![table] = row.id]

-----------------------------------------------------------------------------
(* What a user may do *)

GetUsersRole(u) == {r \in acl.roles : r.id = acl.role[u]}

(* does_user_have_roles and require_user_role: a user without role has     *)
(* none, whatever is asked for.                                            *)
DoesUserHaveRoles(u, wanted) == \E r \in GetUsersRole(u) : wanted \subseteq r.grants

(* Faulty variant: of several groups the first row found decides.          *)
PermissionsOfFirstGroup(u) ==
    LET found == {p \in acl.permissions : \E g \in acl.groups :
                    g.permissions = p.id /\ [user |-> u, group |-> g.id] \in acl.members}
    IN  IF found = {} THEN {} ELSE (CHOOSE p \in found : TRUE).grants

(* The permissions joined with the groups of u; from_many combines them.   *)
GetAllPermissionsUserHas(u) ==
    UNION {p.grants : p \in {p \in acl.permissions : \E g \in acl.groups :
                g.permissions = p.id /\ [user |-> u, group |-> g.id] \in acl.members}}

(* does_user_have_permissions and require_group_permission *)
DoesUserHavePermissions(u, wanted) == wanted \subseteq GetAllPermissionsUserHas(u)

(* Somebody calls who has the role the endpoint requires.                  *)
CallerHas(slot) == \E c \in User : DoesUserHaveRoles(c, {slot})

-----------------------------------------------------------------------------
(* Roles.  Creation and assignment also have local endpoints, which ask    *)
(* for a session only.                                                     *)

CreateRole(n, grants) ==
    Insert("roles", [id |-> serial.roles + 1, name |-> n, grants |-> grants])

(* Faulty variant: what the request does not grant stays as it was.        *)
EditedWidening(table, n, grants) ==
    [acl EXCEPT ![table] = Others(@, n) \union
        {[Row(@, n) EXCEPT !.grants = @ \union grants]}]

Edited(table, n, grants) ==
    [acl EXCEPT ![table] = Others(@, n) \union {[Row(@, n) EXCEPT !.grants = grants]}]

EditRole(n, grants) ==
    /\ CallerHas("can_create_role")
    /\ Named(acl.roles, n) # {}
    /\ Transaction(<<Edited("roles", n, grants)>>)

DeleteRoleStatements(n) ==
    LET id == Row(acl.roles, n).id
        cleared == [acl EXCEPT !.role = [u \in User |-> IF @[u] = id THEN Nothing ELSE @[u]]]
    IN  <<cleared, [cleared EXCEPT !.roles = Others(@, n)]>>

DeleteRole(n) ==
    /\ CallerHas("can_create_role")
    /\ Named(acl.roles, n) # {}
    /\ Transaction(DeleteRoleStatements(n))

Assigned(u, n) == [acl EXCEPT !.role[u] = Row(acl.roles, n).id]

AssignRole(u, n) ==
    /\ Named(acl.roles, n) # {}
    /\ Transaction(<<Assigned(u, n)>>)

-----------------------------------------------------------------------------
(* Permissions and groups *)

NewPermission(n, grants) == [id |-> serial.permissions + 1, name |-> n, grants |-> grants]

CreatePermission(n, grants) ==
    /\ CallerHas("can_create_group")
    /\ Insert("permissions", NewPermission(n, grants))

EditPermission(n, grants) ==
    /\ CallerHas("can_create_group")
    /\ Named(acl.permissions, n) # {}
    /\ Transaction(<<Edited("permissions", n, grants)>>)

WithoutPermission(n) == [acl EXCEPT !.permissions = Others(@, n)]

(* A permission a group uses is refused by the foreign key. *)
DeletePermission(n) ==
    /\ CallerHas("can_create_group")
    /\ Named(acl.permissions, n) # {}
    /\ Transaction(<<WithoutPermission(n)>>)

NewGroup(n, p) ==
    [id |-> serial.groups + 1, name |-> n, permissions |-> Row(acl.permissions, p).id]

CreateGroup(n, p) ==
    /\ CallerHas("can_create_group")
    /\ Named(acl.permissions, p) # {}
    /\ Insert("groups", NewGroup(n, p))

Left(d, n) == [d EXCEPT !.members = {m \in @ : m.group \notin Ids(Named(d.groups, n))}]
Ungrouped(d, n) == [d EXCEPT !.groups = Others(@, n)]

(* Faulty variant: the group goes before its members. *)
DeleteGroupFirst(n) == <<Ungrouped(acl, n), Left(Ungrouped(acl, n), n)>>

DeleteGroupStatements(n) == <<Left(acl, n), Ungrouped(Left(acl, n), n)>>

DeleteGroup(n) ==
    /\ CallerHas("can_create_group")
    /\ Transaction(DeleteGroupStatements(n))

Membership(u, n) == [user |-> u, group |-> Row(acl.groups, n).id]
WithoutMember(u, n) == [acl EXCEPT !.members = @ \ {Membership(u, n)}]

(* To join twice breaks the unique pair of user and group. *)
JoinGroup(u, n) ==
    /\ Named(acl.groups, n) # {}
    /\ Membership(u, n) \notin acl.members
    /\ Transaction(<<[acl EXCEPT !.members = @ \union {Membership(u, n)}]>>)

(* Faulty variant: the user leaves every group. *)
LeaveEveryGroup(u, n) ==
    /\ Named(acl.groups, n) # {}
    /\ Transaction(<<[acl EXCEPT !.members = {m \in @ : m.user # u}]>>)

LeaveGroup(u, n) ==
    /\ Named(acl.groups, n) # {}
    /\ Transaction(<<WithoutMember(u, n)>>)

(* The lists, user_info, and every request that is refused. *)
Unchanged == UNCHANGED accessVars

AccessNext ==
    \/ Unchanged
    \/ \E n \in RoleName, g \in RoleGrants : CreateRole(n, g) \/ EditRole(n, g)
    \/ \E n \in RoleName, u \in User : DeleteRole(n) \/ AssignRole(u, n)
    \/ \E n \in PermissionName, g \in PermissionGrants : CreatePermission(n, g) \/ EditPermission(n, g)
    \/ \E n \in PermissionName : DeletePermission(n)
    \/ \E n \in GroupName, p \in PermissionName : CreateGroup(n, p)
    \/ \E n \in GroupName, u \in User : DeleteGroup(n) \/ JoinGroup(u, n) \/ LeaveGroup(u, n)

AccessSpec == AccessInit /\ [][AccessNext]_accessVars

-----------------------------------------------------------------------------
(* Properties *)

(* The tables have their columns, numbers are not used twice, and unique   *)
(* columns and foreign keys hold.                                          *)
AccessTypeOK ==
    /\ acl.roles \subseteq [id : Id, name : RoleName, grants : RoleGrants]
    /\ acl.permissions \subseteq [id : Id, name : PermissionName, grants : PermissionGrants]
    /\ acl.groups \subseteq [id : Id, name : GroupName, permissions : Id]
    /\ acl.members \subseteq [user : User, group : Id]
    /\ acl.role \in [User -> Id \union {Nothing}]
    /\ \A t \in {"roles", "permissions", "groups"} :
          /\ serial[t] \in 0..MaxRows
          /\ \A r \in acl[t] : r.id <= serial[t]
          /\ \A r, s \in acl[t] : r.id = s.id => r = s
    /\ Consistent(acl)

(* "Deletes the specified role and removes it from all users", "Deletes    *)
(* the specified group and all user associations": whoever has the role or *)
(* is in the group, no statement of a deletion is refused.                 *)
DeletionsAccepted ==
    /\ \A n \in {r.name : r \in acl.roles} : Accepted(DeleteRoleStatements(n))
    /\ \A n \in GroupName : Accepted(DeleteGroupStatements(n))

(* The rows, read by name. *)
Names(rows) == {r.name : r \in rows}
NameOf(rows, id) == (CHOOSE r \in rows : r.id = id).name
GrantsByName(rows) == [n \in Names(rows) |-> Row(rows, n).grants]

(* By name the tables do what the roster promises: rights come and go with *)
(* a role, a permission, a group and the membership, and a name that is    *)
(* created again brings nobody back.                                       *)
ByName == INSTANCE Roster WITH
    Grants <- RoleGrants \union PermissionGrants,
    roles <- GrantsByName(acl.roles),
    permissions <- GrantsByName(acl.permissions),
    groups <- [n \in Names(acl.groups) |-> NameOf(acl.permissions, Row(acl.groups, n).permissions)],
    members <- [n \in Names(acl.groups) |->
                    {u \in User : [user |-> u, group |-> Row(acl.groups, n).id] \in acl.members}],
    roleOf <- [u \in User |-> IF acl.role[u] = Nothing THEN Nothing ELSE NameOf(acl.roles, acl.role[u])]
ImplementsRoster == ByName!Spec

(* The checks of a request permit exactly what the caller's groups give    *)
(* together: what two groups give is lost with the second one.             *)
ChecksFollowRoster ==
    \A u \in User, wanted \in PermissionGrants :
        DoesUserHavePermissions(u, wanted) <=> wanted \subseteq ByName!Permitted(u)
=============================================================================
