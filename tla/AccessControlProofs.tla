------------------------ MODULE AccessControlProofs ------------------------
(***************************************************************************)
(* Theorems about AccessControl for every set of users, of names and of    *)
(* grants, and any number of rows.                                         *)
(***************************************************************************)
EXTENDS AccessControl, Integers, TLAPS

-----------------------------------------------------------------------------
(* The inductive invariant: AccessTypeOK, and that acl and serial have     *)
(* exactly their columns.                                                  *)

Columns(d) == [roles |-> d.roles, permissions |-> d.permissions, groups |-> d.groups,
               members |-> d.members, role |-> d.role]
Serials(s) == [roles |-> s.roles, permissions |-> s.permissions, groups |-> s.groups]

RoleRow == [id : Id, name : RoleName, grants : RoleGrants]
PermissionRow == [id : Id, name : PermissionName, grants : PermissionGrants]
GroupRow == [id : Id, name : GroupName, permissions : Id]
MemberRow == [user : User, group : Id]

(* The rows of a table were numbered one after the other up to k. *)
Numbered(rows, k) ==
    /\ k \in 0..MaxRows
    /\ \A r \in rows : r.id <= k
    /\ \A r, s \in rows : r.id = s.id => r = s

Sound(d, s) ==
    /\ d = Columns(d) /\ s = Serials(s)
    /\ d.roles \subseteq RoleRow /\ d.permissions \subseteq PermissionRow
    /\ d.groups \subseteq GroupRow /\ d.members \subseteq MemberRow
    /\ d.role \in [User -> Id \union {Nothing}]
    /\ Numbered(d.roles, s.roles) /\ Numbered(d.permissions, s.permissions)
    /\ Numbered(d.groups, s.groups)
    /\ Consistent(d)

LEMMA SoundIsTyped == Sound(acl, serial) => AccessTypeOK
  BY DEF Sound, AccessTypeOK, RoleRow, PermissionRow, GroupRow, MemberRow, Numbered

-----------------------------------------------------------------------------
(* Rows *)

LEMMA RowOfName ==
    ASSUME NEW rows, NEW n, Named(rows, n) # {}
    PROVE  Row(rows, n) \in rows /\ Row(rows, n).name = n
  BY DEF Named, Row

LEMMA NumberedMore ==
    ASSUME NEW rows, NEW k, Numbered(rows, k), NEW row, row.id = k + 1, row.id \in Id,
           \A r \in rows : r.id \in Id
    PROVE  Numbered(rows \union {row}, row.id) /\ row \notin rows
<1>1. k \in Int /\ row.id \in 0..MaxRows
  BY MaxRowsAssumption DEF Numbered, Id
<1>2. \A r \in rows : r.id < row.id /\ r.id \in Int
  BY <1>1 DEF Numbered, Id
<1> QED
  BY <1>1, <1>2 DEF Numbered

LEMMA NumberedEdited ==
    ASSUME NEW rows, NEW k, Numbered(rows, k), NEW row, NEW n, Named(rows, n) # {},
           row.id = Row(rows, n).id
    PROVE  Numbered(Others(rows, n) \union {row}, k)
<1>1. Row(rows, n) \in rows /\ Row(rows, n).name = n
  BY RowOfName
<1>2. \A r \in Others(rows, n) : r \in rows /\ r.name # n
  BY DEF Others
<1>3. \A r \in Others(rows, n) : r.id # row.id
  BY <1>1, <1>2 DEF Numbered
<1> QED
  BY <1>1, <1>2, <1>3 DEF Numbered

LEMMA NumberedFewer ==
    ASSUME NEW rows, NEW k, Numbered(rows, k), NEW n
    PROVE  Numbered(Others(rows, n), k)
  BY DEF Numbered, Others

-----------------------------------------------------------------------------
(* Requests *)

LEMMA TransactionEnd ==
    ASSUME NEW d, Transaction(<<d>>)
    PROVE  acl' = d /\ Consistent(d) /\ serial' = serial
  BY DEF Transaction, Accepted

LEMMA TransactionOfTwo ==
    ASSUME NEW c, NEW d, Transaction(<<c, d>>)
    PROVE  acl' = d /\ Consistent(d) /\ serial' = serial
  BY DEF Transaction, Accepted

LEMMA CreateRoleSound ==
    ASSUME Sound(acl, serial), NEW n \in RoleName, NEW g \in RoleGrants, CreateRole(n, g)
    PROVE  Sound(acl, serial)'
<1> DEFINE row == [id |-> serial.roles + 1, name |-> n, grants |-> g]
<1>1. /\ acl' = [acl EXCEPT !["roles"] = @ \union {row}]
      /\ serial' = [serial EXCEPT !["roles"] = row.id]
      /\ row.id \in Id /\ Consistent(acl')
  BY DEF CreateRole, Insert
<1>2. /\ acl' = Columns(acl') /\ serial' = Serials(serial')
      /\ acl'.roles = acl.roles \union {row} /\ serial'.roles = row.id
      /\ acl'.permissions = acl.permissions /\ acl'.groups = acl.groups
      /\ acl'.members = acl.members /\ acl'.role = acl.role
      /\ serial'.permissions = serial.permissions /\ serial'.groups = serial.groups
  BY <1>1 DEF Sound, Columns, Serials
<1>3. acl'.roles \subseteq RoleRow
  BY <1>1, <1>2 DEF Sound, RoleRow
<1>4. Numbered(acl'.roles, serial'.roles)
  <2>1. /\ Numbered(acl.roles, serial.roles) /\ row.id = serial.roles + 1 /\ row.id \in Id
        /\ \A r \in acl.roles : r.id \in Id
    BY <1>1 DEF Sound, RoleRow
  <2> HIDE DEF row
  <2>2. Numbered(acl.roles \union {row}, row.id)
    BY <2>1, NumberedMore
  <2> QED
    BY <1>2, <2>2
<1> QED
  BY <1>1, <1>2, <1>3, <1>4 DEF Sound

LEMMA CreatePermissionSound ==
    ASSUME Sound(acl, serial), NEW n \in PermissionName, NEW g \in PermissionGrants,
           CreatePermission(n, g)
    PROVE  Sound(acl, serial)'
<1> DEFINE row == NewPermission(n, g)
<1>1. /\ acl' = [acl EXCEPT !["permissions"] = @ \union {row}]
      /\ serial' = [serial EXCEPT !["permissions"] = row.id]
      /\ row.id \in Id /\ Consistent(acl')
      /\ row = [id |-> serial.permissions + 1, name |-> n, grants |-> g]
  BY DEF CreatePermission, Insert, NewPermission
<1>2. /\ acl' = Columns(acl') /\ serial' = Serials(serial')
      /\ acl'.permissions = acl.permissions \union {row} /\ serial'.permissions = row.id
      /\ acl'.roles = acl.roles /\ acl'.groups = acl.groups
      /\ acl'.members = acl.members /\ acl'.role = acl.role
      /\ serial'.roles = serial.roles /\ serial'.groups = serial.groups
  BY <1>1 DEF Sound, Columns, Serials
<1>3. acl'.permissions \subseteq PermissionRow
  BY <1>1, <1>2 DEF Sound, PermissionRow
<1>4. Numbered(acl'.permissions, serial'.permissions)
  <2>1. /\ Numbered(acl.permissions, serial.permissions) /\ row.id = serial.permissions + 1 /\ row.id \in Id
        /\ \A r \in acl.permissions : r.id \in Id
    BY <1>1 DEF Sound, PermissionRow
  <2> HIDE DEF row
  <2>2. Numbered(acl.permissions \union {row}, row.id)
    BY <2>1, NumberedMore
  <2> QED
    BY <1>2, <2>2
<1> QED
  BY <1>1, <1>2, <1>3, <1>4 DEF Sound

LEMMA CreateGroupSound ==
    ASSUME Sound(acl, serial), NEW n \in GroupName, NEW p, CreateGroup(n, p)
    PROVE  Sound(acl, serial)'
<1> DEFINE row == NewGroup(n, p)
<1>1. /\ acl' = [acl EXCEPT !["groups"] = @ \union {row}]
      /\ serial' = [serial EXCEPT !["groups"] = row.id]
      /\ row.id \in Id /\ Consistent(acl')
      /\ row = [id |-> serial.groups + 1, name |-> n, permissions |-> Row(acl.permissions, p).id]
      /\ Row(acl.permissions, p) \in acl.permissions
  BY RowOfName DEF CreateGroup, Insert, NewGroup
<1>2. /\ acl' = Columns(acl') /\ serial' = Serials(serial')
      /\ acl'.groups = acl.groups \union {row} /\ serial'.groups = row.id
      /\ acl'.roles = acl.roles /\ acl'.permissions = acl.permissions
      /\ acl'.members = acl.members /\ acl'.role = acl.role
      /\ serial'.roles = serial.roles /\ serial'.permissions = serial.permissions
  BY <1>1 DEF Sound, Columns, Serials
<1>3. acl'.groups \subseteq GroupRow
  BY <1>1, <1>2 DEF Sound, GroupRow, PermissionRow
<1>4. Numbered(acl'.groups, serial'.groups)
  <2>1. /\ Numbered(acl.groups, serial.groups) /\ row.id = serial.groups + 1 /\ row.id \in Id
        /\ \A r \in acl.groups : r.id \in Id
    BY <1>1 DEF Sound, GroupRow
  <2> HIDE DEF row
  <2>2. Numbered(acl.groups \union {row}, row.id)
    BY <2>1, NumberedMore
  <2> QED
    BY <1>2, <2>2
<1> QED
  BY <1>1, <1>2, <1>3, <1>4 DEF Sound

LEMMA EditRoleSound ==
    ASSUME Sound(acl, serial), NEW n \in RoleName, NEW g \in RoleGrants, EditRole(n, g)
    PROVE  Sound(acl, serial)'
<1> DEFINE row == [Row(acl.roles, n) EXCEPT !.grants = g]
<1>1. /\ acl' = [acl EXCEPT !["roles"] = Others(@, n) \union {row}]
      /\ serial' = serial /\ Consistent(acl') /\ Named(acl.roles, n) # {}
  BY TransactionEnd DEF EditRole, Edited
<1>2. Row(acl.roles, n) \in RoleRow /\ row \in RoleRow /\ row.id = Row(acl.roles, n).id
  BY <1>1, RowOfName DEF Sound, RoleRow
<1>3. /\ acl' = Columns(acl')
      /\ acl'.roles = Others(acl.roles, n) \union {row}
      /\ acl'.permissions = acl.permissions /\ acl'.groups = acl.groups
      /\ acl'.members = acl.members /\ acl'.role = acl.role
  BY <1>1 DEF Sound, Columns
<1>4. acl'.roles \subseteq RoleRow
  BY <1>2, <1>3 DEF Sound, Others
<1>5. Numbered(acl'.roles, serial.roles)
  <2>1. /\ Numbered(acl.roles, serial.roles) /\ Named(acl.roles, n) # {}
        /\ row.id = Row(acl.roles, n).id
    BY <1>1, <1>2 DEF Sound
  <2> HIDE DEF row
  <2>2. Numbered(Others(acl.roles, n) \union {row}, serial.roles)
    BY <2>1, NumberedEdited
  <2> QED
    BY <1>3, <2>2
<1> QED
  BY <1>1, <1>3, <1>4, <1>5 DEF Sound

LEMMA EditPermissionSound ==
    ASSUME Sound(acl, serial), NEW n \in PermissionName, NEW g \in PermissionGrants,
           EditPermission(n, g)
    PROVE  Sound(acl, serial)'
<1> DEFINE row == [Row(acl.permissions, n) EXCEPT !.grants = g]
<1>1. /\ acl' = [acl EXCEPT !["permissions"] = Others(@, n) \union {row}]
      /\ serial' = serial /\ Consistent(acl') /\ Named(acl.permissions, n) # {}
  BY TransactionEnd DEF EditPermission, Edited
<1>2. /\ Row(acl.permissions, n) \in PermissionRow /\ row \in PermissionRow
      /\ row.id = Row(acl.permissions, n).id
  BY <1>1, RowOfName DEF Sound, PermissionRow
<1>3. /\ acl' = Columns(acl')
      /\ acl'.permissions = Others(acl.permissions, n) \union {row}
      /\ acl'.roles = acl.roles /\ acl'.groups = acl.groups
      /\ acl'.members = acl.members /\ acl'.role = acl.role
  BY <1>1 DEF Sound, Columns
<1>4. acl'.permissions \subseteq PermissionRow
  BY <1>2, <1>3 DEF Sound, Others
<1>5. Numbered(acl'.permissions, serial.permissions)
  <2>1. /\ Numbered(acl.permissions, serial.permissions) /\ Named(acl.permissions, n) # {}
        /\ row.id = Row(acl.permissions, n).id
    BY <1>1, <1>2 DEF Sound
  <2> HIDE DEF row
  <2>2. Numbered(Others(acl.permissions, n) \union {row}, serial.permissions)
    BY <2>1, NumberedEdited
  <2> QED
    BY <1>3, <2>2
<1> QED
  BY <1>1, <1>3, <1>4, <1>5 DEF Sound

(* What a deletion or an assignment leaves. *)
LEMMA FewerRows ==
    ASSUME Sound(acl, serial), serial' = serial, Consistent(acl'), acl' = Columns(acl'),
           acl'.roles = acl.roles \/ \E n : acl'.roles = Others(acl.roles, n),
           acl'.permissions = acl.permissions \/ \E n : acl'.permissions = Others(acl.permissions, n),
           acl'.groups = acl.groups \/ \E n : acl'.groups = Others(acl.groups, n),
           acl'.members \subseteq MemberRow,
           acl'.role \in [User -> Id \union {Nothing}]
    PROVE  Sound(acl, serial)'
<1>1. /\ acl'.roles \subseteq acl.roles /\ acl'.permissions \subseteq acl.permissions
      /\ acl'.groups \subseteq acl.groups
  BY DEF Others
<1>2. /\ Numbered(acl'.roles, serial.roles) /\ Numbered(acl'.permissions, serial.permissions)
      /\ Numbered(acl'.groups, serial.groups)
  BY NumberedFewer DEF Sound
<1> QED
  BY <1>1, <1>2 DEF Sound

(* What the requests without new rows do to the tables. *)
LEMMA DeleteRoleEffect ==
    ASSUME Sound(acl, serial), NEW n, DeleteRole(n)
    PROVE  /\ serial' = serial /\ Consistent(acl') /\ acl' = Columns(acl')
           /\ Row(acl.roles, n) \in acl.roles /\ Row(acl.roles, n).name = n
           /\ acl'.roles = Others(acl.roles, n)
           /\ acl'.role = [u \in User |-> IF acl.role[u] = Row(acl.roles, n).id
                                         THEN Nothing ELSE acl.role[u]]
           /\ acl'.permissions = acl.permissions /\ acl'.groups = acl.groups
           /\ acl'.members = acl.members
<1> DEFINE id == Row(acl.roles, n).id
           cleared == [acl EXCEPT !.role = [u \in User |-> IF @[u] = id THEN Nothing ELSE @[u]]]
<1>1. /\ acl' = [cleared EXCEPT !.roles = Others(@, n)]
      /\ serial' = serial /\ Consistent(acl') /\ Named(acl.roles, n) # {}
  BY TransactionOfTwo DEF DeleteRole, DeleteRoleStatements
<1>2. Row(acl.roles, n) \in acl.roles /\ Row(acl.roles, n).name = n
  BY <1>1, RowOfName
<1> QED
  BY <1>1, <1>2 DEF Sound, Columns

LEMMA AssignRoleEffect ==
    ASSUME Sound(acl, serial), NEW u \in User, NEW n, AssignRole(u, n)
    PROVE  /\ serial' = serial /\ Consistent(acl') /\ acl' = Columns(acl')
           /\ Row(acl.roles, n) \in acl.roles /\ Row(acl.roles, n).name = n
           /\ acl'.role = [acl.role EXCEPT ![u] = Row(acl.roles, n).id]
           /\ acl'.roles = acl.roles /\ acl'.permissions = acl.permissions
           /\ acl'.groups = acl.groups /\ acl'.members = acl.members
<1>1. /\ acl' = [acl EXCEPT !.role[u] = Row(acl.roles, n).id]
      /\ serial' = serial /\ Consistent(acl') /\ Named(acl.roles, n) # {}
  BY TransactionEnd DEF AssignRole, Assigned
<1>2. Row(acl.roles, n) \in acl.roles /\ Row(acl.roles, n).name = n
  BY <1>1, RowOfName
<1> QED
  BY <1>1, <1>2 DEF Sound, Columns

LEMMA DeletePermissionEffect ==
    ASSUME Sound(acl, serial), NEW n, DeletePermission(n)
    PROVE  /\ serial' = serial /\ Consistent(acl') /\ acl' = Columns(acl')
           /\ acl'.permissions = Others(acl.permissions, n)
           /\ acl'.roles = acl.roles /\ acl'.groups = acl.groups
           /\ acl'.members = acl.members /\ acl'.role = acl.role
<1>1. /\ acl' = [acl EXCEPT !.permissions = Others(@, n)]
      /\ serial' = serial /\ Consistent(acl')
  BY TransactionEnd DEF DeletePermission, WithoutPermission
<1> QED
  BY <1>1 DEF Sound, Columns

LEMMA DeleteGroupEffect ==
    ASSUME Sound(acl, serial), NEW n, DeleteGroup(n)
    PROVE  /\ serial' = serial /\ Consistent(acl') /\ acl' = Columns(acl')
           /\ acl'.groups = Others(acl.groups, n)
           /\ acl'.members = {m \in acl.members : m.group \notin Ids(Named(acl.groups, n))}
           /\ acl'.roles = acl.roles /\ acl'.permissions = acl.permissions
           /\ acl'.role = acl.role
<1> DEFINE left == [acl EXCEPT !.members = {m \in @ : m.group \notin Ids(Named(acl.groups, n))}]
<1>1. /\ acl' = [left EXCEPT !.groups = Others(@, n)]
      /\ serial' = serial /\ Consistent(acl')
  BY TransactionOfTwo DEF DeleteGroup, DeleteGroupStatements, Left, Ungrouped
<1> QED
  BY <1>1 DEF Sound, Columns

LEMMA JoinGroupEffect ==
    ASSUME Sound(acl, serial), NEW u \in User, NEW n, JoinGroup(u, n)
    PROVE  /\ serial' = serial /\ Consistent(acl') /\ acl' = Columns(acl')
           /\ Row(acl.groups, n) \in acl.groups /\ Row(acl.groups, n).name = n
           /\ acl'.members = acl.members \union {[user |-> u, group |-> Row(acl.groups, n).id]}
           /\ acl'.roles = acl.roles /\ acl'.permissions = acl.permissions
           /\ acl'.groups = acl.groups /\ acl'.role = acl.role
<1>1. /\ acl' = [acl EXCEPT !.members = @ \union {[user |-> u, group |-> Row(acl.groups, n).id]}]
      /\ serial' = serial /\ Consistent(acl') /\ Named(acl.groups, n) # {}
  BY TransactionEnd DEF JoinGroup, Membership
<1>2. Row(acl.groups, n) \in acl.groups /\ Row(acl.groups, n).name = n
  BY <1>1, RowOfName
<1> QED
  BY <1>1, <1>2 DEF Sound, Columns

LEMMA LeaveGroupEffect ==
    ASSUME Sound(acl, serial), NEW u \in User, NEW n, LeaveGroup(u, n)
    PROVE  /\ serial' = serial /\ Consistent(acl') /\ acl' = Columns(acl')
           /\ Row(acl.groups, n) \in acl.groups /\ Row(acl.groups, n).name = n
           /\ acl'.members = acl.members \ {[user |-> u, group |-> Row(acl.groups, n).id]}
           /\ acl'.roles = acl.roles /\ acl'.permissions = acl.permissions
           /\ acl'.groups = acl.groups /\ acl'.role = acl.role
<1>1. /\ acl' = [acl EXCEPT !.members = @ \ {[user |-> u, group |-> Row(acl.groups, n).id]}]
      /\ serial' = serial /\ Consistent(acl') /\ Named(acl.groups, n) # {}
  BY TransactionEnd DEF LeaveGroup, WithoutMember, Membership
<1>2. Row(acl.groups, n) \in acl.groups /\ Row(acl.groups, n).name = n
  BY <1>1, RowOfName
<1> QED
  BY <1>1, <1>2 DEF Sound, Columns

LEMMA SoundInit == AccessInit => Sound(acl, serial)
<1> SUFFICES ASSUME AccessInit PROVE Sound(acl, serial)
  OBVIOUS
<1>1. \A k \in {serial.roles, serial.permissions, serial.groups} : k \in 0..MaxRows
  BY MaxRowsAssumption DEF AccessInit
<1>2. Numbered(acl.roles, serial.roles) /\ Numbered(acl.permissions, serial.permissions)
      /\ Numbered(acl.groups, serial.groups)
  BY <1>1 DEF AccessInit, Numbered
<1>3. Consistent(acl)
  BY DEF AccessInit, Consistent, Unique, Ids
<1> QED
  BY <1>2, <1>3 DEF AccessInit, Sound, Columns, Serials

LEMMA SoundStep ==
    ASSUME Sound(acl, serial), [AccessNext]_accessVars
    PROVE  Sound(acl, serial)'
<1>1. CASE Unchanged \/ UNCHANGED accessVars
  BY <1>1 DEF Unchanged, accessVars
<1>2. ASSUME NEW n \in RoleName, NEW g \in RoleGrants, CreateRole(n, g) \/ EditRole(n, g)
      PROVE  Sound(acl, serial)'
  BY <1>2, CreateRoleSound, EditRoleSound
<1>3. ASSUME NEW n \in RoleName, DeleteRole(n) PROVE Sound(acl, serial)'
  <2>1. acl'.role \in [User -> Id \union {Nothing}]
    <3>1. acl'.role = [u \in User |-> IF acl.role[u] = Row(acl.roles, n).id
                                     THEN Nothing ELSE acl.role[u]]
      BY <1>3, DeleteRoleEffect
    <3> QED
      BY <3>1 DEF Sound
  <2>2. acl'.members \subseteq MemberRow
    BY <1>3, DeleteRoleEffect DEF Sound
  <2> QED
    BY <1>3, <2>1, <2>2, DeleteRoleEffect, FewerRows
<1>4. ASSUME NEW n \in RoleName, NEW u \in User, AssignRole(u, n) PROVE Sound(acl, serial)'
  <2>1. Row(acl.roles, n) \in acl.roles /\ acl'.role = [acl.role EXCEPT ![u] = Row(acl.roles, n).id]
    BY <1>4, AssignRoleEffect
  <2>2. acl'.role \in [User -> Id \union {Nothing}]
    BY <2>1 DEF Sound, RoleRow
  <2>3. acl'.members \subseteq MemberRow
    BY <1>4, AssignRoleEffect DEF Sound
  <2> QED
    BY <1>4, <2>2, <2>3, AssignRoleEffect, FewerRows
<1>5. ASSUME NEW n \in PermissionName, NEW g \in PermissionGrants,
             CreatePermission(n, g) \/ EditPermission(n, g)
      PROVE  Sound(acl, serial)'
  BY <1>5, CreatePermissionSound, EditPermissionSound
<1>6. ASSUME NEW n \in PermissionName, DeletePermission(n) PROVE Sound(acl, serial)'
  <2>1. acl'.role \in [User -> Id \union {Nothing}] /\ acl'.members \subseteq MemberRow
    BY <1>6, DeletePermissionEffect DEF Sound
  <2> QED
    BY <1>6, <2>1, DeletePermissionEffect, FewerRows
<1>7. ASSUME NEW n \in GroupName, NEW p \in PermissionName, CreateGroup(n, p)
      PROVE  Sound(acl, serial)'
  BY <1>7, CreateGroupSound
<1>8. ASSUME NEW n \in GroupName, DeleteGroup(n) PROVE Sound(acl, serial)'
  <2>1. acl'.role \in [User -> Id \union {Nothing}] /\ acl'.members \subseteq MemberRow
    BY <1>8, DeleteGroupEffect DEF Sound
  <2> QED
    BY <1>8, <2>1, DeleteGroupEffect, FewerRows
<1>9. ASSUME NEW n \in GroupName, NEW u \in User, JoinGroup(u, n) PROVE Sound(acl, serial)'
  <2>1. Row(acl.groups, n).id \in Id
    BY <1>9, JoinGroupEffect DEF Sound, GroupRow
  <2>2. [user |-> u, group |-> Row(acl.groups, n).id] \in MemberRow
    BY <2>1 DEF MemberRow
  <2>3. acl'.role \in [User -> Id \union {Nothing}] /\ acl'.members \subseteq MemberRow
    BY <1>9, <2>2, JoinGroupEffect DEF Sound
  <2> QED
    BY <1>9, <2>3, JoinGroupEffect, FewerRows
<1>10. ASSUME NEW n \in GroupName, NEW u \in User, LeaveGroup(u, n) PROVE Sound(acl, serial)'
  <2>1. acl'.role \in [User -> Id \union {Nothing}] /\ acl'.members \subseteq MemberRow
    BY <1>10, LeaveGroupEffect DEF Sound
  <2> QED
    BY <1>10, <2>1, LeaveGroupEffect, FewerRows
<1> QED
  BY <1>1, <1>2, <1>3, <1>4, <1>5, <1>6, <1>7, <1>8, <1>9, <1>10 DEF AccessNext

(* The inductive invariant holds of every behaviour: the tables have their *)
(* columns, the numbers of the rows are distinct and below the next one,   *)
(* and the database's unique columns and foreign keys are kept.            *)
THEOREM SoundAlways == AccessSpec => []Sound(acl, serial)
<1> QED
  BY SoundInit, SoundStep, PTL DEF AccessSpec

(* The tables have their columns, numbers are not used twice, and unique   *)
(* columns and foreign keys hold, whatever the administrators ask for.     *)
THEOREM TypeCorrect == AccessSpec => []AccessTypeOK
<1> QED
  BY SoundAlways, SoundIsTyped, PTL

-----------------------------------------------------------------------------
(* Deletions *)

LEMMA RoleDeletable ==
    ASSUME Sound(acl, serial), NEW n \in Names(acl.roles)
    PROVE  Accepted(DeleteRoleStatements(n))
<1> DEFINE id == Row(acl.roles, n).id
           role == [u \in User |-> IF acl.role[u] = id THEN Nothing ELSE acl.role[u]]
           cleared == [acl EXCEPT !.role = role]
           end == [cleared EXCEPT !.roles = Others(@, n)]
<1>1. /\ cleared.role = role /\ cleared.roles = acl.roles
      /\ cleared.permissions = acl.permissions /\ cleared.groups = acl.groups
      /\ cleared.members = acl.members
      /\ end.role = role /\ end.roles = Others(acl.roles, n)
      /\ end.permissions = acl.permissions /\ end.groups = acl.groups
      /\ end.members = acl.members
      /\ cleared = [acl EXCEPT !.role = [u \in User |-> IF @[u] = id THEN Nothing ELSE @[u]]]
  BY DEF Sound, Columns
<1>2. Row(acl.roles, n) \in acl.roles /\ Row(acl.roles, n).name = n
  BY RowOfName DEF Names, Named
<1>3. Consistent(cleared)
  BY <1>1 DEF Sound, Consistent
<1>4. \A u \in User : role[u] \in Ids(Others(acl.roles, n)) \union {Nothing}
  <2> TAKE u \in User
  <2>1. CASE role[u] # Nothing
    <3>1. acl.role[u] # id /\ acl.role[u] \in Ids(acl.roles) /\ role[u] = acl.role[u]
      BY <2>1 DEF Sound, Consistent
    <3>2. PICK r \in acl.roles : r.id = acl.role[u]
      BY <3>1 DEF Ids
    <3>3. r.name # n
      BY <1>2, <3>1, <3>2 DEF Sound, Consistent, Unique
    <3> QED
      BY <3>1, <3>2, <3>3 DEF Ids, Others
  <2> QED
    BY <2>1
<1>5. Unique(Others(acl.roles, n))
  BY DEF Sound, Consistent, Unique, Others
<1>6. Consistent(end)
  BY <1>1, <1>4, <1>5 DEF Sound, Consistent
<1>7. DeleteRoleStatements(n) = <<cleared, end>>
  BY <1>1 DEF DeleteRoleStatements
<1> HIDE DEF cleared, end
<1> QED
  BY <1>3, <1>6, <1>7 DEF Accepted

LEMMA GroupDeletable ==
    ASSUME Sound(acl, serial), NEW n
    PROVE  Accepted(DeleteGroupStatements(n))
<1> DEFINE left == Left(acl, n)
           end == Ungrouped(left, n)
<1>1. /\ left.members = {m \in acl.members : m.group \notin Ids(Named(acl.groups, n))}
      /\ end.members = left.members
      /\ left.role = acl.role /\ left.roles = acl.roles /\ left.groups = acl.groups
      /\ left.permissions = acl.permissions
      /\ end.role = acl.role /\ end.roles = acl.roles /\ end.groups = Others(acl.groups, n)
      /\ end.permissions = acl.permissions
  BY DEF Sound, Columns, Left, Ungrouped
<1>2. Consistent(left)
  BY <1>1 DEF Sound, Consistent
<1>3. \A m \in left.members : m.group \in Ids(Others(acl.groups, n))
  BY <1>1 DEF Sound, Consistent, Ids, Named, Others
<1>4. Unique(Others(acl.groups, n)) /\ Others(acl.groups, n) \subseteq acl.groups
  BY DEF Sound, Consistent, Unique, Others
<1>5. Consistent(end)
  BY <1>1, <1>3, <1>4 DEF Sound, Consistent
<1>6. DeleteGroupStatements(n) = <<left, end>>
  BY DEF DeleteGroupStatements
<1> HIDE DEF left, end
<1> QED
  BY <1>2, <1>5, <1>6 DEF Accepted

(* "Deletes the specified role and removes it from all users", "Deletes    *)
(* the specified group and all user associations": no statement of a       *)
(* deletion is ever refused, whoever has the role or is in the group.      *)
THEOREM DeletionsAcceptedCorrect == AccessSpec => []DeletionsAccepted
<1>1. Sound(acl, serial) => DeletionsAccepted
  BY RoleDeletable, GroupDeletable DEF DeletionsAccepted, Names
<1> QED
  BY <1>1, SoundAlways, PTL

-----------------------------------------------------------------------------
(* The tables read by name *)

GroupsOf(d) == [n \in Names(d.groups) |-> NameOf(d.permissions, Row(d.groups, n).permissions)]
MembersOf(d) == [n \in Names(d.groups) |->
                    {u \in User : [user |-> u, group |-> Row(d.groups, n).id] \in d.members}]
RoleNamesOf(d) == [u \in User |-> IF d.role[u] = Nothing THEN Nothing ELSE NameOf(d.roles, d.role[u])]

LEMMA RowIs ==
    ASSUME NEW rows, Unique(rows), NEW r \in rows
    PROVE  Row(rows, r.name) = r
  BY DEF Unique, Row

LEMMA NameIs ==
    ASSUME NEW rows, NEW k, Numbered(rows, k), NEW r \in rows
    PROVE  NameOf(rows, r.id) = r.name
  BY DEF Numbered, NameOf

(* What a reader finds under the names of sound tables. *)
LEMMA Found ==
    ASSUME NEW d, NEW s, Sound(d, s)
    PROVE  /\ \A r \in d.roles : GrantsByName(d.roles)[r.name] = r.grants
           /\ \A p \in d.permissions : GrantsByName(d.permissions)[p.name] = p.grants
           /\ \A g \in d.groups : /\ Row(d.groups, g.name) = g
                                  /\ MembersOf(d)[g.name] =
                                        {u \in User : [user |-> u, group |-> g.id] \in d.members}
           /\ \A g \in d.groups, p \in d.permissions :
                 g.permissions = p.id => GroupsOf(d)[g.name] = p.name
           /\ \A g \in d.groups : \E p \in d.permissions : g.permissions = p.id
           /\ \A u \in User : d.role[u] = Nothing => RoleNamesOf(d)[u] = Nothing
           /\ \A u \in User, r \in d.roles :
                 d.role[u] = r.id => d.role[u] # Nothing /\ RoleNamesOf(d)[u] = r.name
           /\ \A u \in User : d.role[u] # Nothing => \E r \in d.roles : d.role[u] = r.id
<1>1. /\ Unique(d.roles) /\ Unique(d.permissions) /\ Unique(d.groups)
      /\ Numbered(d.roles, s.roles) /\ Numbered(d.permissions, s.permissions)
      /\ \A g \in d.groups : g.permissions \in Ids(d.permissions)
      /\ \A u \in User : d.role[u] \in Ids(d.roles) \union {Nothing}
      /\ \A r \in d.roles : r.id # Nothing
  BY NothingAssumption DEF Sound, Consistent, RoleRow, Id
<1>2. \A r \in d.roles : GrantsByName(d.roles)[r.name] = r.grants
  BY <1>1, RowIs DEF GrantsByName, Names
<1>3. \A p \in d.permissions : GrantsByName(d.permissions)[p.name] = p.grants
  BY <1>1, RowIs DEF GrantsByName, Names
<1>4. \A g \in d.groups : Row(d.groups, g.name) = g /\ g.name \in Names(d.groups)
  BY <1>1, RowIs DEF Names
<1>5. \A g \in d.groups : MembersOf(d)[g.name] =
                             {u \in User : [user |-> u, group |-> g.id] \in d.members}
  BY <1>4 DEF MembersOf
<1>6. \A g \in d.groups, p \in d.permissions :
         g.permissions = p.id => GroupsOf(d)[g.name] = p.name
  BY <1>1, <1>4, NameIs DEF GroupsOf
<1>7. \A g \in d.groups : \E p \in d.permissions : g.permissions = p.id
  BY <1>1 DEF Ids
<1>8. \A u \in User : d.role[u] = Nothing => RoleNamesOf(d)[u] = Nothing
  BY DEF RoleNamesOf
<1>9. \A u \in User, r \in d.roles :
         d.role[u] = r.id => d.role[u] # Nothing /\ RoleNamesOf(d)[u] = r.name
  BY <1>1, NameIs DEF RoleNamesOf
<1>10. \A u \in User : d.role[u] # Nothing => \E r \in d.roles : d.role[u] = r.id
  BY <1>1 DEF Ids
<1> QED
  BY <1>2, <1>3, <1>4, <1>5, <1>6, <1>7, <1>8, <1>9, <1>10

(* The check over joined tables gives what the roster gives by name. *)
LEMMA ChecksByName ==
    ASSUME Sound(acl, serial), NEW u \in User
    PROVE  GetAllPermissionsUserHas(u) = ByName!Permitted(u)
<1> DEFINE mine == {g \in acl.groups : [user |-> u, group |-> g.id] \in acl.members}
           names == {x \in DOMAIN MembersOf(acl) : u \in MembersOf(acl)[x]}
<1>1. ByName!Permitted(u) = UNION {GrantsByName(acl.permissions)[GroupsOf(acl)[x]] : x \in names}
  BY DEF ByName!Permitted, MembersOf, GroupsOf
<1>2. DOMAIN MembersOf(acl) = {g.name : g \in acl.groups}
  BY DEF MembersOf, Names
<1>3. \A g \in acl.groups : g.name \in names <=> g \in mine
  BY <1>2, Found
<1>4. \A x \in names : \E g \in mine : g.name = x
  BY <1>2, <1>3
<1>5. ASSUME NEW g \in mine, NEW p \in acl.permissions, g.permissions = p.id
      PROVE  GrantsByName(acl.permissions)[GroupsOf(acl)[g.name]] = p.grants
  BY <1>5, Found
<1>6. ASSUME NEW slot \in GetAllPermissionsUserHas(u) PROVE slot \in ByName!Permitted(u)
  <2>1. PICK p \in acl.permissions, g \in mine : g.permissions = p.id /\ slot \in p.grants
    BY <1>6 DEF GetAllPermissionsUserHas
  <2>2. slot \in GrantsByName(acl.permissions)[GroupsOf(acl)[g.name]] /\ g.name \in names
    BY <1>3, <1>5, <2>1
  <2> QED
    BY <1>1, <2>2
<1>7. ASSUME NEW slot \in ByName!Permitted(u) PROVE slot \in GetAllPermissionsUserHas(u)
  <2>1. PICK x \in names : slot \in GrantsByName(acl.permissions)[GroupsOf(acl)[x]]
    BY <1>1, <1>7
  <2>2. PICK g \in mine : g.name = x
    BY <1>4
  <2>3. PICK p \in acl.permissions : g.permissions = p.id
    BY Found
  <2>4. slot \in p.grants
    BY <1>5, <2>1, <2>2, <2>3
  <2> QED
    BY <2>3, <2>4 DEF GetAllPermissionsUserHas
<1> QED
  BY <1>6, <1>7

(* The checks of a request permit exactly what the caller's groups give    *)
(* together.                                                               *)
THEOREM ChecksFollowRosterCorrect == AccessSpec => []ChecksFollowRoster
<1>1. Sound(acl, serial) => ChecksFollowRoster
  BY ChecksByName DEF ChecksFollowRoster, DoesUserHavePermissions
<1> QED
  BY <1>1, SoundAlways, PTL

-----------------------------------------------------------------------------
(* Every request is a step of the roster *)

LEMMA GrantsAdded ==
    ASSUME NEW rows, NEW row, row \notin rows, Unique(rows \union {row})
    PROVE  /\ row.name \notin Names(rows)
           /\ GrantsByName(rows \union {row}) = ByName!Defined(GrantsByName(rows), row.name, row.grants)
<1>1. row.name \notin Names(rows) /\ Unique(rows)
  BY DEF Unique, Names
<1>2. Names(rows \union {row}) = Names(rows) \union {row.name}
  BY DEF Names
<1>3. Row(rows \union {row}, row.name) = row
  BY RowIs
<1>4. ASSUME NEW x \in Names(rows)
      PROVE  Row(rows \union {row}, x) = Row(rows, x) /\ x # row.name
  <2>1. PICK r \in rows : r.name = x
    BY DEF Names
  <2> QED
    BY <1>1, <2>1, RowIs
<1>5. DOMAIN GrantsByName(rows) = Names(rows)
  BY DEF GrantsByName
<1> QED
  BY <1>1, <1>2, <1>3, <1>4, <1>5 DEF GrantsByName, ByName!Defined

LEMMA GrantsEdited ==
    ASSUME NEW rows, NEW n, Unique(rows), Named(rows, n) # {}, NEW row, row.name = n
    PROVE  /\ n \in Names(rows)
           /\ GrantsByName(Others(rows, n) \union {row}) =
                 ByName!Defined(GrantsByName(rows), n, row.grants)
<1> DEFINE new == Others(rows, n) \union {row}
<1>1. n \in Names(rows) /\ Unique(new)
  BY DEF Unique, Names, Others, Named
<1>2. Names(new) = Names(rows)
  BY <1>1 DEF Names, Others
<1>3. Row(new, n) = row
  BY <1>1, RowIs
<1>4. ASSUME NEW x \in Names(rows), x # n
      PROVE  Row(new, x) = Row(rows, x)
  <2>1. PICK r \in rows : r.name = x
    BY DEF Names
  <2>2. r \in new
    BY <1>4, <2>1 DEF Others
  <2> QED
    BY <1>1, <2>1, <2>2, RowIs
<1>5. DOMAIN GrantsByName(rows) = Names(rows)
  BY DEF GrantsByName
<1> HIDE DEF new
<1>6. GrantsByName(new) = ByName!Defined(GrantsByName(rows), n, row.grants)
  BY <1>1, <1>2, <1>3, <1>4, <1>5 DEF GrantsByName, ByName!Defined
<1> QED
  BY <1>1, <1>6 DEF new

LEMMA GrantsDropped ==
    ASSUME NEW rows, NEW n, Unique(rows)
    PROVE  GrantsByName(Others(rows, n)) = ByName!Dropped(GrantsByName(rows), n)
<1>1. Unique(Others(rows, n)) /\ Names(Others(rows, n)) = Names(rows) \ {n}
  BY DEF Unique, Others, Names
<1>2. ASSUME NEW x \in Names(Others(rows, n)) PROVE Row(Others(rows, n), x) = Row(rows, x)
  <2>1. PICK r \in Others(rows, n) : r.name = x
    BY DEF Names
  <2>2. r \in rows
    BY DEF Others
  <2> QED
    BY <1>1, <2>1, <2>2, RowIs
<1>3. DOMAIN GrantsByName(rows) = Names(rows)
  BY DEF GrantsByName
<1> QED
  BY <1>1, <1>2, <1>3 DEF GrantsByName, ByName!Dropped

(* Rows that keep number and name keep what refers to them. *)
LEMMA RoleNameKept ==
    ASSUME NEW d, NEW s, Sound(d, s), NEW e, NEW t, Sound(e, t), NEW u \in User,
           e.role[u] = d.role[u],
           \A r \in d.roles : r.id = d.role[u] => \E q \in e.roles : q.id = r.id /\ q.name = r.name
    PROVE  RoleNamesOf(e)[u] = RoleNamesOf(d)[u]
<1>1. CASE d.role[u] = Nothing
  BY <1>1, Found
<1>2. CASE d.role[u] # Nothing
  <2>1. PICK r \in d.roles : d.role[u] = r.id
    BY <1>2, Found
  <2>2. PICK q \in e.roles : q.id = r.id /\ q.name = r.name
    BY <2>1
  <2>3. RoleNamesOf(d)[u] = r.name
    BY <2>1, Found
  <2>4. RoleNamesOf(e)[u] = q.name
    BY <2>1, <2>2, Found
  <2> QED
    BY <2>2, <2>3, <2>4
<1> QED
  BY <1>1, <1>2

LEMMA GroupKept ==
    ASSUME NEW d, NEW s, Sound(d, s), NEW e, NEW t, Sound(e, t),
           NEW g, g \in d.groups, g \in e.groups,
           \A p \in d.permissions :
              p.id = g.permissions => \E q \in e.permissions : q.id = p.id /\ q.name = p.name
    PROVE  GroupsOf(e)[g.name] = GroupsOf(d)[g.name]
<1>1. PICK p \in d.permissions : g.permissions = p.id
  BY Found
<1>2. PICK q \in e.permissions : q.id = p.id /\ q.name = p.name
  BY <1>1
<1>3. GroupsOf(d)[g.name] = p.name
  BY <1>1, Found
<1>4. GroupsOf(e)[g.name] = q.name
  BY <1>1, <1>2, Found
<1> QED
  BY <1>2, <1>3, <1>4

LEMMA AllRoleNamesKept ==
    ASSUME NEW d, NEW s, Sound(d, s), NEW e, NEW t, Sound(e, t), e.role = d.role,
           \A r \in d.roles : \E q \in e.roles : q.id = r.id /\ q.name = r.name
    PROVE  RoleNamesOf(e) = RoleNamesOf(d)
<1>1. \A u \in User : RoleNamesOf(e)[u] = RoleNamesOf(d)[u]
  BY RoleNameKept
<1> QED
  BY <1>1 DEF RoleNamesOf

LEMMA AllGroupsKept ==
    ASSUME NEW d, NEW s, Sound(d, s), NEW e, NEW t, Sound(e, t), e.groups = d.groups,
           \A g \in d.groups, p \in d.permissions :
              p.id = g.permissions => \E q \in e.permissions : q.id = p.id /\ q.name = p.name
    PROVE  GroupsOf(e) = GroupsOf(d)
<1>1. \A g \in d.groups : GroupsOf(e)[g.name] = GroupsOf(d)[g.name]
  BY GroupKept
<1>2. \A x \in Names(d.groups) : GroupsOf(e)[x] = GroupsOf(d)[x]
  BY <1>1 DEF Names
<1> QED
  BY <1>2 DEF GroupsOf

LEMMA CreateRoleByName ==
    ASSUME Sound(acl, serial), Sound(acl, serial)', NEW n, NEW g, CreateRole(n, g)
    PROVE  ByName!CreateRole(n, g)
<1> DEFINE row == [id |-> serial.roles + 1, name |-> n, grants |-> g]
<1>1. /\ acl'.roles = acl.roles \union {row} /\ row.id \in Id
      /\ acl'.permissions = acl.permissions /\ acl'.groups = acl.groups
      /\ acl'.members = acl.members /\ acl'.role = acl.role
  BY DEF CreateRole, Insert, Sound, Columns
<1>2. row \notin acl.roles /\ row.name = n /\ row.grants = g
  <2>1. Numbered(acl.roles, serial.roles) /\ row.id = serial.roles + 1 /\ row.id \in Id
        /\ \A r \in acl.roles : r.id \in Id
    BY <1>1 DEF Sound, RoleRow
  <2>2. row.name = n /\ row.grants = g
    OBVIOUS
  <2> HIDE DEF row
  <2> QED
    BY <2>1, <2>2, NumberedMore
<1> HIDE DEF row
<1>3. Unique(acl.roles \union {row})
  BY <1>1 DEF Sound, Consistent
<1>4. /\ n \notin Names(acl.roles)
      /\ GrantsByName(acl'.roles) = ByName!Defined(GrantsByName(acl.roles), n, g)
  BY <1>1, <1>2, <1>3, GrantsAdded
<1>5. RoleNamesOf(acl') = RoleNamesOf(acl)
  BY <1>1, AllRoleNamesKept
<1>6. GroupsOf(acl') = GroupsOf(acl) /\ MembersOf(acl') = MembersOf(acl)
  BY <1>1 DEF GroupsOf, MembersOf
<1>7. DOMAIN GrantsByName(acl.roles) = Names(acl.roles)
  BY DEF GrantsByName
<1> QED
  BY <1>1, <1>4, <1>5, <1>6, <1>7
     DEF ByName!CreateRole, GroupsOf, MembersOf, RoleNamesOf

LEMMA EditRoleByName ==
    ASSUME Sound(acl, serial), Sound(acl, serial)', NEW n, NEW g, EditRole(n, g)
    PROVE  ByName!EditRole(n, g)
<1> DEFINE old == Row(acl.roles, n)
           row == [old EXCEPT !.grants = g]
<1>1. /\ acl'.roles = Others(acl.roles, n) \union {row} /\ Named(acl.roles, n) # {}
      /\ acl'.permissions = acl.permissions /\ acl'.groups = acl.groups
      /\ acl'.members = acl.members /\ acl'.role = acl.role
  BY TransactionEnd DEF EditRole, Edited, Sound, Columns
<1>2. old \in acl.roles /\ old.name = n /\ old \in RoleRow
  BY <1>1, RowOfName DEF Sound
<1>3. row.name = n /\ row.grants = g /\ row.id = old.id
  BY <1>2 DEF RoleRow
<1>4. Unique(acl.roles)
  BY DEF Sound, Consistent
<1> HIDE DEF row
<1>5. /\ n \in Names(acl.roles)
      /\ GrantsByName(acl'.roles) = ByName!Defined(GrantsByName(acl.roles), n, g)
  BY <1>1, <1>3, <1>4, GrantsEdited
<1>6. \A r \in acl.roles : \E q \in acl'.roles : q.id = r.id /\ q.name = r.name
  <2> TAKE r \in acl.roles
  <2>1. CASE r.name = n
    BY <1>1, <1>2, <1>3, <1>4, <2>1 DEF Unique
  <2>2. CASE r.name # n
    BY <1>1, <2>2 DEF Others
  <2> QED
    BY <2>1, <2>2
<1>7. RoleNamesOf(acl') = RoleNamesOf(acl)
  BY <1>1, <1>6, AllRoleNamesKept
<1>8. GroupsOf(acl') = GroupsOf(acl) /\ MembersOf(acl') = MembersOf(acl)
  BY <1>1 DEF GroupsOf, MembersOf
<1>9. DOMAIN GrantsByName(acl.roles) = Names(acl.roles)
  BY DEF GrantsByName
<1> QED
  BY <1>1, <1>5, <1>7, <1>8, <1>9
     DEF ByName!EditRole, GroupsOf, MembersOf, RoleNamesOf

LEMMA DeleteRoleByName ==
    ASSUME Sound(acl, serial), Sound(acl, serial)', NEW n, DeleteRole(n)
    PROVE  ByName!DeleteRole(n)
<1> DEFINE old == Row(acl.roles, n)
<1>1. /\ old \in acl.roles /\ old.name = n
      /\ acl'.roles = Others(acl.roles, n)
      /\ acl'.role = [u \in User |-> IF acl.role[u] = old.id THEN Nothing ELSE acl.role[u]]
      /\ acl'.permissions = acl.permissions /\ acl'.groups = acl.groups
      /\ acl'.members = acl.members
  BY DeleteRoleEffect
<1>2. Unique(acl.roles)
  BY DEF Sound, Consistent
<1> HIDE DEF old
<1>3. GrantsByName(acl'.roles) = ByName!Dropped(GrantsByName(acl.roles), n)
  BY <1>1, <1>2, GrantsDropped
<1>4. ASSUME NEW u \in User
      PROVE  RoleNamesOf(acl')[u] =
                IF RoleNamesOf(acl)[u] = n THEN Nothing ELSE RoleNamesOf(acl)[u]
  <2>1. CASE acl.role[u] = old.id
    <3>1. RoleNamesOf(acl)[u] = n
      BY <1>1, <2>1, Found
    <3>2. RoleNamesOf(acl')[u] = Nothing
      BY <1>1, <2>1, Found
    <3> QED
      BY <3>1, <3>2
  <2>2. CASE acl.role[u] # old.id /\ acl.role[u] # Nothing
    <3>1. PICK r \in acl.roles : acl.role[u] = r.id
      BY <2>2, Found
    <3>2. r.name # n
      BY <1>1, <1>2, <2>2, <3>1 DEF Unique
    <3>3. r \in acl'.roles /\ acl'.role[u] = r.id
      BY <1>1, <2>2, <3>1, <3>2 DEF Others
    <3>4. RoleNamesOf(acl)[u] = r.name
      BY <3>1, Found
    <3>5. RoleNamesOf(acl')[u] = r.name
      BY <3>3, Found
    <3> QED
      BY <3>2, <3>4, <3>5
  <2>3. CASE acl.role[u] = Nothing
    <3>1. acl'.role[u] = Nothing
      BY <1>1, <2>3
    <3> QED
      BY <2>3, <3>1, Found
  <2> QED
    BY <2>1, <2>2, <2>3
<1>5. RoleNamesOf(acl') = [u \in User |-> IF RoleNamesOf(acl)[u] = n THEN Nothing
                                         ELSE RoleNamesOf(acl)[u]]
  BY <1>4 DEF RoleNamesOf
<1>6. GroupsOf(acl') = GroupsOf(acl) /\ MembersOf(acl') = MembersOf(acl)
  BY <1>1 DEF GroupsOf, MembersOf
<1>7. n \in DOMAIN GrantsByName(acl.roles)
  BY <1>1 DEF GrantsByName, Names
<1> QED
  BY <1>1, <1>3, <1>5, <1>6, <1>7
     DEF ByName!DeleteRole, GroupsOf, MembersOf, RoleNamesOf

LEMMA AssignRoleByName ==
    ASSUME Sound(acl, serial), Sound(acl, serial)', NEW u \in User, NEW n, AssignRole(u, n)
    PROVE  ByName!AssignRole(u, n)
<1> DEFINE row == Row(acl.roles, n)
<1>1. /\ row \in acl.roles /\ row.name = n
      /\ acl'.role = [acl.role EXCEPT ![u] = row.id]
      /\ acl'.roles = acl.roles /\ acl'.permissions = acl.permissions
      /\ acl'.groups = acl.groups /\ acl'.members = acl.members
  BY AssignRoleEffect
<1>2. DOMAIN acl.role = User
  BY DEF Sound
<1> HIDE DEF row
<1>3. RoleNamesOf(acl')[u] = n
  <2>1. acl'.role[u] = row.id /\ row \in acl'.roles
    BY <1>1, <1>2
  <2> QED
    BY <1>1, <2>1, Found
<1>4. ASSUME NEW x \in User, x # u PROVE RoleNamesOf(acl')[x] = RoleNamesOf(acl)[x]
  <2>1. acl'.role[x] = acl.role[x]
    BY <1>1, <1>2, <1>4
  <2>2. \A r \in acl.roles : \E q \in acl'.roles : q.id = r.id /\ q.name = r.name
    BY <1>1
  <2> QED
    BY <2>1, <2>2, RoleNameKept
<1>5. RoleNamesOf(acl') = [RoleNamesOf(acl) EXCEPT ![u] = n]
  BY <1>3, <1>4 DEF RoleNamesOf
<1>6. GroupsOf(acl') = GroupsOf(acl) /\ MembersOf(acl') = MembersOf(acl)
  BY <1>1 DEF GroupsOf, MembersOf
<1>7. n \in DOMAIN GrantsByName(acl.roles)
  BY <1>1 DEF GrantsByName, Names
<1> QED
  BY <1>1, <1>5, <1>6, <1>7
     DEF ByName!AssignRole, GroupsOf, MembersOf, RoleNamesOf

LEMMA CreatePermissionByName ==
    ASSUME Sound(acl, serial), Sound(acl, serial)', NEW n, NEW g, CreatePermission(n, g)
    PROVE  ByName!CreatePermission(n, g)
<1> DEFINE row == NewPermission(n, g)
<1>1. /\ acl'.permissions = acl.permissions \union {row} /\ row.id \in Id
      /\ acl'.roles = acl.roles /\ acl'.groups = acl.groups
      /\ acl'.members = acl.members /\ acl'.role = acl.role
  BY DEF CreatePermission, Insert, Sound, Columns
<1>2. row \notin acl.permissions /\ row.name = n /\ row.grants = g
  <2>1. Numbered(acl.permissions, serial.permissions) /\ row.id = serial.permissions + 1
        /\ row.id \in Id /\ \A r \in acl.permissions : r.id \in Id
    BY <1>1 DEF Sound, PermissionRow, NewPermission
  <2>2. row.name = n /\ row.grants = g
    BY DEF NewPermission
  <2> HIDE DEF row
  <2> QED
    BY <2>1, <2>2, NumberedMore
<1> HIDE DEF row
<1>3. Unique(acl.permissions \union {row})
  BY <1>1 DEF Sound, Consistent
<1>4. /\ n \notin Names(acl.permissions)
      /\ GrantsByName(acl'.permissions) = ByName!Defined(GrantsByName(acl.permissions), n, g)
  BY <1>1, <1>2, <1>3, GrantsAdded
<1>5. GroupsOf(acl') = GroupsOf(acl)
  BY <1>1, AllGroupsKept
<1>6. RoleNamesOf(acl') = RoleNamesOf(acl) /\ MembersOf(acl') = MembersOf(acl)
  BY <1>1 DEF RoleNamesOf, MembersOf
<1>7. DOMAIN GrantsByName(acl.permissions) = Names(acl.permissions)
  BY DEF GrantsByName
<1> QED
  BY <1>1, <1>4, <1>5, <1>6, <1>7
     DEF ByName!CreatePermission, GroupsOf, MembersOf, RoleNamesOf

LEMMA EditPermissionByName ==
    ASSUME Sound(acl, serial), Sound(acl, serial)', NEW n, NEW g, EditPermission(n, g)
    PROVE  ByName!EditPermission(n, g)
<1> DEFINE old == Row(acl.permissions, n)
           row == [old EXCEPT !.grants = g]
<1>1. /\ acl'.permissions = Others(acl.permissions, n) \union {row}
      /\ Named(acl.permissions, n) # {}
      /\ acl'.roles = acl.roles /\ acl'.groups = acl.groups
      /\ acl'.members = acl.members /\ acl'.role = acl.role
  BY TransactionEnd DEF EditPermission, Edited, Sound, Columns
<1>2. old \in acl.permissions /\ old.name = n /\ old \in PermissionRow
  BY <1>1, RowOfName DEF Sound
<1>3. row.name = n /\ row.grants = g /\ row.id = old.id
  BY <1>2 DEF PermissionRow
<1>4. Unique(acl.permissions)
  BY DEF Sound, Consistent
<1> HIDE DEF row
<1>5. /\ n \in Names(acl.permissions)
      /\ GrantsByName(acl'.permissions) = ByName!Defined(GrantsByName(acl.permissions), n, g)
  BY <1>1, <1>3, <1>4, GrantsEdited
<1>6. \A r \in acl.permissions : \E q \in acl'.permissions : q.id = r.id /\ q.name = r.name
  <2> TAKE r \in acl.permissions
  <2>1. CASE r.name = n
    BY <1>1, <1>2, <1>3, <1>4, <2>1 DEF Unique
  <2>2. CASE r.name # n
    BY <1>1, <2>2 DEF Others
  <2> QED
    BY <2>1, <2>2
<1>7. GroupsOf(acl') = GroupsOf(acl)
  BY <1>1, <1>6, AllGroupsKept
<1>8. RoleNamesOf(acl') = RoleNamesOf(acl) /\ MembersOf(acl') = MembersOf(acl)
  BY <1>1 DEF RoleNamesOf, MembersOf
<1>9. DOMAIN GrantsByName(acl.permissions) = Names(acl.permissions)
  BY DEF GrantsByName
<1> QED
  BY <1>1, <1>5, <1>7, <1>8, <1>9
     DEF ByName!EditPermission, GroupsOf, MembersOf, RoleNamesOf

LEMMA DeletePermissionByName ==
    ASSUME Sound(acl, serial), Sound(acl, serial)', NEW n, DeletePermission(n)
    PROVE  ByName!DeletePermission(n)
<1>1. /\ acl'.permissions = Others(acl.permissions, n)
      /\ acl'.roles = acl.roles /\ acl'.groups = acl.groups
      /\ acl'.members = acl.members /\ acl'.role = acl.role
  BY DeletePermissionEffect
<1>2. Unique(acl.permissions)
  BY DEF Sound, Consistent
<1>3. GrantsByName(acl'.permissions) = ByName!Dropped(GrantsByName(acl.permissions), n)
  BY <1>1, <1>2, GrantsDropped
<1>4. ASSUME NEW g \in acl.groups, NEW p \in acl.permissions, p.id = g.permissions
      PROVE  p \in acl'.permissions
  <2>1. PICK q \in acl'.permissions : g.permissions = q.id
    BY <1>1, Found
  <2>2. q \in acl.permissions
    BY <1>1, <2>1 DEF Others
  <2>3. q = p
    BY <1>4, <2>1, <2>2 DEF Sound, Numbered
  <2> QED
    BY <2>1, <2>3
<1>5. GroupsOf(acl') = GroupsOf(acl)
  BY <1>1, <1>4, AllGroupsKept
<1>6. \A x \in DOMAIN GroupsOf(acl) : GroupsOf(acl)[x] # n
  <2> TAKE x \in DOMAIN GroupsOf(acl)
  <2>1. PICK g \in acl.groups : g.name = x
    BY DEF GroupsOf, Names
  <2>2. PICK p \in acl.permissions : g.permissions = p.id
    BY Found
  <2>3. p.name # n
    BY <1>1, <1>4, <2>2 DEF Others
  <2>4. GroupsOf(acl)[g.name] = p.name
    BY <2>2, Found
  <2> QED
    BY <2>1, <2>3, <2>4
<1>7. RoleNamesOf(acl') = RoleNamesOf(acl) /\ MembersOf(acl') = MembersOf(acl)
  BY <1>1 DEF RoleNamesOf, MembersOf
<1> QED
  BY <1>1, <1>3, <1>5, <1>6, <1>7
     DEF ByName!DeletePermission, GroupsOf, MembersOf, RoleNamesOf

LEMMA CreateGroupByName ==
    ASSUME Sound(acl, serial), Sound(acl, serial)', NEW n, NEW p, CreateGroup(n, p)
    PROVE  ByName!CreateGroup(n, p)
<1> DEFINE row == NewGroup(n, p)
           permission == Row(acl.permissions, p)
<1>1. /\ acl'.groups = acl.groups \union {row} /\ row.id \in Id
      /\ permission \in acl.permissions /\ permission.name = p
      /\ acl'.roles = acl.roles /\ acl'.permissions = acl.permissions
      /\ acl'.members = acl.members /\ acl'.role = acl.role
  BY RowOfName DEF CreateGroup, Insert, Sound, Columns
<1>2. row.id = serial.groups + 1 /\ row.name = n /\ row.permissions = permission.id
  BY DEF NewGroup
<1> HIDE DEF row, permission
<1>3. row \notin acl.groups /\ \A g \in acl.groups : g.id # row.id
  <2>1. /\ serial.groups \in Int /\ row.id \in Int
        /\ \A g \in acl.groups : g.id \in Int /\ g.id <= serial.groups
    BY <1>1 DEF Sound, Numbered, Id, GroupRow
  <2> QED
    BY <1>2, <2>1
<1>4. n \notin Names(acl.groups)
  BY <1>1, <1>2, <1>3 DEF Names, Sound, Consistent, Unique
<1>5. Names(acl'.groups) = Names(acl.groups) \union {n}
  BY <1>1, <1>2 DEF Names
<1>6. GroupsOf(acl')[n] = p
  <2>1. row \in acl'.groups /\ permission \in acl'.permissions
    BY <1>1
  <2> QED
    BY <1>1, <1>2, <2>1, Found
<1>7. \A x \in Names(acl.groups) : GroupsOf(acl')[x] = GroupsOf(acl)[x]
  <2>1. \A g \in acl.groups : GroupsOf(acl')[g.name] = GroupsOf(acl)[g.name]
    <3> TAKE g \in acl.groups
    <3>1. g \in acl'.groups
      BY <1>1
    <3>2. \A q \in acl.permissions : q.id = g.permissions =>
             \E r \in acl'.permissions : r.id = q.id /\ r.name = q.name
      BY <1>1
    <3> QED
      BY <3>1, <3>2, GroupKept
  <2> QED
    BY <2>1 DEF Names
<1>8. GroupsOf(acl') = ByName!Defined(GroupsOf(acl), n, p)
  BY <1>4, <1>5, <1>6, <1>7 DEF GroupsOf, ByName!Defined
<1>9. MembersOf(acl')[n] = {}
  <2>1. row \in acl'.groups
    BY <1>1
  <2>2. MembersOf(acl')[n] = {u \in User : [user |-> u, group |-> row.id] \in acl.members}
    BY <1>1, <1>2, <2>1, Found
  <2>3. \A m \in acl.members : m.group # row.id
    BY <1>3 DEF Sound, Consistent, Ids
  <2> QED
    BY <2>2, <2>3
<1>10. \A x \in Names(acl.groups) : MembersOf(acl')[x] = MembersOf(acl)[x]
  <2>1. \A g \in acl.groups : MembersOf(acl')[g.name] = MembersOf(acl)[g.name]
    <3> TAKE g \in acl.groups
    <3>1. g \in acl'.groups
      BY <1>1
    <3>2. MembersOf(acl')[g.name] = {u \in User : [user |-> u, group |-> g.id] \in acl'.members}
      BY <3>1, Found
    <3>3. MembersOf(acl)[g.name] = {u \in User : [user |-> u, group |-> g.id] \in acl.members}
      BY Found
    <3> QED
      BY <1>1, <3>2, <3>3
  <2> QED
    BY <2>1 DEF Names
<1>11. MembersOf(acl') = ByName!Defined(MembersOf(acl), n, {})
  BY <1>4, <1>5, <1>9, <1>10 DEF MembersOf, ByName!Defined
<1>12. RoleNamesOf(acl') = RoleNamesOf(acl)
  BY <1>1 DEF RoleNamesOf
<1>13. /\ p \in DOMAIN GrantsByName(acl.permissions)
       /\ DOMAIN GroupsOf(acl) = Names(acl.groups)
  BY <1>1 DEF GrantsByName, Names, GroupsOf
<1> QED
  BY <1>1, <1>4, <1>8, <1>11, <1>12, <1>13
     DEF ByName!CreateGroup, GroupsOf, MembersOf, RoleNamesOf

LEMMA DeleteGroupByName ==
    ASSUME Sound(acl, serial), Sound(acl, serial)', NEW n, DeleteGroup(n)
    PROVE  ByName!DeleteGroup(n)
<1>1. /\ acl'.groups = Others(acl.groups, n)
      /\ acl'.members = {m \in acl.members : m.group \notin Ids(Named(acl.groups, n))}
      /\ acl'.roles = acl.roles /\ acl'.permissions = acl.permissions
      /\ acl'.role = acl.role
  BY DeleteGroupEffect
<1>2. Names(acl'.groups) = Names(acl.groups) \ {n}
  BY <1>1 DEF Names, Others
<1>3. ASSUME NEW x \in Names(acl'.groups)
      PROVE  GroupsOf(acl')[x] = GroupsOf(acl)[x] /\ MembersOf(acl')[x] = MembersOf(acl)[x]
  <2>1. PICK g \in acl'.groups : g.name = x
    BY DEF Names
  <2>2. g \in acl.groups /\ g.name # n
    BY <1>1, <2>1 DEF Others
  <2>3. GroupsOf(acl')[g.name] = GroupsOf(acl)[g.name]
    <3>1. \A q \in acl.permissions : q.id = g.permissions =>
             \E r \in acl'.permissions : r.id = q.id /\ r.name = q.name
      BY <1>1
    <3> QED
      BY <2>1, <2>2, <3>1, GroupKept
  <2>4. g.id \notin Ids(Named(acl.groups, n))
    BY <2>2 DEF Ids, Named, Sound, Numbered
  <2>5. \A u \in User : [user |-> u, group |-> g.id] \in acl'.members
                           <=> [user |-> u, group |-> g.id] \in acl.members
    BY <1>1, <2>4
  <2>6. MembersOf(acl')[g.name] = {u \in User : [user |-> u, group |-> g.id] \in acl'.members}
    BY <2>1, Found
  <2>7. MembersOf(acl)[g.name] = {u \in User : [user |-> u, group |-> g.id] \in acl.members}
    BY <2>2, Found
  <2> QED
    BY <2>1, <2>3, <2>5, <2>6, <2>7
<1>4. DOMAIN GroupsOf(acl) = Names(acl.groups) /\ DOMAIN MembersOf(acl) = Names(acl.groups)
  BY DEF GroupsOf, MembersOf
<1>5. GroupsOf(acl') = ByName!Dropped(GroupsOf(acl), n)
  BY <1>2, <1>3, <1>4 DEF GroupsOf, ByName!Dropped
<1>6. MembersOf(acl') = ByName!Dropped(MembersOf(acl), n)
  BY <1>2, <1>3, <1>4 DEF MembersOf, ByName!Dropped
<1>7. RoleNamesOf(acl') = RoleNamesOf(acl)
  BY <1>1 DEF RoleNamesOf
<1> QED
  BY <1>1, <1>5, <1>6, <1>7
     DEF ByName!DeleteGroup, GroupsOf, MembersOf, RoleNamesOf

(* One user more or less in the group of one name. *)
LEMMA OneMember ==
    ASSUME Sound(acl, serial), Sound(acl, serial)', acl'.groups = acl.groups,
           NEW row \in acl.groups, NEW users,
           \A u \in User : [user |-> u, group |-> row.id] \in acl'.members <=> u \in users,
           \A u \in User, g \in acl.groups : g # row =>
              ([user |-> u, group |-> g.id] \in acl'.members
                 <=> [user |-> u, group |-> g.id] \in acl.members),
           users \subseteq User
    PROVE  MembersOf(acl') = [MembersOf(acl) EXCEPT ![row.name] = users]
<1>1. MembersOf(acl')[row.name] = users
  <2>1. MembersOf(acl')[row.name] = {u \in User : [user |-> u, group |-> row.id] \in acl'.members}
    BY Found
  <2> QED
    BY <2>1
<1>2. ASSUME NEW x \in Names(acl.groups), x # row.name
      PROVE  MembersOf(acl')[x] = MembersOf(acl)[x]
  <2>1. PICK g \in acl.groups : g.name = x
    BY DEF Names
  <2>2. g # row
    BY <1>2, <2>1
  <2>3. MembersOf(acl')[x] = {u \in User : [user |-> u, group |-> g.id] \in acl'.members}
    BY <2>1, Found
  <2>4. MembersOf(acl)[x] = {u \in User : [user |-> u, group |-> g.id] \in acl.members}
    BY <2>1, Found
  <2> QED
    BY <2>2, <2>3, <2>4
<1>3. /\ DOMAIN MembersOf(acl) = Names(acl.groups) /\ DOMAIN MembersOf(acl') = Names(acl.groups)
  BY DEF MembersOf
<1> QED
  BY <1>1, <1>2, <1>3 DEF MembersOf

LEMMA JoinByName ==
    ASSUME Sound(acl, serial), Sound(acl, serial)', NEW u \in User, NEW n, JoinGroup(u, n)
    PROVE  ByName!Join(u, n)
<1> DEFINE row == Row(acl.groups, n)
           users == MembersOf(acl)[n] \union {u}
<1>1. /\ row \in acl.groups /\ row.name = n
      /\ acl'.members = acl.members \union {[user |-> u, group |-> row.id]}
      /\ acl'.roles = acl.roles /\ acl'.permissions = acl.permissions
      /\ acl'.groups = acl.groups /\ acl'.role = acl.role
  BY JoinGroupEffect
<1> HIDE DEF row
<1>2. MembersOf(acl)[n] = {x \in User : [user |-> x, group |-> row.id] \in acl.members}
  BY <1>1, Found
<1>3. \A x \in User : [user |-> x, group |-> row.id] \in acl'.members <=> x \in users
  BY <1>1, <1>2
<1>4. \A x \in User, g \in acl.groups : g # row =>
         ([user |-> x, group |-> g.id] \in acl'.members
            <=> [user |-> x, group |-> g.id] \in acl.members)
  BY <1>1 DEF Sound, Numbered
<1>5. users \subseteq User
  BY <1>2
<1> HIDE DEF users
<1>6. MembersOf(acl') = [MembersOf(acl) EXCEPT ![n] = users]
  BY <1>1, <1>3, <1>4, <1>5, OneMember
<1>7. MembersOf(acl') = [MembersOf(acl) EXCEPT ![n] = @ \union {u}]
  BY <1>6 DEF users
<1>8. GroupsOf(acl') = GroupsOf(acl) /\ RoleNamesOf(acl') = RoleNamesOf(acl)
  BY <1>1 DEF GroupsOf, RoleNamesOf
<1>9. n \in DOMAIN GroupsOf(acl)
  BY <1>1 DEF GroupsOf, Names
<1> QED
  BY <1>1, <1>7, <1>8, <1>9 DEF ByName!Join, GroupsOf, MembersOf, RoleNamesOf

LEMMA LeaveByName ==
    ASSUME Sound(acl, serial), Sound(acl, serial)', NEW u \in User, NEW n, LeaveGroup(u, n)
    PROVE  ByName!Leave(u, n)
<1> DEFINE row == Row(acl.groups, n)
           users == MembersOf(acl)[n] \ {u}
<1>1. /\ row \in acl.groups /\ row.name = n
      /\ acl'.members = acl.members \ {[user |-> u, group |-> row.id]}
      /\ acl'.roles = acl.roles /\ acl'.permissions = acl.permissions
      /\ acl'.groups = acl.groups /\ acl'.role = acl.role
  BY LeaveGroupEffect
<1> HIDE DEF row
<1>2. MembersOf(acl)[n] = {x \in User : [user |-> x, group |-> row.id] \in acl.members}
  BY <1>1, Found
<1>3. \A x \in User : [user |-> x, group |-> row.id] \in acl'.members <=> x \in users
  BY <1>1, <1>2
<1>4. \A x \in User, g \in acl.groups : g # row =>
         ([user |-> x, group |-> g.id] \in acl'.members
            <=> [user |-> x, group |-> g.id] \in acl.members)
  BY <1>1 DEF Sound, Numbered
<1>5. users \subseteq User
  BY <1>2
<1> HIDE DEF users
<1>6. MembersOf(acl') = [MembersOf(acl) EXCEPT ![n] = users]
  BY <1>1, <1>3, <1>4, <1>5, OneMember
<1>7. MembersOf(acl') = [MembersOf(acl) EXCEPT ![n] = @ \ {u}]
  BY <1>6 DEF users
<1>8. GroupsOf(acl') = GroupsOf(acl) /\ RoleNamesOf(acl') = RoleNamesOf(acl)
  BY <1>1 DEF GroupsOf, RoleNamesOf
<1>9. n \in DOMAIN GroupsOf(acl)
  BY <1>1 DEF GroupsOf, Names
<1> QED
  BY <1>1, <1>7, <1>8, <1>9 DEF ByName!Leave, GroupsOf, MembersOf, RoleNamesOf

LEMMA RosterInit == AccessInit => ByName!Init
<1> SUFFICES ASSUME AccessInit PROVE ByName!Init
  OBVIOUS
<1>1. Names(acl.roles) = {} /\ Names(acl.permissions) = {} /\ Names(acl.groups) = {}
  BY DEF AccessInit, Names
<1>2. \A u \in User : acl.role[u] = Nothing
  BY DEF AccessInit
<1> QED
  BY <1>1, <1>2 DEF ByName!Init, GrantsByName

LEMMA RosterStep ==
    ASSUME Sound(acl, serial), Sound(acl, serial)', [AccessNext]_accessVars
    PROVE  [ByName!Next]_(ByName!rosterVars)
<1>1. CASE Unchanged \/ UNCHANGED accessVars
  BY <1>1 DEF Unchanged, accessVars, ByName!rosterVars
<1>2. ASSUME NEW n \in RoleName, NEW g \in RoleGrants, CreateRole(n, g) \/ EditRole(n, g)
      PROVE  ByName!Next
  BY <1>2, CreateRoleByName, EditRoleByName DEF ByName!Next
<1>3. ASSUME NEW n \in RoleName, NEW u \in User, DeleteRole(n) \/ AssignRole(u, n)
      PROVE  ByName!Next
  BY <1>3, DeleteRoleByName, AssignRoleByName DEF ByName!Next
<1>4. ASSUME NEW n \in PermissionName, NEW g \in PermissionGrants,
             CreatePermission(n, g) \/ EditPermission(n, g)
      PROVE  ByName!Next
  BY <1>4, CreatePermissionByName, EditPermissionByName DEF ByName!Next
<1>5. ASSUME NEW n \in PermissionName, DeletePermission(n) PROVE ByName!Next
  BY <1>5, DeletePermissionByName DEF ByName!Next
<1>6. ASSUME NEW n \in GroupName, NEW p \in PermissionName, CreateGroup(n, p) PROVE ByName!Next
  BY <1>6, CreateGroupByName DEF ByName!Next
<1>7. ASSUME NEW n \in GroupName, NEW u \in User,
             DeleteGroup(n) \/ JoinGroup(u, n) \/ LeaveGroup(u, n)
      PROVE  ByName!Next
  BY <1>7, DeleteGroupByName, JoinByName, LeaveByName DEF ByName!Next
<1> QED
  BY <1>1, <1>2, <1>3, <1>4, <1>5, <1>6, <1>7 DEF AccessNext

(* The tables with their serial numbers do what the roster promises in     *)
(* names only: rights come and go with a role, a permission, a group and   *)
(* the membership, and a name that is created again brings nobody back.    *)
THEOREM ImplementsRosterCorrect == AccessSpec => ImplementsRoster
<1>1. Sound(acl, serial) /\ Sound(acl, serial)' /\ [AccessNext]_accessVars => [ByName!Next]_(ByName!rosterVars)
  BY RosterStep
<1> QED
  BY <1>1, RosterInit, SoundAlways, PTL DEF AccessSpec, ImplementsRoster, ByName!Spec
=============================================================================
