------------------------------ MODULE Directory ------------------------------
(***************************************************************************)
(* Who may do what: users, groups and roles (users.service.ts,             *)
(* groups.service.ts, roles.service.ts) and what a request is allowed      *)
(* (validateSessionToken); and the saved ticket views of a user, which are *)
(* written the same way.                                                   *)
(*                                                                         *)
(* An update replaces a list in a transaction: it deletes the rows it sees *)
(* and inserts the new ones.  Rows committed in between by another one     *)
(* stay.  Names and e-mail addresses are left out.                         *)
(***************************************************************************)
EXTENDS Requests

CONSTANTS User, Group, Role, Permission, View,
          Founder,         \* the first administrator
          Clerk            \* request slots

ASSUME FounderAssumption == Founder \in User

VARIABLES
    user,           \* users: active, groups; Absent when deleted
    group,          \* groups: roles, system
    role,           \* roles: permissions, system
    view,           \* user_ticket_views of one user: their isDefault
    work            \* requests in progress

directoryVars == <<user, group, role, view, work>>

UserRow == [active : BOOLEAN, groups : SUBSET Group]
GroupRow == [roles : SUBSET Role, system : BOOLEAN]
Flag == {"default", "plain", "none"}
RoleRow == [permissions : SUBSET Permission, system : BOOLEAN]

DirectoryTypeOK ==
    /\ user \in [User -> UserRow \cup {Absent}]
    /\ group \in [Group -> GroupRow \cup {Absent}]
    /\ role \in [Role -> RoleRow \cup {Absent}]
    /\ view \in [View -> Flag]

\* The seed: one administrator in a system group with a system role.
DirectoryInit ==
    \E g \in Group, k \in Role :
       /\ user = [u \in User |-> IF u = Founder THEN [active |-> TRUE, groups |-> {g}] ELSE Absent]
       /\ group = [h \in Group |-> IF h = g THEN [roles |-> {k}, system |-> TRUE] ELSE Absent]
       /\ role = [j \in Role |-> IF j = k THEN [permissions |-> Permission, system |-> TRUE] ELSE Absent]
       /\ view = [v \in View |-> "none"]
       /\ work = [c \in Clerk |-> Idle]

Works(c, q) == work' = [work EXCEPT ![c] = q]

\* validateSessionToken: the permissions of the roles of the groups of an active user.
Allowed(u) ==
    IF user[u] = Absent \/ ~user[u].active THEN {}
    ELSE UNION {role[k].permissions : k \in UNION {group[g].roles : g \in user[u].groups}}

(***************************************************************************)
(* users.service.ts                                                        *)
(***************************************************************************)

\* ensureGroupsBelongToOrganization and ensureRolesBelongToOrganization.
GroupsExist(groups) == groups \subseteq Present(group)
RolesExist(roles) == roles \subseteq Present(role)

CreateUser(c, by, u, groups) ==
    /\ work[c] = Idle /\ "manage" \in Allowed(by)
    /\ user[u] = Absent /\ u # Founder /\ GroupsExist(groups)
    /\ Works(c, [op |-> "insertUser", user |-> u, groups |-> groups])
    /\ UNCHANGED <<user, group, role, view>>

\* A group deleted meanwhile makes the insert fail.
InsertUser(c) ==
    /\ work[c].op = "insertUser"
    /\ LET q == work[c] IN
       user' = IF user[q.user] = Absent /\ q.groups \subseteq Present(group)
               THEN [user EXCEPT ![q.user] = [active |-> TRUE, groups |-> q.groups]] ELSE user
    /\ Works(c, Idle)
    /\ UNCHANGED <<group, role, view>>

\* Mutant: the own account not looked at.
UpdateAnyUser(c, by, u, active, groups) ==
    /\ work[c] = Idle /\ "manage" \in Allowed(by)
    /\ user[u] # Absent /\ GroupsExist(groups)
    /\ Works(c, [op |-> "clearGroups", user |-> u, active |-> active, groups |-> groups])
    /\ UNCHANGED <<user, group, role, view>>

UpdateUser(c, by, u, active, groups) ==
    /\ work[c] = Idle /\ "manage" \in Allowed(by)
    /\ user[u] # Absent /\ GroupsExist(groups)
    /\ u = by => active
    /\ Works(c, [op |-> "clearGroups", user |-> u, active |-> active, groups |-> groups])
    /\ UNCHANGED <<user, group, role, view>>

\* deleteMany in the transaction.
ClearGroups(c) ==
    /\ work[c].op = "clearGroups"
    /\ LET q == work[c] IN
       Works(c, [op |-> "joinGroups", user |-> q.user, active |-> q.active, groups |-> q.groups,
                 seen |-> IF user[q.user] = Absent THEN {} ELSE user[q.user].groups])
    /\ UNCHANGED <<user, group, role, view>>

\* createMany, the update and the commit.
JoinGroups(c) ==
    /\ work[c].op = "joinGroups"
    /\ LET q == work[c] IN
       user' = IF user[q.user] # Absent /\ q.groups \subseteq Present(group)
               THEN [user EXCEPT ![q.user] = [active |-> q.active, groups |-> (@.groups \ q.seen) \cup q.groups]]
               ELSE user
    /\ Works(c, Idle)
    /\ UNCHANGED <<group, role, view>>

\* softDelete.
DeleteUser(by, u) ==
    /\ "manage" \in Allowed(by) /\ u # by /\ user[u] # Absent
    /\ user' = [user EXCEPT ![u] = Absent]
    /\ UNCHANGED <<group, role, view, work>>

(***************************************************************************)
(* groups.service.ts                                                       *)
(***************************************************************************)

\* create: the group with its roles.
CreateGroup(by, g, roles) ==
    /\ "manage" \in Allowed(by) /\ group[g] = Absent /\ RolesExist(roles)
    /\ group' = [group EXCEPT ![g] = [roles |-> roles, system |-> FALSE]]
    /\ UNCHANGED <<user, role, view, work>>

UpdateGroup(c, by, g, roles) ==
    /\ work[c] = Idle /\ "manage" \in Allowed(by)
    /\ group[g] # Absent /\ RolesExist(roles)
    /\ Works(c, [op |-> "setRoles", group |-> g, roles |-> roles, seen |-> group[g].roles])
    /\ UNCHANGED <<user, group, role, view>>

\* Mutant: a role deleted meanwhile is linked.
SetAnyRoles(c) ==
    /\ work[c].op = "setRoles"
    /\ LET q == work[c] IN
       group' = IF group[q.group] # Absent
                THEN [group EXCEPT ![q.group].roles = (@ \ q.seen) \cup q.roles] ELSE group
    /\ Works(c, Idle)
    /\ UNCHANGED <<user, role, view>>

SetRoles(c) ==
    /\ work[c].op = "setRoles"
    /\ LET q == work[c] IN
       group' = IF group[q.group] # Absent /\ q.roles \subseteq Present(role)
                THEN [group EXCEPT ![q.group].roles = (@ \ q.seen) \cup q.roles] ELSE group
    /\ Works(c, Idle)
    /\ UNCHANGED <<user, role, view>>

\* The memberships go with it, also the caller's own.
DeleteGroup(by, g) ==
    /\ "manage" \in Allowed(by) /\ group[g] # Absent /\ ~group[g].system
    /\ group' = [group EXCEPT ![g] = Absent]
    /\ user' = [u \in User |-> IF user[u] = Absent THEN Absent ELSE [user[u] EXCEPT !.groups = @ \ {g}]]
    /\ UNCHANGED <<role, view, work>>

(***************************************************************************)
(* roles.service.ts                                                        *)
(***************************************************************************)

\* create: resolvePermissionIds makes a permission that is known and not there.
CreateRole(by, k, permissions) ==
    /\ "manage" \in Allowed(by) /\ role[k] = Absent
    /\ role' = [role EXCEPT ![k] = [permissions |-> permissions, system |-> FALSE]]
    /\ UNCHANGED <<user, group, view, work>>

UpdateRole(c, by, k, permissions) ==
    /\ work[c] = Idle /\ "manage" \in Allowed(by) /\ role[k] # Absent
    /\ Works(c, [op |-> "grant", role |-> k, permissions |-> permissions, seen |-> role[k].permissions])
    /\ UNCHANGED <<user, group, role, view>>

Grant(c) ==
    /\ work[c].op = "grant"
    /\ LET q == work[c] IN
       role' = IF role[q.role] # Absent
               THEN [role EXCEPT ![q.role].permissions = (@ \ q.seen) \cup q.permissions] ELSE role
    /\ Works(c, Idle)
    /\ UNCHANGED <<user, group, view>>

DeleteRole(by, k) ==
    /\ "manage" \in Allowed(by) /\ role[k] # Absent /\ ~role[k].system
    /\ role' = [role EXCEPT ![k] = Absent]
    /\ group' = [g \in Group |-> IF group[g] = Absent THEN Absent ELSE [group[g] EXCEPT !.roles = @ \ {k}]]
    /\ UNCHANGED <<user, view, work>>

(***************************************************************************)
(* Saved views.                                                            *)
(***************************************************************************)

\* Mutant: the other views keep the flag.
SaveViewOnly(c, v, default) ==
    /\ work[c] = Idle /\ view[v] = "none"
    /\ Works(c, [op |-> "view", view |-> v, default |-> default, seen |-> {}])
    /\ UNCHANGED <<user, group, role, view>>

\* saveView in its transaction: a new default clears the flag of the views it sees.
SaveView(c, v, default) ==
    /\ work[c] = Idle /\ view[v] = "none"
    /\ Works(c, [op |-> "view", view |-> v, default |-> default,
                 seen |-> IF default = "default" THEN {w \in View : view[w] # "none"} ELSE {}])
    /\ UNCHANGED <<user, group, role, view>>

\* updateView: "keep" leaves the flag as it was read.
UpdateView(c, v, default) ==
    /\ work[c] = Idle /\ view[v] # "none"
    /\ Works(c, [op |-> "view", view |-> v, default |-> IF default = "keep" THEN view[v] ELSE default,
                 seen |-> IF default = "default" THEN {w \in View \ {v} : view[w] # "none"} ELSE {}])
    /\ UNCHANGED <<user, group, role, view>>

StoreView(c) ==
    /\ work[c].op = "view"
    /\ LET q == work[c] IN
       view' = [w \in View |-> IF w = q.view THEN q.default
                               ELSE IF w \in q.seen /\ view[w] # "none" THEN "plain" ELSE view[w]]
    /\ Works(c, Idle)
    /\ UNCHANGED <<user, group, role>>

DeleteView(v) ==
    /\ view[v] # "none" /\ \A c \in Clerk : work[c] # Idle => work[c].view # v
    /\ view' = [view EXCEPT ![v] = "none"]
    /\ UNCHANGED <<user, group, role, work>>

DirectoryBegin ==
    \E by \in User :
       \/ \E c \in Clerk, u \in User, groups \in SUBSET Group :
             CreateUser(c, by, u, groups) \/ \E active \in BOOLEAN : UpdateUser(c, by, u, active, groups)
       \/ \E u \in User : DeleteUser(by, u)
       \/ \E g \in Group, roles \in SUBSET Role :
             CreateGroup(by, g, roles) \/ \E c \in Clerk : UpdateGroup(c, by, g, roles)
       \/ \E g \in Group : DeleteGroup(by, g)
       \/ \E k \in Role, permissions \in SUBSET Permission :
             CreateRole(by, k, permissions) \/ \E c \in Clerk : UpdateRole(c, by, k, permissions)
       \/ \E k \in Role : DeleteRole(by, k)

ViewsBegin ==
    \/ \E c \in Clerk, v \in View, default \in Flag \ {"none"} : SaveView(c, v, default)
    \/ \E c \in Clerk, v \in View, default \in {"default", "plain", "keep"} : UpdateView(c, v, default)
    \/ \E v \in View : DeleteView(v)

DirectoryResume ==
    \E c \in Clerk :
       \/ InsertUser(c) \/ ClearGroups(c) \/ JoinGroups(c) \/ SetRoles(c) \/ Grant(c) \/ StoreView(c)

(***************************************************************************)
(* Properties.                                                             *)
(***************************************************************************)

\* One request after the other: whatever an administrator does, an active user is left,
\* though perhaps not one who may do anything.
SomeoneActive == \E u \in Present(user) : user[u].active

\* Overlapping requests: no membership and no grant survives what it refers to, so that
\* what a request is allowed can be computed.
NothingDangles ==
    /\ \A u \in Present(user) : user[u].groups \subseteq Present(group)
    /\ \A g \in Present(group) : group[g].roles \subseteq Present(role)

\* One request after the other: at most one view is the default.
OneDefaultView == Cardinality({v \in View : view[v] = "default"}) <= 1
==============================================================================
