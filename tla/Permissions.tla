----------------------------- MODULE Permissions -----------------------------
(***************************************************************************)
(* The permission tree, the roles and the grants (internal/module/         *)
(* permission: service.go and repository.go; internal/module/role).        *)
(*                                                                         *)
(* permissions is a forest of directories, pages and buttons kept by       *)
(* parent_id, role_permissions grants nodes to roles, and a user has one   *)
(* role.  A request checks what it reads and finds the users it concerns   *)
(* in one step, and changes the tables in one transaction after it: no     *)
(* lock and no constraint of the schema ties the two.  The gates that      *)
(* surround the transaction are module Principal; what counts here is      *)
(* whose version it raises, the subjects of the request.  One platform     *)
(* stands for all.                                                         *)
(***************************************************************************)
EXTENDS Integers, FiniteSets, FiniteSetsExt

CONSTANTS Nodes,       \* ids of permissions, 1 to 3 and more; a button's id is
                       \* also its code
          RoleIds,     \* ids of roles from 1; a role's id is also its name
          Members,     \* users
          Admins,      \* requests under way at a time
          Crews        \* how many admins work at a time, and the bound on
                       \* their requests: [size, edits] records

\* The first tree and the default role have the first ids; 0 as a parent means
\* the root.
ASSUME PermissionAssumption ==
  /\ IsFiniteSet(Nodes) /\ {1, 2, 3} \subseteq Nodes /\ 0 \notin Nodes
  /\ 1 \in RoleIds
  /\ IsFiniteSet(Admins)

VARIABLES node,      \* permissions
          roleRow,   \* roles
          granted,   \* role_permissions with is_del = 2, by role
          member,    \* users.role_id
          desk,      \* requests between their checks and their transaction
          edits, crew

permissionVars == <<node, roleRow, granted, member, desk, edits, crew>>

Root == 0
Kinds == {"dir", "page", "button"}
Row(kind, parent) == [state |-> "live", on |-> TRUE, kind |-> kind, parent |-> parent]
NoRow == [state |-> "absent", on |-> FALSE, kind |-> "dir", parent |-> Root]
NoRequest == [op |-> "none"]

LiveNodes == {n \in Nodes: node[n].state = "live"}
LiveRoles == {r \in RoleIds: roleRow[r].state = "live"}

\* A directory with a page with a button, of which the default role has both or
\* nothing, and a role without grants; the other ids are not in use or are
\* empty directories.
PermissionInit ==
  /\ \E other \in {NoRow, Row("dir", Root)}:
       node = [n \in Nodes |-> CASE n = 1 -> Row("dir", Root)
                                 [] n = 2 -> Row("page", 1)
                                 [] n = 3 -> Row("button", 2)
                                 [] OTHER -> other]
  /\ roleRow = [r \in RoleIds |-> [state |-> "live", default |-> r = 1]]
  /\ \E G \in {{}, {2, 3}}: granted = [r \in RoleIds |-> IF r = 1 THEN G ELSE {}]
  /\ member \in [Members -> RoleIds]
  /\ desk = [a \in Admins |-> NoRequest]
  /\ edits = 0
  /\ crew \in Crews

-----------------------------------------------------------------------------
(* What a request reads.                                                   *)

ActiveChildren(n) == {c \in LiveNodes: node[c].parent = n}

\* The nodes asked for and all that hangs below them.
CascadeIDs(N) ==
  LET live == LiveNodes
      closed == {M \in SUBSET live: \A c \in live: node[c].parent \in N \cup M => c \in M}
  IN N \cup {n \in live: \A M \in closed: n \in M}

RoleIDsByPermissionIDs(N) == {r \in RoleIds: granted[r] \cap N # {}}
UsersOfRoles(R) == {u \in Members: member[u] \in R}

\* Fault: a change of a node concerns only who was granted that node itself.
ConcernedDirectly(N, cascade) == UsersOfRoles(RoleIDsByPermissionIDs(N))

\* roleIDsByPermissionIDs and principalUserIDsByRoleIDs.
Concerned(N, cascade) ==
  UsersOfRoles(RoleIDsByPermissionIDs(IF cascade THEN CascadeIDs(N) ELSE N))

\* Fault: a node may be moved below itself.
ParentFitsAnywhere(kind, parent, moved) ==
  \/ parent = Root /\ kind # "button"
  \/ /\ parent \in LiveNodes
     /\ node[parent].kind = IF kind = "button" THEN "page" ELSE "dir"

\* assertValidParentAssignment; `moved` is the node of an update, if any.
ParentFits(kind, parent, moved) ==
  /\ parent \notin CascadeIDs(moved)
  /\ \/ parent = Root /\ kind # "button"
     \/ /\ parent \in LiveNodes
        /\ node[parent].kind = IF kind = "button" THEN "page" ELSE "dir"

\* assertExistingChildrenCompatible.
ChildrenFit(kind, n) ==
  \A c \in ActiveChildren(n): CASE kind = "button" -> FALSE
                                [] kind = "page" -> node[c].kind = "button"
                                [] OTHER -> node[c].kind # "button"

\* AllActivePermissions.
Enabled == {n \in LiveNodes: node[n].on}

\* normalizeAssignablePermissionIDs: enabled pages, and enabled buttons of
\* enabled pages with their page.
Assignable(N) ==
  LET pages == {n \in N \cap Enabled: node[n].kind = "page"}
      buttons == {n \in N \cap Enabled: /\ node[n].kind = "button"
                                        /\ node[n].parent \in Enabled
                                        /\ node[node[n].parent].kind = "page"}
  IN pages \cup buttons \cup {node[n].parent: n \in buttons}

-----------------------------------------------------------------------------
(* The checks of a request.                                                *)

MayAsk(a) ==
  /\ desk[a] = NoRequest /\ edits < crew.edits
  /\ Cardinality({b \in Admins: desk[b] # NoRequest}) < crew.size

Ask(a, request) ==
  /\ edits' = edits + 1
  /\ desk' = [desk EXCEPT ![a] = request]
  /\ UNCHANGED <<node, roleRow, granted, member, crew>>

\* permission.Service.Create: a button whose code a deleted row has is that
\* row again.
CreatePermission(a, n, kind, parent) ==
  /\ ParentFits(kind, parent, {})
  /\ \/ /\ node[n].state = "absent"
        /\ Ask(a, [op |-> "insert", node |-> n, row |-> Row(kind, parent), subjects |-> {}])
     \/ /\ node[n].state = "deleted" /\ node[n].kind = "button" /\ kind = "button"
        /\ Ask(a, [op |-> "restore", node |-> n, row |-> Row(kind, parent),
                   subjects |-> Concerned({n}, FALSE)])

\* permission.Service.Update.
EditPermission(a, n, kind, parent) ==
  /\ n \in LiveNodes
  /\ ParentFits(kind, parent, {n}) /\ ChildrenFit(kind, n)
  /\ Ask(a, [op |-> "update", node |-> n, row |-> Row(kind, parent),
             subjects |-> Concerned({n}, TRUE)])

\* permission.Service.ChangeStatus, which asks nothing of the row.
ChangeStatus(a, n, on) ==
  Ask(a, [op |-> "status", node |-> n, on |-> on, subjects |-> Concerned({n}, TRUE)])

\* permission.Service.Delete with HasChildrenOutsideIDs.
DeletePermissions(a, N) ==
  /\ N # {} /\ UNION {ActiveChildren(n): n \in N} \subseteq N
  /\ Ask(a, [op |-> "delete", nodes |-> N, subjects |-> Concerned(N, FALSE)])

\* role.Service.Create: a name that a deleted role has is that role again.
CreateRole(a, r, N) ==
  /\ r \notin LiveRoles
  /\ Ask(a, [op |-> "revive", role |-> r, grants |-> Assignable(N),
             subjects |-> UsersOfRoles({r})])

\* role.Service.Update.
EditRole(a, r, N) ==
  /\ r \in LiveRoles
  /\ Ask(a, [op |-> "sync", role |-> r, grants |-> Assignable(N),
             subjects |-> UsersOfRoles({r})])

\* role.Service.Delete.
DeleteRole(a, r) ==
  /\ r \in LiveRoles /\ ~roleRow[r].default /\ UsersOfRoles({r}) = {}
  /\ Ask(a, [op |-> "drop", role |-> r, subjects |-> {}])

\* role.Service.SetDefault.
SetDefault(a, r) ==
  /\ r \in LiveRoles
  /\ Ask(a, [op |-> "default", role |-> r, subjects |-> {}])

\* user.Service.Update, when it changes the role.
AssignRole(a, u, r) ==
  /\ r \in LiveRoles /\ member[u] # r
  /\ Ask(a, [op |-> "assign", user |-> u, role |-> r, subjects |-> {u}])

-----------------------------------------------------------------------------
(* The transaction of a request.                                           *)

Done(a, op) ==
  /\ desk[a].op = op
  /\ desk' = [desk EXCEPT ![a] = NoRequest]
  /\ UNCHANGED <<edits, crew>>

\* Where conditions of the updates.
Where(n, state, row) ==
  node' = IF node[n].state = state THEN [node EXCEPT ![n] = row] ELSE node

\* repository.CreatePermission.
InsertPermission(a) ==
  /\ Done(a, "insert")
  /\ Where(desk[a].node, "absent", desk[a].row)
  /\ UNCHANGED <<roleRow, granted, member>>

\* repository.RestoreDeletedPermission: nobody has the button's old grants.
RestorePermission(a) ==
  /\ Done(a, "restore")
  /\ Where(desk[a].node, "deleted", desk[a].row)
  /\ granted' = [r \in RoleIds |-> granted[r] \ {desk[a].node}]
  /\ UNCHANGED <<roleRow, member>>

\* repository.UpdatePermission leaves the status of the row.
UpdatePermission(a) ==
  /\ Done(a, "update")
  /\ Where(desk[a].node, "live", [desk[a].row EXCEPT !.on = node[desk[a].node].on])
  /\ UNCHANGED <<roleRow, granted, member>>

UpdateStatus(a) ==
  /\ Done(a, "status")
  /\ Where(desk[a].node, "live", [node[desk[a].node] EXCEPT !.on = desk[a].on])
  /\ UNCHANGED <<roleRow, granted, member>>

\* repository.DeletePermissions.
RemovePermissions(a) ==
  /\ Done(a, "delete")
  /\ node' = [n \in Nodes |-> IF n \in desk[a].nodes \cap LiveNodes
                              THEN [node[n] EXCEPT !.state = "deleted"] ELSE node[n]]
  /\ granted' = [r \in RoleIds |-> granted[r] \ desk[a].nodes]
  /\ UNCHANGED <<roleRow, member>>

\* RestoreDeleted, or Create, and SyncPermissions, which leaves the role the
\* grants asked for whatever it had.
ReviveRole(a) ==
  LET r == desk[a].role IN
  /\ Done(a, "revive")
  /\ roleRow' = IF r \in LiveRoles THEN roleRow
                ELSE [roleRow EXCEPT ![r] = [state |-> "live", default |-> FALSE]]
  /\ granted' = [granted EXCEPT ![r] = desk[a].grants]
  /\ UNCHANGED <<node, member>>

\* SyncPermissions of an update, which does not ask whether the role is there.
SyncPermissions(a) ==
  /\ Done(a, "sync")
  /\ granted' = [granted EXCEPT ![desk[a].role] = desk[a].grants]
  /\ UNCHANGED <<node, roleRow, member>>

\* Delete and DeleteRolePermissionsByRoleIDs.
DropRole(a) ==
  LET r == desk[a].role IN
  /\ Done(a, "drop")
  /\ roleRow' = [roleRow EXCEPT ![r].state = "deleted"]
  /\ granted' = [granted EXCEPT ![r] = {}]
  /\ UNCHANGED <<node, member>>

\* ClearDefault and SetDefault, on rows that are there.
MoveDefault(a) ==
  /\ Done(a, "default")
  /\ roleRow' = [x \in RoleIds |-> IF x \in LiveRoles
                                   THEN [roleRow[x] EXCEPT !.default = x = desk[a].role]
                                   ELSE roleRow[x]]
  /\ UNCHANGED <<node, granted, member>>

UpdateUserRole(a) ==
  /\ Done(a, "assign")
  /\ member' = [member EXCEPT ![desk[a].user] = desk[a].role]
  /\ UNCHANGED <<node, roleRow, granted>>

\* The gate of a subject is closed by another change, or the transaction fails.
RequestFails(a) ==
  /\ desk[a] # NoRequest
  /\ desk' = [desk EXCEPT ![a] = NoRequest]
  /\ UNCHANGED <<node, roleRow, granted, member, edits, crew>>

AskSomething(a) ==
  \/ \E n \in Nodes, kind \in Kinds, parent \in Nodes \cup {Root}:
       CreatePermission(a, n, kind, parent) \/ EditPermission(a, n, kind, parent)
  \/ \E n \in Nodes, on \in BOOLEAN: ChangeStatus(a, n, on)
  \/ \E N \in SUBSET Nodes: DeletePermissions(a, N)
  \/ \E r \in RoleIds, N \in SUBSET LiveNodes: CreateRole(a, r, N) \/ EditRole(a, r, N)
  \/ \E r \in RoleIds: DeleteRole(a, r) \/ SetDefault(a, r)
  \/ \E u \in Members, r \in RoleIds: AssignRole(a, u, r)

Settle(a) ==
  \/ InsertPermission(a) \/ RestorePermission(a) \/ UpdatePermission(a)
  \/ UpdateStatus(a) \/ RemovePermissions(a)
  \/ ReviveRole(a) \/ SyncPermissions(a) \/ DropRole(a) \/ MoveDefault(a)
  \/ UpdateUserRole(a) \/ RequestFails(a)

PermissionNext ==
  \E a \in Admins: \/ MayAsk(a) /\ AskSomething(a)
                   \/ Settle(a)

PermissionSpec == PermissionInit /\ [][PermissionNext]_permissionVars

-----------------------------------------------------------------------------
(* What a role opens: BuildContextByRole.                                  *)

\* The walk of resolveEnabledIDs from a granted node: it goes on from a node
\* that is enabled and not included yet.
Walked(n, included) ==
  LET onward == Enabled \ included
      walks == {M \in SUBSET Nodes:
                  n \in M /\ \A k \in onward: k \in M => node[k].parent \in M \cup {Root}}
  IN {m \in Nodes: \A M \in walks: m \in M}

\* A gap or a cycle ends the walk without result.
Climb(n, included) ==
  LET path == Walked(n, included)
  IN IF path \subseteq Enabled /\ \E m \in path: m \in included \/ node[m].parent = Root
     THEN path ELSE {}

\* Fault: a node that is included already ends the walk without result.
ResolveEnabledAlone(N) ==
  FoldSet(LAMBDA n, included: included \cup (IF n \in included THEN {}
            ELSE LET path == Climb(n, {}) IN
                 IF path \cap included = {} THEN path ELSE {}), {}, N)

\* resolveEnabledIDs: the grants in turn, each with the nodes above it.
Resolved[N \in SUBSET Nodes] ==
  [included \in SUBSET Nodes |->
     IF N = {} THEN included
     ELSE LET n == CHOOSE n \in N: TRUE
          IN Resolved[N \ {n}][included \cup Climb(n, included)]]

ResolveEnabled(N) == Resolved[N][{}]

\* buildContext: menus, routes and codes are made of these rows.
Context(r) == [n \in ResolveEnabled(granted[r]) |-> node[n]]

-----------------------------------------------------------------------------
(* Properties.                                                             *)

\* A node stands when it and all above it up to the root are enabled.
Standing ==
  LET enabled == Enabled
      grown == {M \in SUBSET enabled:
                  \A m \in enabled: node[m].parent \in M \cup {Root} => m \in M}
  IN {n \in enabled: \A M \in grown: n \in M}

\* A role opens exactly the granted nodes that stand and what is above them:
\* nothing of a branch that is disabled, deleted or caught in a cycle, and
\* all of the others whatever order the grants come in, although the walk
\* stops early at what an earlier grant has included.
AccessIsGrounded ==
  LET standing == Standing
      below == [n \in standing |-> CascadeIDs({n})]
  IN \A r \in RoleIds:
       ResolveEnabled(granted[r]) =
         {n \in standing: \E g \in granted[r] \cap standing: g \in below[n]}

\* A crew of one keeps the tables in order through any sequence of requests:
\* every permission hangs off the root by rows of a fitting kind, grants are
\* of permissions that are there, one role is the default and nobody is left
\* on a deleted one.  Each of these is kept by a check made before the
\* transaction, none by the schema.
AloneInOrder ==
  crew.size = 1 =>
    /\ CascadeIDs({n \in LiveNodes: node[n].parent = Root}) = LiveNodes
    /\ \A n \in LiveNodes: IF node[n].parent = Root THEN node[n].kind # "button"
                     ELSE node[node[n].parent].kind =
                            IF node[n].kind = "button" THEN "page" ELSE "dir"
    /\ \A r \in RoleIds: granted[r] \subseteq (IF r \in LiveRoles THEN LiveNodes ELSE {})
    /\ Cardinality({r \in LiveRoles: roleRow[r].default}) = 1
    /\ \A u \in Members: member[u] \in LiveRoles

\* The transaction of a ends with BumpPrincipalVersions of its subjects.
Raises(a, u) ==
  desk[a] # NoRequest /\ desk'[a] = NoRequest /\ u \in desk[a].subjects

\* Whoever sees something else after a transaction has a new version, so that
\* no cached snapshot outlives it (with a crew of one: two requests may read
\* the tables before either commits).  The users are found from the grants
\* below the node that changes, not from the tree as it will be.
ChangeReachesEveryone ==
  [][crew.size = 1 => \A u \in Members:
       \/ UNCHANGED <<node, granted, member>>
       \/ \E a \in Admins: Raises(a, u)
       \/ Context(member[u])' = Context(member[u])]_permissionVars
=============================================================================
