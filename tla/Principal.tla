------------------------------ MODULE Principal ------------------------------
(***************************************************************************)
(* The authorization snapshots of internal/module/permission.              *)
(*                                                                         *)
(* MySQL keeps a user's role, the grants of each role and a version per    *)
(* user; Redis keeps a state per user (version, role, gate) and snapshots  *)
(* of the grants under a key made of role and version.  A change of roles, *)
(* permissions or users closes the gate of every user it names, commits    *)
(* and raises their versions, and publishes the new versions; a request    *)
(* reads the snapshot, or builds and stores it.  Each Lua script and each  *)
(* SQL read is a step.  One platform stands for all: a user's platforms    *)
(* are independent subjects.                                               *)
(***************************************************************************)
EXTENDS Integers, FiniteSets

CONSTANTS Subjects,      \* users
          Roles,
          Mutators,      \* role, permission and user changes in flight
          Readers,       \* requests being authorized
          MaxMutations,  \* bound on the changes, which also number their tokens
          Scenes         \* the environments Init may pick, see PrincipalInit

VARIABLES user,        \* users: role, status
          grants,      \* generation of role_permissions, by role
          version,     \* authz_principal_versions
          gate,        \* authz:principal-state
          snaps,       \* authz:principal snapshots, by user
          mutator, reader,
          mutations,   \* changes begun
          boot,        \* Reconcile at the start of a process
          scene

principalVars == <<user, grants, version, gate, snaps, mutator, reader,
                   mutations, boot, scene>>

NoRole == "no role"
NoSubject == "no subject"
Nothing == [role |-> NoRole, active |-> FALSE]
Open == [gate |-> "none", version |-> 0, role |-> NoRole, token |-> 0, aged |-> FALSE]
AtRest == [pc |-> "idle", change |-> [kind |-> "none"], subjects |-> {}, token |-> 0,
           current |-> [u \in {} |-> 0], next |-> [u \in {} |-> 0]]
Unread == [pc |-> "idle", user |-> NoSubject, version |-> 0, row |-> Nothing, grants |-> 0]

\* A scene names the kinds of change and the events that happen in it.
PrincipalInit ==
  /\ user \in [Subjects -> [role: Roles, active: {TRUE}]]
  /\ grants = [r \in Roles |-> 0]
  /\ version = [u \in Subjects |-> 1]
  /\ gate = [u \in Subjects |-> Open]
  /\ snaps = [u \in Subjects |-> {}]
  /\ mutator = [m \in Mutators |-> AtRest]
  /\ reader = [q \in Readers |-> Unread]
  /\ mutations = 0
  /\ boot = [pc |-> "up", versions |-> [u \in {} |-> 0]]
  /\ scene \in Scenes

\* A single process serves nothing while it starts; in a rolling start the
\* other processes go on.
Serving == boot.pc = "up" \/ "rolling" \in scene

-----------------------------------------------------------------------------
(* A change: Mutate and the transaction of its caller.                     *)

\* What a change writes in MySQL, beside the versions of its subjects: the
\* permissions of a role, a permission that some roles were granted, the role
\* of a user, or whether a user is enabled.
RoleUpdates == [kind: {"grants"}, roles: {{r}: r \in Roles}]
PermissionUpdates == [kind: {"grants"}, roles: SUBSET Roles \ {{}}]
UserUpdates == [kind: {"assign"}, user: Subjects, role: Roles]
StatusChanges == [kind: {"status"}, user: Subjects]
Changes == RoleUpdates \cup PermissionUpdates \cup UserUpdates \cup StatusChanges

UserIDsByRoleIDs(R) == {u \in Subjects: user[u].role \in R}

SubjectsOf(change) ==
  IF change.kind = "grants" THEN UserIDsByRoleIDs(change.roles) ELSE {change.user}

\* principalRepository.CurrentVersions and AllVersions.
Versions(U) == [u \in U |-> [version |-> version[u], role |-> user[u].role]]

SetMutator(m, f) == mutator' = [mutator EXCEPT ![m] = f]

\* role.Service.mutateRoleUsers, permission.Service.mutatePrincipalUsers and
\* user.Service.mutatePrincipalUsers: who is concerned is read first, outside
\* the transaction of the change.
StartMutation(m, change) ==
  /\ Serving /\ mutator[m].pc = "idle" /\ mutations < MaxMutations
  /\ change.kind \in scene
  /\ mutations' = mutations + 1
  /\ SetMutator(m, [pc |-> IF SubjectsOf(change) = {} THEN "mutate" ELSE "versions",
                    change |-> change, subjects |-> SubjectsOf(change),
                    token |-> mutations + 1, current |-> [u \in {} |-> 0],
                    next |-> [u \in {} |-> 0]])
  /\ UNCHANGED <<user, grants, version, gate, snaps, reader, boot, scene>>

LoadVersions(m) ==
  /\ mutator[m].pc = "versions"
  /\ SetMutator(m, [mutator[m] EXCEPT !.pc = "begin",
                                      !.current = Versions(mutator[m].subjects)])
  /\ UNCHANGED <<user, grants, version, gate, snaps, reader, mutations, boot, scene>>

\* beginPrincipalInvalidationScript: a version read before somebody else
\* published, or a gate closed for this version in the last thirty seconds.
Blocks(g, v) ==
  \/ g.gate # "none" /\ v < g.version
  \/ g.gate = "invalidating" /\ v = g.version /\ ~g.aged

\* The snapshots that remain when the state of u moves to `next`.
DropOld(u, next) ==
  IF gate[u].gate # "none" /\ (gate[u].version # next.version \/ gate[u].role # next.role)
  THEN {s \in snaps[u]: s.role # gate[u].role \/ s.version # gate[u].version}
  ELSE snaps[u]

Begin(m) ==
  LET me == mutator[m] IN
  /\ me.pc = "begin"
  /\ IF \E u \in me.subjects: Blocks(gate[u], me.current[u].version)
     THEN SetMutator(m, AtRest) /\ UNCHANGED <<gate, snaps>>
     ELSE /\ SetMutator(m, [me EXCEPT !.pc = "mutate"])
          /\ snaps' = [u \in Subjects |-> IF u \in me.subjects
                                          THEN DropOld(u, me.current[u]) ELSE snaps[u]]
          /\ gate' = [u \in Subjects |->
               IF u \in me.subjects
               THEN [gate |-> "invalidating", version |-> me.current[u].version,
                     role |-> me.current[u].role, token |-> me.token, aged |-> FALSE]
               ELSE gate[u]]
  /\ UNCHANGED <<user, grants, version, reader, mutations, boot, scene>>

\* The Redis call is done and its answer is an error: Mutate returns before
\* the change and leaves the gates closed.
BeginLost(m) ==
  /\ "redis" \in scene
  /\ mutator[m].pc = "begin" /\ mutator' = [mutator EXCEPT ![m] = AtRest]
  /\ ~\E u \in mutator[m].subjects: Blocks(gate[u], mutator[m].current[u].version)
  /\ gate' = [u \in Subjects |->
       IF u \in mutator[m].subjects
       THEN [gate |-> "invalidating", version |-> mutator[m].current[u].version,
             role |-> mutator[m].current[u].role, token |-> mutator[m].token,
             aged |-> FALSE]
       ELSE gate[u]]
  /\ snaps' = [u \in Subjects |-> IF u \in mutator[m].subjects
                                  THEN DropOld(u, mutator[m].current[u]) ELSE snaps[u]]
  /\ UNCHANGED <<user, grants, version, reader, mutations, boot, scene>>

\* The transaction commits: the change itself, and BumpPrincipalVersions of
\* the subjects under the lock of their user rows.  The event "ambiguous" is a
\* commit whose answer is an error.
Commit(m) ==
  LET me == mutator[m]
      change == me.change
  IN /\ me.pc = "mutate"
     /\ user' = CASE change.kind = "assign" -> [user EXCEPT ![change.user].role = change.role]
                  [] change.kind = "status" -> [user EXCEPT ![change.user].active = ~@]
                  [] OTHER -> user
     /\ grants' = IF change.kind # "grants" THEN grants
                  ELSE [r \in Roles |-> grants[r] + IF r \in change.roles THEN 1 ELSE 0]
     /\ version' = [u \in Subjects |-> version[u] + IF u \in me.subjects THEN 1 ELSE 0]
     /\ SetMutator(m, IF me.subjects = {} THEN AtRest
                      ELSE [me EXCEPT !.pc = IF "ambiguous" \in scene THEN "abort" ELSE "publish",
                                      !.next = [u \in me.subjects |->
                                        [version |-> version'[u], role |-> user'[u].role]]])
     /\ UNCHANGED <<gate, snaps, reader, mutations, boot, scene>>

\* The transaction fails and is rolled back.
Fail(m) ==
  /\ mutator[m].pc = "mutate" /\ mutator[m].subjects # {}
  /\ SetMutator(m, [mutator[m] EXCEPT !.pc = "abort"])
  /\ UNCHANGED <<user, grants, version, gate, snaps, reader, mutations, boot, scene>>

Holds(m, u) == gate[u].gate = "invalidating" /\ gate[u].token = mutator[m].token

Ready(v) == [gate |-> "ready", version |-> v.version, role |-> v.role, token |-> 0, aged |-> FALSE]

\* Publish: all gates of the change or none.
Publish(m) ==
  LET me == mutator[m] IN
  /\ me.pc = "publish"
  /\ SetMutator(m, AtRest)
  /\ IF \A u \in me.subjects: Holds(m, u)
     THEN /\ gate' = [u \in Subjects |-> IF u \in me.subjects THEN Ready(me.next[u]) ELSE gate[u]]
          /\ snaps' = [u \in Subjects |-> IF u \in me.subjects THEN DropOld(u, me.next[u]) ELSE snaps[u]]
     ELSE UNCHANGED <<gate, snaps>>
  /\ UNCHANGED <<user, grants, version, reader, mutations, boot, scene>>

\* Abort reopens the gates that are still this change's.
Abort(m) ==
  LET me == mutator[m] IN
  /\ me.pc = "abort"
  /\ SetMutator(m, AtRest)
  /\ gate' = [u \in Subjects |->
       IF u \in me.subjects /\ Holds(m, u) THEN Ready(me.current[u]) ELSE gate[u]]
  /\ UNCHANGED <<user, grants, version, snaps, reader, mutations, boot, scene>>

\* The process dies, or Publish or Abort is not done and answers an error.
MutatorStops(m) ==
  /\ "crash" \in scene /\ mutator[m].pc \in {"begin", "mutate", "publish", "abort"}
  /\ SetMutator(m, AtRest)
  /\ UNCHANGED <<user, grants, version, gate, snaps, reader, mutations, boot, scene>>

\* Thirty seconds pass since the gate was closed.  A change or a start that
\* takes as long from its first read to its last script is the event "slow".
GateAges(u) ==
  /\ gate[u].gate = "invalidating" /\ ~gate[u].aged
  /\ "slow" \notin scene => /\ \A m \in Mutators: u \notin mutator[m].subjects
                            /\ boot.pc = "up"
  /\ gate' = [gate EXCEPT ![u].aged = TRUE]
  /\ UNCHANGED <<user, grants, version, snaps, mutator, reader, mutations, boot, scene>>

-----------------------------------------------------------------------------
(* A request: Authorize.                                                   *)

SnapAt(u) == {s \in snaps[u]: s.role = gate[u].role /\ s.version = gate[u].version}

\* loadPrincipalScript finds an open gate and the snapshot it names.
Hit(u) == gate[u].gate = "ready" /\ SnapAt(u) # {}

\* A hit decides and a closed gate refuses at once; a miss goes on to MySQL
\* and reads the user, the role id and the version.
Authorize(q, u) ==
  /\ Serving /\ reader[q].pc = "idle"
  /\ gate[u].gate # "invalidating" /\ ~Hit(u)
  /\ reader' = [reader EXCEPT ![q] = [pc |-> "grants", user |-> u, version |-> version[u],
                                      row |-> user[u], grants |-> 0]]
  /\ UNCHANGED <<user, grants, version, gate, snaps, mutator, mutations, boot, scene>>

\* The permissions of the role, read without a transaction around the two.
LoadSnapshot(q) ==
  /\ reader[q].pc = "grants"
  /\ reader' = [reader EXCEPT ![q].pc = "store", ![q].grants = grants[reader[q].row.role]]
  /\ UNCHANGED <<user, grants, version, gate, snaps, mutator, mutations, boot, scene>>

\* Fault: a snapshot is stored whatever version the state has.
StorableOpen(g, v, r) == g.gate # "invalidating"

\* storePrincipalScript: an open gate, and no other version or role.
Storable(g, v, r) ==
  g.gate = "none" \/ (g.gate = "ready" /\ g.version = v /\ g.role = r)

Store(q) ==
  LET me == reader[q]
      u == me.user
      Named(s) == s.role = me.row.role /\ s.version = me.version
      new == [role |-> me.row.role, version |-> me.version,
              active |-> me.row.active, grants |-> me.grants]
  IN /\ me.pc = "store"
     /\ reader' = [reader EXCEPT ![q] = Unread]
     /\ IF Storable(gate[u], me.version, me.row.role)
        THEN /\ gate' = [gate EXCEPT ![u] = Ready(new)]
             /\ snaps' = [snaps EXCEPT ![u] = {s \in @: ~Named(s)} \cup {new}]
        ELSE UNCHANGED <<gate, snaps>>
     /\ UNCHANGED <<user, grants, version, mutator, mutations, boot, scene>>

\* The thirty minutes of a snapshot pass.
SnapshotExpires(u) ==
  /\ \E s \in snaps[u]: snaps' = [snaps EXCEPT ![u] = @ \ {s}]
  /\ UNCHANGED <<user, grants, version, gate, mutator, reader, mutations, boot, scene>>

-----------------------------------------------------------------------------
(* The start of a process: Reconcile reads all versions and repairs Redis. *)

StartProcess ==
  /\ boot.pc = "up" /\ scene \cap {"reboot", "rolling"} # {}
  /\ boot' = [pc |-> "reconcile", versions |-> Versions(Subjects)]
  /\ IF "rolling" \in scene THEN UNCHANGED <<mutator, reader>>
     ELSE mutator' = [m \in Mutators |-> AtRest] /\ reader' = [q \in Readers |-> Unread]
  /\ UNCHANGED <<user, grants, version, gate, snaps, mutations, scene>>

\* reconcilePrincipalScript leaves a gate alone that was closed for this
\* version in the last thirty seconds or for a later one.
Repairs(g, v) ==
  ~(g.gate = "invalidating" /\ (v < g.version \/ (v = g.version /\ ~g.aged)))

Reconcile ==
  LET Repaired(u) == Repairs(gate[u], boot.versions[u].version) IN
  /\ boot.pc = "reconcile"
  /\ boot' = [boot EXCEPT !.pc = "up"]
  /\ gate' = [u \in Subjects |-> IF Repaired(u) THEN Ready(boot.versions[u]) ELSE gate[u]]
  /\ snaps' = [u \in Subjects |-> IF Repaired(u) THEN DropOld(u, boot.versions[u]) ELSE snaps[u]]
  /\ UNCHANGED <<user, grants, version, mutator, reader, mutations, scene>>

PrincipalNext ==
  \/ \E m \in Mutators:
       \/ \E change \in Changes: StartMutation(m, change)
       \/ LoadVersions(m) \/ Begin(m) \/ BeginLost(m) \/ Commit(m) \/ Fail(m)
       \/ Publish(m) \/ Abort(m) \/ MutatorStops(m)
  \/ \E q \in Readers:
       \/ \E u \in Subjects: Authorize(q, u)
       \/ LoadSnapshot(q) \/ Store(q)
  \/ \E u \in Subjects: GateAges(u) \/ SnapshotExpires(u)
  \/ StartProcess \/ Reconcile

PrincipalSpec == PrincipalInit /\ [][PrincipalNext]_principalVars

-----------------------------------------------------------------------------
(* Properties.                                                             *)

\* Authorize never decides on what a committed change took away: a snapshot
\* that a request can hit carries the present status, role and grants of its
\* user.  The gate, the versions and the token must close every window between
\* the commit in MySQL and the scripts in Redis, readers in between included.
NoStaleHit ==
  \A u \in Subjects: Hit(u) =>
    \A s \in SnapAt(u): /\ s.role = user[u].role /\ s.active = user[u].active
                        /\ s.grants = grants[user[u].role]

=============================================================================
