------------------------------ MODULE MCAccess ------------------------------
(* Finite instances of Session, Principal, Permissions and VerifyCode.  The  *)
(* four share no state: the initial state picks the part that moves, and the *)
(* others stay in one initial state of theirs.                               *)
EXTENDS Session, Principal, Permissions, VerifyCode, TLC

CONSTANTS Parts

VARIABLE part

\* The parts may share model values, which keeps the group small.
MCSymmetry == Permutations(Requests) \cup Permutations(Subjects)
                \cup Permutations(Roles)

\* What the code keeps up.  A rolling start, a change that takes thirty
\* seconds, a lost commit answer and a user who joins a role while it changes
\* are the scenes left out.
CalmScenes == {{"grants", "status", "crash"},
               {"assign", "status", "redis", "crash"},
               {"grants", "reboot"}}

\* One admin at a time, and two whose requests overlap.
AloneAndTwo == {[size |-> 1, edits |-> 3], [size |-> 2, edits |-> 2]}

MCInit ==
  /\ Init /\ PrincipalInit /\ PermissionInit /\ CodeInit
  /\ part \in Parts
  /\ part # "session" => \A k \in Limits: limit <= k
  /\ part # "principal" => /\ \A k, u \in Subjects: user[k] = user[u]
                           /\ \A other \in Scenes: Cardinality(scene) <= Cardinality(other)
  /\ part # "permission" => /\ crew.size = 1 /\ node[4] = NoRow /\ granted[1] = {}
                            /\ \A u \in Members: member[u] = 1
  /\ part # "code" => account

MCNext ==
  /\ UNCHANGED part
  /\ \/ part = "session" /\ Next /\ UNCHANGED <<principalVars, permissionVars, codeVars>>
     \/ /\ part = "principal" /\ PrincipalNext
        /\ UNCHANGED <<vars, permissionVars, codeVars>>
        /\ scene \cap {"assign", "status"} # {} => mutations' <= 2
     \/ part = "permission" /\ PermissionNext /\ UNCHANGED <<vars, principalVars, codeVars>>
     \/ part = "code" /\ CodeNext /\ UNCHANGED <<vars, principalVars, permissionVars>>

MCSpec == MCInit /\ [][MCNext]_<<part, vars, principalVars, permissionVars, codeVars>>
=============================================================================
