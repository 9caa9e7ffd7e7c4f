CONSTANTS
  Parts = {"session", "principal", "permission", "code"}
  Requests = {a1, a2}
  MaxId = 2
  MaxGen = 1
  Limits = {1, 2}
  Subjects = {u1, u2}
  Roles = {r1, r2}
  Mutators = {a1, a2}
  Readers = {q1}
  MaxMutations = 3
  Scenes <- CalmScenes
  Nodes = {1, 2, 3, 4}
  RoleIds = {1, 2}
  Members = {u1, u2}
  Admins = {a1, a2}
  Crews <- AloneAndTwo
  Deliveries = {d1, d2}
  Digits = {u1, u2}
  Logins = {a1, a2}
  MaxCodeFaults = 2
SPECIFICATION MCSpec
SYMMETRY MCSymmetry
INVARIANTS SessionLimit CredentialsStayGood SettledRevocation NeverLockedOut
           NoStaleHit AccessIsGrounded AloneInOrder CodeWorksOnce
PROPERTIES ChangeReachesEveryone
CHECK_DEADLOCK FALSE
