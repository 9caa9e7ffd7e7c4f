CONSTANTS
  Parts = {"session"}
  Requests = {a1, a2}
  MaxId = 2
  MaxGen = 1
  Limits = {2}
  Subjects = {u1}
  Roles = {r1}
  Mutators = {a1}
  Readers = {q1}
  MaxMutations = 1
  Scenes <- CalmScenes
  Nodes = {1, 2, 3, 4}
  RoleIds = {1, 2}
  Members = {u1, u2}
  Admins = {a1, a2}
  Crews <- AloneAndTwo
  Deliveries = {d1}
  Digits = {u1}
  Logins = {a1}
  MaxCodeFaults = 0
SPECIFICATION MCSpec
INVARIANTS RevokedStaysOut
CHECK_DEADLOCK FALSE
