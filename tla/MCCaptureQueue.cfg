SPECIFICATION Spec
CONSTANTS
  ann = ann
  bob = bob
  robot = robot
  Posters <- TwoQueues
  Users = {ann, bob, robot}
  Requests = {r1, r2}
  Workers = {w1}
  NoUser = nouser
  Unit = 2
  MaxJobs = 4
  MaxMishaps = 1
SYMMETRY QueueSymmetry
INVARIANTS QueueInv PositionIsTurn
PROPERTIES BatchInOrder
CHECK_DEADLOCK FALSE
