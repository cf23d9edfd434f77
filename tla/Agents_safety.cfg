SPECIFICATION Spec
CONSTANTS
  alice = alice
  bob = bob
  run1 = run1
  run2 = run2
  User <- MCUser
  Run <- MCRun
  Owner <- MCOwner
  Input <- MCInput
  Request = {r1, r2, r3}
SYMMETRY Symmetry
INVARIANTS
  TypeOK
  RunIsOneUpdate
  StatusIsFresh
PROPERTIES
  OnlyItsAgentWrites
CHECK_DEADLOCK FALSE
