SPECIFICATION MCSpec
CONSTANTS
  alice = alice
  bob = bob
  crm = crm
  r1 = r1
  r2 = r2
  r3 = r3
  Request <- MCRequest
  User <- MCUser
  Profile <- MCUser
  Prefix <- MCPrefix
  Base = {"a", "b"}
  Name = {"acme", "bar"}
  App <- MCApp
  Catalog <- MCApp
  Input <- MCInput
  PoolSize = 2
INVARIANTS
  PooledTypeOK
  NobodyLocksUp
  ConnectionsAreForStatements
PROPERTIES
  ImplementsWorkspaces
  EveryRequestAnswered
  StopsGracefully
CHECK_DEADLOCK FALSE
