SPECIFICATION Spec
CONSTANTS
  alice = alice
  bob = bob
  carol = carol
  crm = crm
  mail = mail
  bogus = bogus
  Request = {r1, r2}
  User <- MCUser
  Profile <- MCProfile
  Prefix <- MCPrefix
  Base = {"a", "b"}
  Name = {"acme"}
  App <- MCApp
  Catalog <- MCCatalog
  Input <- BroadInput
INVARIANTS
  OneOwnedWorkspace
CHECK_DEADLOCK FALSE
