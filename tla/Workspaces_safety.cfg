SPECIFICATION Spec
CONSTANTS
  alice = alice
  bob = bob
  carol = carol
  crm = crm
  mail = mail
  bogus = bogus
  Request = {r1, r2}
  User <- MCUser
  Profile <- MCProfile
  Prefix <- MCPrefix
  Base = {"a", "b"}
  Name = {"acme"}
  App <- MCApp
  Catalog <- MCCatalog
  Input <- BroadInput
SYMMETRY Symmetry
INVARIANTS
  TypeOK
  FolderBacksRoot
  OnboardingAllOrNothing
  OnboardedHasWorkspace
  LateRequestLeavesNothing
  OvertakenWritesNothing
  OrphanHasInterruptedCreate
  CreatedIsUsable
  RefusalCommitsNothing
  ConflictHasCause
PROPERTIES
  OnboardingStampedOnce
  ImplementsPromise
CHECK_DEADLOCK FALSE
