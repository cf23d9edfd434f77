SPECIFICATION Spec
CONSTANTS
  ann = ann
  bea = bea
  Request = {r1, r2, r3}
  Address <- MCAddress
  Email <- MCEmail
  Canon <- MCCanon
  Input <- MCInput
SYMMETRY Symmetry
INVARIANTS
  TypeOK
  ProfileBelongsToAccount
  SuccessCarriesOwnProfile
  LoginLeavesProfile
  KnownEmailLogsIn
CHECK_DEADLOCK FALSE
