SPECIFICATION Spec
CONSTANTS
  ann = ann
  bea = bea
  Request = {r1, r2, r3}
  Address <- MCAddress
  Email <- MCEmail
  Canon <- MCCanon
  Input <- MCInput
INVARIANTS
  AcceptedIsAnswered
CHECK_DEADLOCK FALSE
