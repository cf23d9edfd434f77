SPECIFICATION Spec
CONSTANTS
  Call = {c1, c2, c3, c4}
  Workspace = {w1, w2}
  Existing = {w1}
  Owner = {alice}
  Name = {"report"}
SYMMETRY Symmetry
INVARIANTS
  TypeOK
  Forest
  CreatedStaysVisible
  RetryFindsEntry
CHECK_DEADLOCK FALSE
