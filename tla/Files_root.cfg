SPECIFICATION Spec
CONSTANTS
  Call = {c1, c2, c3, c4}
  Workspace = {w1}
  Existing = {w1}
  Owner = {alice}
  Name = {"report"}
SYMMETRY Symmetry
INVARIANTS
  RootIsListed
CHECK_DEADLOCK FALSE
