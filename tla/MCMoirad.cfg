SPECIFICATION MoiradSpec
CONSTANTS
  Lists = {a, b, c}
  Others = {u, v, w}
  MaxListDepth = 4
  Budgets <- TableAndQueue
SYMMETRY Symmetry
INVARIANTS MoiradTypeOK Flattened FollowsTable
CHECK_DEADLOCK FALSE
