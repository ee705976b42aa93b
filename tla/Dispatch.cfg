CONSTANTS
  Writer = {w1, w2}
  DataSource <- MCDataSource
  Value <- MCValue
  Plugin = {"csv", "threshold"}
  Thresholds <- MCThresholds
  Setups <- MCSetups
  NoLimit = NoLimit
SPECIFICATION Spec
SYMMETRY MCSymmetry
INVARIANTS FollowsFlowControl  AlarmAfterHits RecoveryUnlessOverlap
CHECK_DEADLOCK FALSE
