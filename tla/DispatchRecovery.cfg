CONSTANTS
  Writer = {w1, w2}
  DataSource <- MCDataSource
  Value <- MCValue
  Plugin = {"csv", "threshold"}
  Thresholds <- MCRecoveryThresholds
  Setups <- MCRecoverySetups
  NoLimit = NoLimit
SPECIFICATION Spec
INVARIANTS RecoveryAnnounced
CHECK_DEADLOCK FALSE
