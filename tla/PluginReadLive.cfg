CONSTANTS
  a = a
  b = b
  c = c
  Thread = {t1, t2}
  Rf = {a, b, c}
  Boot = {a, b}
  Configured = {a, b}
  Name <- MCName
  Group <- MCGroup
  Interval <- MCUnitInterval
  Removable = {"alpha", "beta"}
  RemovableGroup = {}
  MaxReadInterval = 1
  MaxLate = 1
  StartModes = {"daemon"}
  NoRf = NoRf
SPECIFICATION FairSpec
PROPERTIES ReadsHappen RemovedIsFreed RemovedNotCalled
