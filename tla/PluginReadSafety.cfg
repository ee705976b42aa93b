CONSTANTS
  a = a
  b = b
  c = c
  Thread = {t1, t2, t3}
  Rf = {a, b, c}
  Boot = {a, b}
  Configured = {}
  Name <- MCName
  Group <- MCGroup
  Interval <- MCInterval
  Removable = {"alpha"}
  RemovableGroup = {"group"}
  MaxReadInterval = 2
  MaxLate = 3
  StartModes = {"daemon", "test"}
  NoRf = NoRf
SPECIFICATION Spec
SYMMETRY MCSymmetry
INVARIANTS TypeOK OneOwner ListConsistent NothingLeaks NeverEarly ScheduledWithinInterval
