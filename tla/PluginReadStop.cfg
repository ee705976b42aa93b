CONSTANTS
  a = a
  b = b
  c = c
  Thread = {t1, t2}
  Rf = {a}
  Boot = {a}
  Configured = {a}
  Name <- MCName
  Group <- MCGroup
  Interval <- MCInterval
  Removable = {}
  RemovableGroup = {}
  MaxReadInterval = 2
  MaxLate = 2
  StartModes = {"daemon"}
  NoRf = NoRf
SPECIFICATION FairSpec
PROPERTY StopTerminates
