CONSTANTS
  File = {f, g}
  Flusher = {u}
  MaxTime = 3
  MaxValues = 2
  cache_timeout = 1
  cache_flush_timeout = 1
  random_timeout = 0
  Configurations <- MCDelayed
  NoFile = NoFile
SPECIFICATION Spec
INVARIANT ThreadStays
CHECK_DEADLOCK FALSE
