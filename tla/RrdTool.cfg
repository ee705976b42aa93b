CONSTANTS
  File = {f, g}
  Flusher = {u}
  MaxTime = 3
  MaxValues = 2
  cache_timeout = 1
  cache_flush_timeout = 1
  random_timeout = 1
  Configurations <- MCUsual
  NoFile = NoFile
SPECIFICATION FairSpec
INVARIANTS FlaggedIsQueued NothingLost ShutdownWritesAll
PROPERTIES FlushedIsWritten ShutdownEnds
CHECK_DEADLOCK FALSE
