CONSTANTS
  Threads = {1, 2, 3}
  MaxMmaps = 1
  MaxOpenFiles = 1
  Procs = {1, 2}
  Callers = {1, 2}
  MaxWork = 4
  BufferBytes = 3
  Sizes = {1, 2, 4, 7}
  MaxBytes = 10
SPECIFICATION EnvSpec
INVARIANT
  OneHasTheLock
CHECK_DEADLOCK FALSE
