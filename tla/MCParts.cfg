CONSTANTS
  Char = {"/", "-", ".", "a", "b"}
  MaxPath = 7
  MaxLaunches = 4
  Threads = {1, 2, 3}
  MaxMmaps = 1
  MaxOpenFiles = 1
  Procs = {1, 2}
  Callers = {1, 2}
  MaxWork = 4
  BufferBytes = 3
  Sizes = {1, 2, 4, 7}
  MaxBytes = 10
  MaxKey = 3
  kMaxHeight = 2
  MaxEntry = 2
  \* Keys that share a bucket of a table of length one or two; a capacity of
  \* 0 turns caching off.
  CacheKeys = {1, 3}
  Charges = {1, 2}
  Capacities = {0, 2}
  MinLength = 1
  MaxCached = 4
  MaxHeld = 2
  MaxNumber = 2
  MaxRuns = 2
  MaxFailures = 1
  Values = {1, 2}
  MaxFields = 5
SPECIFICATION PartsSpec
INVARIANTS
  NamesSound
  LogReadsBack
  IteratorAgrees
  ReadersSeeInserted
  CacheSound
  TableReadsBack
  StoredHomeHasImages
  HomeHasImages
  EnvSound
  RepairSound
  DecodeSound
CHECK_DEADLOCK FALSE
