SPECIFICATION Spec
CONSTANTS
  h1 = h1
  h2 = h2
  g1 = g1
  t1 = t1
  t2 = t2
  Startup = Startup
  MaxPos = 3
  Live = {h1}
  GapTask = {}
  TailTask = {t1}
  Window = 2
  ChunkSize = 2
  RangeLimit = 2
  Echo = {}
  Ignored = {}
  Unreadable = {}
  CrashInWindow = TRUE
  EnqueueFails = FALSE
INVARIANT NothingSlipsThrough
