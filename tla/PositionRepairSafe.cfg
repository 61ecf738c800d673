SPECIFICATION Spec
CONSTANTS
  h1 = h1
  h2 = h2
  g1 = g1
  t1 = t1
  t2 = t2
  Startup = Startup
  MaxPos = 4
  Live = {h1, h2}
  GapTask = {g1}
  TailTask = {t1, t2}
  Window = 2
  ChunkSize = 2
  RangeLimit = 2
  Echo = {3}
  Ignored = {4}
  Unreadable = {}
  CrashInWindow = FALSE
  EnqueueFails = FALSE
INVARIANTS TypeOK NothingSlipsThrough RecoveredIsKept
