SPECIFICATION FairSpec
CONSTANTS
  e1 = e1
  e2 = e2
  h1 = h1
  h2 = h2
  Event = {e1, e2}
  Handler = {h1}
  Replay = Replay
  NoEvent = NoEvent
  Tries = 1
  BatchLimit = 2
  MaxContent = 1
  Unclear = {}
  Recallable = {}
  NonCommand = {e1}
  Overrun = TRUE
  DbRaises = TRUE
INVARIANTS ClosedWasHanded FailedCountExact CursorNotLagging SeqDense
PROPERTY EventuallyClosed
