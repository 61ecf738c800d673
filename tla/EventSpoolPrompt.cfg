SPECIFICATION Spec
CONSTANTS
  e1 = e1
  e2 = e2
  h1 = h1
  h2 = h2
  Event = {e1, e2}
  Handler = {h1, h2}
  Replay = Replay
  NoEvent = NoEvent
  Tries = 1
  BatchLimit = 1
  MaxContent = 2
  Unclear = {e1}
  Recallable = {e1}
  NonCommand = {e2}
  Overrun = FALSE
  DbRaises = FALSE
SYMMETRY Symmetry
INVARIANTS TypeOK OneHolder HolderLeased
PROPERTY Refines
