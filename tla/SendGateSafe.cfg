SPECIFICATION Spec
CONSTANTS
  c1 = c1
  c2 = c2
  k1 = k1
  ch1 = ch1
  ch2 = ch2
  x1 = x1
  Caller = {c1, c2}
  Key = {k1}
  NoKey = NoKey
  Chat = {ch1, ch2}
  Text = {x1}
  MaxTime = 3
  MaxRows = 3
  ChatWindow = 1
  PerChat = 1
  GlobalWindow = 2
  Global = 2
  Ttl = 2
SYMMETRY Symmetry
INVARIANTS TypeOK WithinLimits LandedOnce PendingExplained
