SPECIFICATION Spec
CONSTANTS
  t1 = t1
  t2 = t2
  h1 = h1
  h2 = h2
  Target = {t1}
  Webhook = {}
  Handler = {h1}
  Tick = Tick
  Blocked = {}
  MaxVer = 1
  MaxReopened = 1
  MaxTrouble = 0
INVARIANT ReplacementIsSent
