SPECIFICATION FairSpec
CONSTANTS
  t1 = t1
  t2 = t2
  h1 = h1
  h2 = h2
  Target = {t1, t2}
  Webhook = {t2}
  Handler = {h1}
  Tick = Tick
  Blocked = {1}
  MaxVer = 2
  MaxReopened = 1
  MaxTrouble = 1
INVARIANTS TypeOK SentReachedAll CopiesExplained
PROPERTY EventuallySettled
