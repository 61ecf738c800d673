SPECIFICATION Spec
CONSTANTS
  o1 = o1
  o2 = o2
  f1 = f1
  f2 = f2
  f3 = f3
  w1 = w1
  r1 = r1
  Obs = {o1, o2}
  File = {f1, f2}
  Writer = {w1}
  Replayer = {r1}
  MaxRecords = 3
  Limit = 1
  MaxTrouble = 0
  NoObs = NoObs
  NoFile = NoFile
INVARIANT Recoverable
