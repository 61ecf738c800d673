SPECIFICATION FairSpec
CONSTANTS
  w1 = w1
  w2 = w2
  Worker = {w1, w2}
  Lane <- MCLane
  Caller = {c1}
  Note = {n1}
  TextParts = 1
  LinkParts = 1
  MaxAttempts = 2
  MaxCalls = 2
  MaxAsks = 2
  MaxTrouble = 2
INVARIANTS TypeOK LastClaimSettles OnlyIncluded RunFollowsJobs WantedIsNotParked SentIsWhole CopiesExplained
PROPERTY EventuallySettled
