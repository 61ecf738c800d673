SPECIFICATION FairSpec
CONSTANTS
  h1 = h1
  h2 = h2
  Handler = {h1, h2}
  N = 2
  MaxManual = 1
  MaxTrouble = 1
INVARIANTS TypeOK ClosedIsWhole SubmissionsExplained NothingStranded
PROPERTY AcceptedIsSettled
