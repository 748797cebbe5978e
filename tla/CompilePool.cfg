SPECIFICATION FairSpec
CONSTANTS
  GL = {g}
  Workers = {w1, w2}
  PerContext = 2
  NumTexts = 2
  MaxCompiles = 2
  MaxLinks = 1
  MaxFailures = 1
  MaxCalls = 4
  None = None
INVARIANTS
  IInv
  WantedIsNotCancelled
  LinkVerdictTrue
  DrainedIsQuiet
PROPERTIES
  ImplementsJobGraph
  EverythingSettles
CHECK_DEADLOCK FALSE
