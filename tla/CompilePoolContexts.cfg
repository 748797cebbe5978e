SPECIFICATION Spec
CONSTANTS
  GL = {g1, g2}
  Workers = {w1}
  PerContext = 1
  NumTexts = 1
  MaxCompiles = 1
  MaxLinks = 1
  MaxFailures = 0
  MaxCalls = 3
  None = None
INVARIANT
  LinkVerdictTrue
CHECK_DEADLOCK FALSE
