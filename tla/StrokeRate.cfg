\* Samples, questions and resets: the count against the history.
SPECIFICATION Spec
CONSTANTS
  Threshold = 1
  MinPeakInterval = 1
  SpmWindow = 2
  Values = {0, 1}
  MaxTime = 9
  MaxResets = 1
INVARIANTS TypeOK CountsAllPeaks
