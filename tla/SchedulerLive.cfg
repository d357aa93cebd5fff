SPECIFICATION FairSpec
CONSTANTS
  Timer = timer
  Submitters = {timer, s1}
  Workers = {w1, w2}
  Jobs = {j1, j2}
  Nothing = nothing
  Width = 8
  Delays = {1}
  MaxTime = 1
PROPERTIES DelayedRuns DestroyReturns AcceptedRuns
CHECK_DEADLOCK FALSE
