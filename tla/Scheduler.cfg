SPECIFICATION Spec
CONSTANTS
  Timer = timer
  Submitters = {timer, s1}
  Workers = {w1, w2}
  Jobs = {j1, j2, j3}
  Nothing = nothing
  Width = 8
  Delays = {1, 2}
  MaxTime = 2
SYMMETRY Symmetry
INVARIANTS TypeOK TimerNotOversleeping OneFate FreedWhenQuiet PendingExact NoLostWakeup
CHECK_DEADLOCK FALSE
