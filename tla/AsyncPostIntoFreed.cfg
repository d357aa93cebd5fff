SPECIFICATION Spec
CONSTANTS
  p1 = p1
  p2 = p2
  Timer = timer
  Producers = {p1, p2, timer}
  Retained = {p1, p2, timer}
  Disp = disp
  Destroyer = destroyer
  Modes = {"reactor", "classic", "https", "h2"}
  MayBreak = TRUE
INVARIANT PostsNotIntoFreed
CHECK_DEADLOCK FALSE
