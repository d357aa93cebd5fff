SPECIFICATION MCSpec
CONSTANTS
  n1 = n1
  n2 = n2
  n3 = n3
  j1 = j1
  j2 = j2
  p1 = p1
  p2 = p2
  c1 = c1
  c2 = c2
  Producers = {p1, p2}
  Consumers = {c1, c2}
  Crews <- MCCrews
  Nodes = {n1, n2, n3}
  Jobs = {j1, j2}
  Null = null
  Nothing = nothing
  HeapJobs = {d1, d2, d3, d4, d5, d6}
  Deadlines = {1, 2, 3, 4}
  HeapInit = 2
SYMMETRY NodeSymmetry
VIEW View
INVARIANTS NoReadAfterFree TailInList
PROPERTIES ListIsFifo HeapIsQueue
