SPECIFICATION Spec
CONSTANTS
  Names = {1, 2}
  States = {s1, s2}
  ClientThreads = {c1}
  Console = con
  NoState = null
  Overlap = TRUE
  Lengths = {4}
  MaxDepth = 1
SYMMETRY Symmetry
INVARIANTS DestructedLast
