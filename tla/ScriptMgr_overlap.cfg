SPECIFICATION Spec
CONSTANTS
  Names = {1, 2}
  States = {s1, s2, s3}
  ClientThreads = {c1}
  Console = con
  NoState = null
  Overlap = TRUE
  Lengths = {4, 5}
  MaxDepth = 1
SYMMETRY Symmetry
INVARIANTS TypeOK NoLeak ConstructedFirst InOrder NoneMissed LengthFits
