SPECIFICATION FairSpec
CONSTANTS
  Names = {1, 2}
  States = {s1, s2, s3}
  ClientThreads = {c1}
  Console = con
  NoState = null
  Overlap = FALSE
  Lengths = {4}
  MaxDepth = 2
INVARIANTS DeadUseOnlyInUnloadAll AfterUnload
PROPERTIES CommandEnds DispatchEnds
