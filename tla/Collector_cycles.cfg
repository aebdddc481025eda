SPECIFICATION Spec
CONSTANTS
  main = main
  reg = reg
  t1 = t1
  t2 = t2
  u = u
  c = c
  str = str
  plain = plain
  Main = main
  Reg = reg
  Tables = {t1, t2}
  Userdata = {u}
  Closures = {c}
  Strings = {str}
  Plain = plain
  Modes = {"k"}
  Heaps <- MCHeaps
  MaxEntries = 1
  SweepMax = 1
  MaxOps = 2
  MaxCycles = 1
INVARIANTS NoDangling MainInvariant GarbageGoes
PROPERTIES OnlyGarbageCleared
CHECK_DEADLOCK FALSE
