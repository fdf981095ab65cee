SPECIFICATION Spec
CONSTANTS
  u = u
  w = w
  Keys <- FiveKeys
  Values = {u, w}
  Default = u
  Absent = Absent
  Order = 2
  Pairs <- SomePairs
  MaxSince = 2
CHECK_DEADLOCK FALSE
VIEW View
INVARIANT UniqueKeys
