SPECIFICATION Spec
CONSTANTS
  Threads = {t1, t2}
  Nibbles = {0, 1}
  Leaves = {l1, l2, l3}
  Values = {v1, v2, v3}
  Null = Null
  Operations = {"insert", "remove", "exists", "index"}
CHECK_DEADLOCK FALSE
SYMMETRY Symmetry
INVARIANTS BucketsAccounted ValuesAccounted
PROPERTY ImplementsKeyStore
