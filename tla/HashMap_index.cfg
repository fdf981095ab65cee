SPECIFICATION Spec
CONSTANTS
  Threads = {t1, t2}
  Nibbles = {0}
  Leaves = {l1, l2, l3}
  Values = {v1, v2}
  Null = Null
  Operations = {"index", "remove"}
INVARIANT IndexHasAValue
