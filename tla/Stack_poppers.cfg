SPECIFICATION StackSpec
CONSTANTS
  Pushers = {w1}
  Poppers = {r1, r2}
  Nodes = {n1, n2}
  NullNode = NullNode
  AddressReuse = TRUE
  MaxItems = 3
CHECK_DEADLOCK FALSE
INVARIANTS NoUseAfterFree
