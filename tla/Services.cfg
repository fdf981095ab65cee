SPECIFICATION Spec
CONSTANTS
  Threads = {t1, t2, t3}
  BlockingWriters = {}
  WriteLockBit = 4
  Pushers = {1, 2}
  Poppers = {3}
  Nodes = {1, 2, 3}
  NullNode = NullNode
  AddressReuse = TRUE
  MaxItems = 3
  LogWriters = {1, 2}
  MaxWrites = 2
  InitialTargets = 2
  MaxTargets = 3
  TargetsThrow = TRUE
  add = add
  echo = echo
  Callers = {1, 2}
  Clients = {1, 2}
  ClientOf <- OwnClient
  MaxCalls <- FewCalls
  Attached = {add}
  CallOf <- CallOfTheirs
  CloseWakes = {TRUE, FALSE}
  AcceptMayFail = TRUE
  PipeCallers = {1}
  MaxPipeCalls = 3
  MaxStarts = 3
  PageSize = 2
  CacheSize = 2
  ItemsPerPage = 2
  Items = {"x", "y"}
  MaxPushes = 5
  MaxPage = 3
  Transactions = {1, 2}
  MaxStatements = 3
  thisFactory = thisFactory
  instance = instance
  Pointers = {1, 2, 3}
  Objects = {thisFactory, instance}
  FactoryPlaces = {thisFactory}
  MaxRaw = 2
  Null = Null
INVARIANTS WriteIsExclusive WordCountsHolders NoUseAfterFree LiveIsLinkedOrInHand InQueueOrder ExitWritesTheBacklog ReplyIsForTheCall CachedPagesAreBacked VectorIsWhatWasPushed TransactionIsAllOrNothing ObjectsLiveWhileHeld
PROPERTIES WriterUnlockFinishes CallsKeepReturning ImplementsRwMutex ImplementsLifo CallsKeepSucceeding QueueIsDrained NothingWaitsForEver PipeAnswersEachCall
CHECK_DEADLOCK FALSE
