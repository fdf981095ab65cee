SPECIFICATION LocksSpec
CONSTANTS
  Threads = {1, 2, 3}
  BlockingWriters = {1, 2, 3}
  WriteLockBit = 4
  LockedValue = 1
  Hash <- HashOf
  NoOwner = 0
  CountMod = 4
  MaxDepth = 3
INVARIANTS CountIsDepth
PROPERTIES ConflictComesFromRetry SpinLockKeepsBeingTaken SpinImplementsMutex ReentryGetsIn RecLockKeepsBeingTaken RecImplementsMutex
