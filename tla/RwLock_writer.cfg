SPECIFICATION RwSpec
CONSTANTS
  Threads = {t1, t2}
  BlockingWriters = {t1, t2}
  WriteLockBit = 4
INVARIANT WriteIsExclusive
SYMMETRY ThreadSymmetry
