------------------------------ MODULE LockProofs ------------------------------
(***************************************************************************)
(* Theorems about the locks of xtd::concurrent, for any set of threads.    *)
(***************************************************************************)
EXTENDS RwLock, SpinLock, RecursiveSpinLock, FiniteSetTheorems, TLAPS

-----------------------------------------------------------------------------
(***************************************************************************)
(* RwLock, with any word width.                                            *)
(*                                                                         *)
(* The theorems are about clients that stay within what the lock can do:   *)
(* nobody calls lock_write() (try_lock_write() is the only way to write),  *)
(* and there are fewer threads than write_lock_bit, so that the reader     *)
(* count cannot reach it.  The run RwLock_writer shows why the first is    *)
(* needed.                                                                 *)
(***************************************************************************)

SafeClients ==
  /\ BlockingWriters = {}
  /\ IsFiniteSet(Threads)
  /\ Cardinality(Threads) < WriteLockBit

\* What a thread's position in the code says of its local and of its mode.
Control(t) ==
  /\ rwPc[t] # "lock_write"
  /\ rwPc[t] \in {"lock_read", "lock_read_cas", "try_lock_read",
                "try_lock_read_cas", "try_lock_write"} => mode[t] = "none"
  /\ rwPc[t] \in {"lock_read_cas", "try_lock_read_cas"} => iOriginal[t] < WriteLockBit
  /\ rwPc[t] = "try_lock_write" => iOriginal[t] = 0
  /\ rwPc[t] = "idle" => iOriginal[t] = 0
  /\ rwPc[t] = "unlock" => mode[t] # "none"
  /\ rwPc[t] = "unlock_store" => mode[t] = "write"
  /\ rwPc[t] = "unlock_cas" => mode[t] = "read" /\ iOriginal[t] \in 1 .. (WriteLockBit - 1)

\* The inductive invariant.
RwInv ==
  /\ RwTypeOK
  /\ WriteIsExclusive
  /\ WordCountsHolders
  /\ \A t \in Threads : Control(t)

-----------------------------------------------------------------------------
(* The holders and how a step that changes one thread's mode changes them. *)

LEMMA HoldersAreFew ==
  ASSUME SafeClients
  PROVE  /\ IsFiniteSet(Readers)
         /\ Cardinality(Readers) \in Nat
         /\ Cardinality(Readers) < WriteLockBit
<1>1. Readers \in SUBSET Threads
  BY DEF Readers
<1>2. IsFiniteSet(Readers) /\ Cardinality(Readers) <= Cardinality(Threads)
  BY <1>1, FS_Subset DEF SafeClients
<1>3. Cardinality(Readers) \in Nat /\ Cardinality(Threads) \in Nat
  BY <1>2, FS_CardinalityType DEF SafeClients
<1>. QED
  BY <1>2, <1>3, WordAssumption DEF SafeClients

LEMMA StartReading ==
  ASSUME SafeClients, RwTypeOK, NEW t \in Threads,
         mode[t] = "none", mode' = [mode EXCEPT ![t] = "read"]
  PROVE  /\ Readers' = Readers \cup {t}
         /\ Writers' = Writers
         /\ Cardinality(Readers') = Cardinality(Readers) + 1
<1>1. Readers' = Readers \cup {t} /\ Writers' = Writers /\ t \notin Readers
  BY DEF RwTypeOK, Readers, Writers
<1>. QED
  BY <1>1, HoldersAreFew, FS_AddElement

LEMMA StopReading ==
  ASSUME SafeClients, RwTypeOK, NEW t \in Threads,
         mode[t] = "read", mode' = [mode EXCEPT ![t] = "none"]
  PROVE  /\ Readers' = Readers \ {t}
         /\ Writers' = Writers
         /\ Cardinality(Readers') = Cardinality(Readers) - 1
<1>1. Readers' = Readers \ {t} /\ Writers' = Writers /\ t \in Readers
  BY DEF RwTypeOK, Readers, Writers
<1>. QED
  BY <1>1, HoldersAreFew, FS_RemoveElement

LEMMA StartWriting ==
  ASSUME RwTypeOK, NEW t \in Threads,
         mode[t] = "none", mode' = [mode EXCEPT ![t] = "write"]
  PROVE  Readers' = Readers /\ Writers' = Writers \cup {t}
BY DEF RwTypeOK, Readers, Writers

LEMMA StopWriting ==
  ASSUME RwTypeOK, NEW t \in Threads,
         mode[t] = "write", mode' = [mode EXCEPT ![t] = "none"]
  PROVE  Readers' = Readers /\ Writers' = Writers \ {t}
BY DEF RwTypeOK, Readers, Writers

LEMMA SameHolders ==
  ASSUME mode' = mode
  PROVE  Readers' = Readers /\ Writers' = Writers
BY DEF Readers, Writers

\* The word as RwInv describes it: no write bit unless a writer holds it.
LEMMA WordCases ==
  ASSUME SafeClients, RwInv
  PROVE  /\ lock >= WriteLockBit <=> Writers # {}
         /\ lock = WriteLockBit <=> Writers # {}
         /\ lock = 0 => Writers = {} /\ Readers = {}
         /\ Writers = {} => lock = Cardinality(Readers)
<1>1. Cardinality(Readers) = 0 => Readers = {}
  BY HoldersAreFew, FS_EmptySet
<1>. QED
  BY <1>1, HoldersAreFew, WordAssumption DEF RwInv, WordCountsHolders

\* A step by thread t that leaves every other thread's position, local and
\* mode alone keeps Control for the others.
LEMMA OthersKeepControl ==
  ASSUME RwTypeOK, NEW t \in Threads, NEW u \in Threads, u # t, Control(u),
         NEW p, rwPc' = [rwPc EXCEPT ![t] = p],
         NEW i, iOriginal' = [iOriginal EXCEPT ![t] = i] \/ iOriginal' = iOriginal,
         NEW m, mode' = [mode EXCEPT ![t] = m] \/ mode' = mode
  PROVE  Control(u)'
<1>1. rwPc'[u] = rwPc[u] /\ iOriginal'[u] = iOriginal[u] /\ mode'[u] = mode[u]
  BY DEF RwTypeOK
<1>. QED
  BY <1>1 DEF Control

-----------------------------------------------------------------------------
(* Every step preserves the invariant. *)

\* A thread's step, whether it ever calls lock_write() or not.
AnyStep(t) == Step(t) \/ (t \in BlockingWriters /\ BlockingStep(t))

LEMMA NextIsAStep == RwNext => \E t \in Threads : AnyStep(t)
BY WritersAssumption DEF RwNext, AnyStep

LEMMA TypeStep == RwTypeOK /\ [RwNext]_rwVars => RwTypeOK'
<1>. SUFFICES ASSUME RwTypeOK, [RwNext]_rwVars PROVE RwTypeOK'
  OBVIOUS
<1>. USE WordAssumption DEF Word, WordMod, PcLabel
<1>0. CASE UNCHANGED rwVars
  BY <1>0 DEF RwTypeOK, rwVars
<1>1. ASSUME NEW t \in Threads, AnyStep(t)
      PROVE  RwTypeOK'
  <2>a. ReadBits(lock) \in Word
    BY DEF RwTypeOK, ReadBits
  <2>b. iOriginal[t] \in Word /\ (iOriginal[t] + 1) % WordMod \in Word
        /\ (iOriginal[t] - 1) % WordMod \in Word
    BY DEF RwTypeOK
  <2>1. CASE CallAcquire(t)
    BY <2>1 DEF RwTypeOK, CallAcquire, CallRw, RwGoto
  <2>2. CASE CallLockWrite(t)
    BY <2>2 DEF RwTypeOK, CallLockWrite, CallRw, RwGoto
  <2>3. CASE CallUnlock(t)
    BY <2>3 DEF RwTypeOK, CallUnlock, CallRw, RwGoto
  <2>4. CASE LockReadLoad(t)
    BY <2>4, <2>a DEF RwTypeOK, LockReadLoad, LoadForRead, RwGoto, Remember
  <2>5. CASE LockReadCas(t)
    BY <2>5, <2>b DEF RwTypeOK, LockReadCas, CountReader, CasFails, Return, RwGoto, Remember
  <2>6. CASE TryLockReadLoad(t)
    BY <2>6, <2>a DEF RwTypeOK, TryLockReadLoad, LoadForRead, RwGoto, Remember
  <2>7. CASE TryLockReadCas(t)
    BY <2>7, <2>b DEF RwTypeOK, TryLockReadCas, CountReader, Return, RwGoto, Remember
  <2>8. CASE LockWriteCas(t)
    BY <2>8 DEF RwTypeOK, LockWriteCas, TakeWrite, CasFails, Return, RwGoto, Remember
  <2>9. CASE TryLockWriteCas(t)
    BY <2>9 DEF RwTypeOK, TryLockWriteCas, TakeWrite, Return, RwGoto, Remember
  <2>10. CASE UnlockLoad(t)
    BY <2>10 DEF RwTypeOK, UnlockLoad, RwGoto, Remember
  <2>11. CASE UnlockStore(t)
    BY <2>11 DEF RwTypeOK, UnlockStore, Return, RwGoto, Remember
  <2>12. CASE UnlockCas(t)
    BY <2>12, <2>b DEF RwTypeOK, UnlockCas, CasFails, Return, RwGoto, Remember
  <2>. QED
    BY <1>1, <2>1, <2>2, <2>3, <2>4, <2>5, <2>6, <2>7, <2>8, <2>9, <2>10,
       <2>11, <2>12 DEF AnyStep, BlockingStep, Step, RwRunning
<1>. QED
  BY <1>0, <1>1, NextIsAStep

\* The type invariant holds of every execution, lock_write() included.
THEOREM TypeCorrect == RwSpec => []RwTypeOK
<1>1. RwInit => RwTypeOK
  BY WordAssumption DEF RwInit, RwTypeOK, Word, WordMod, PcLabel
<1>. QED
  BY <1>1, TypeStep, PTL DEF RwSpec

\* A step that changes no holder keeps the word and the holders in agreement.
LEMMA SameWord ==
  ASSUME RwInv, UNCHANGED <<lock, mode>>
  PROVE  WriteIsExclusive' /\ WordCountsHolders'
BY SameHolders DEF RwInv, WriteIsExclusive, WordCountsHolders

\* The three steps that make a holder, and the two that end one.
LEMMA ReadTaken ==
  ASSUME SafeClients, RwInv, NEW t \in Threads, mode[t] = "none",
         iOriginal[t] < WriteLockBit, CountReader(t)
  PROVE  WriteIsExclusive' /\ WordCountsHolders'
<1>1. lock < WriteLockBit /\ lock \in Nat /\ lock' = lock + 1
  BY WordAssumption DEF RwInv, RwTypeOK, Word, WordMod, CountReader, Expected
<1>2. Writers = {} /\ lock = Cardinality(Readers)
  BY <1>1, WordCases, WordAssumption
<1>3. mode' = [mode EXCEPT ![t] = "read"]
  BY DEF CountReader, Return
<1>4. Writers' = {} /\ Cardinality(Readers') = Cardinality(Readers) + 1
  BY <1>2, <1>3, StartReading DEF RwInv
<1>. QED
  BY <1>1, <1>2, <1>4 DEF WriteIsExclusive, WordCountsHolders

LEMMA WriteTaken ==
  ASSUME SafeClients, RwInv, NEW t \in Threads, mode[t] = "none",
         iOriginal[t] = 0, TakeWrite(t)
  PROVE  WriteIsExclusive' /\ WordCountsHolders'
<1>1. lock = 0 /\ lock' = WriteLockBit
  BY DEF TakeWrite, Expected
<1>2. Writers = {} /\ Readers = {}
  BY <1>1, WordCases
<1>3. mode' = [mode EXCEPT ![t] = "write"]
  BY DEF TakeWrite, Return
<1>4. Readers' = {} /\ Writers' = {t}
  BY <1>2, <1>3, StartWriting DEF RwInv
<1>. QED
  BY <1>1, <1>4 DEF WriteIsExclusive, WordCountsHolders

LEMMA WriteReleased ==
  ASSUME SafeClients, RwInv, NEW t \in Threads, mode[t] = "write", UnlockStore(t)
  PROVE  WriteIsExclusive' /\ WordCountsHolders'
<1>1. Readers = {} /\ Writers = {t}
  BY DEF RwInv, WriteIsExclusive, Writers
<1>2. mode' = [mode EXCEPT ![t] = "none"] /\ lock' = 0
  BY DEF UnlockStore, Return
<1>3. Readers' = {} /\ Writers' = {}
  BY <1>1, <1>2, StopWriting DEF RwInv
<1>. QED
  BY <1>2, <1>3, FS_EmptySet DEF WriteIsExclusive, WordCountsHolders

LEMMA ReadReleased ==
  ASSUME SafeClients, RwInv, NEW t \in Threads, mode[t] = "read",
         lock' = (lock - 1) % WordMod, Return(t, "none")
  PROVE  WriteIsExclusive' /\ WordCountsHolders'
<1>1. t \in Readers
  BY DEF Readers
<1>2. Writers = {} /\ lock = Cardinality(Readers)
  BY <1>1, WordCases DEF RwInv, WriteIsExclusive
<1>3. lock \in 1 .. (WriteLockBit - 1)
  BY <1>1, <1>2, HoldersAreFew, FS_EmptySet, WordAssumption
<1>4. lock' = lock - 1
  BY <1>3, WordAssumption DEF WordMod
<1>5. mode' = [mode EXCEPT ![t] = "none"]
  BY DEF Return
<1>6. Writers' = {} /\ Cardinality(Readers') = Cardinality(Readers) - 1
  BY <1>2, <1>5, StopReading DEF RwInv
<1>. QED
  BY <1>2, <1>4, <1>6 DEF WriteIsExclusive, WordCountsHolders

LEMMA RwInvStep ==
  ASSUME SafeClients, RwInv, [RwNext]_rwVars
  PROVE  RwInv'
<1>0. RwTypeOK'
  BY TypeStep DEF RwInv
<1>1. CASE UNCHANGED rwVars
  <2>1. \A t \in Threads : Control(t)'
    BY <1>1 DEF RwInv, Control, rwVars
  <2>. QED
    BY <1>0, <1>1, <2>1, SameWord DEF RwInv, rwVars
<1>2. ASSUME NEW t \in Threads, AnyStep(t)
      PROVE  RwInv'
  <2>. USE WordAssumption
  <2>t. RwTypeOK /\ Control(t)
    BY DEF RwInv
  <2>o. ASSUME NEW u \in Threads, u # t
        PROVE  Control(u)
    BY DEF RwInv
  <2>. SUFFICES /\ WriteIsExclusive' /\ WordCountsHolders'
                /\ \A u \in Threads : Control(u)'
    BY <1>0 DEF RwInv
  <2>1. CASE CallAcquire(t)
    <3>1. Control(t)'
      BY <2>1, <2>t DEF CallAcquire, CallRw, RwGoto, Control, RwTypeOK
    <3>2. ASSUME NEW u \in Threads, u # t PROVE Control(u)'
      BY <2>1, <2>t, <2>o, <3>2, OthersKeepControl DEF CallAcquire, CallRw, RwGoto
    <3>. QED
      BY <2>1, <3>1, <3>2, SameWord DEF CallAcquire, CallRw
  <2>2. CASE t \in BlockingWriters
    BY <2>2 DEF SafeClients
  <2>3. CASE CallUnlock(t)
    <3>1. Control(t)'
      BY <2>3, <2>t DEF CallUnlock, CallRw, RwGoto, Control, RwTypeOK
    <3>2. ASSUME NEW u \in Threads, u # t PROVE Control(u)'
      BY <2>3, <2>t, <2>o, <3>2, OthersKeepControl DEF CallUnlock, CallRw, RwGoto
    <3>. QED
      BY <2>3, <3>1, <3>2, SameWord DEF CallUnlock, CallRw
  <2>4. CASE LockReadLoad(t) \/ TryLockReadLoad(t)
    <3>1. ReadBits(lock) < WriteLockBit
      BY <2>t DEF ReadBits, RwTypeOK, Word, WordMod
    <3>2. Control(t)'
      BY <2>4, <2>t, <3>1
         DEF LockReadLoad, TryLockReadLoad, LoadForRead, Remember, RwGoto, Control, RwTypeOK
    <3>3. ASSUME NEW u \in Threads, u # t PROVE Control(u)'
      BY <2>4, <2>t, <2>o, <3>3, OthersKeepControl
         DEF LockReadLoad, TryLockReadLoad, LoadForRead, Remember, RwGoto
    <3>. QED
      BY <2>4, <3>2, <3>3, SameWord DEF LockReadLoad, TryLockReadLoad, LoadForRead
  <2>5. CASE LockReadCas(t) \/ TryLockReadCas(t)
    <3>1. mode[t] = "none" /\ iOriginal[t] < WriteLockBit
      BY <2>5, <2>t DEF LockReadCas, TryLockReadCas, Control
    <3>2. WriteIsExclusive' /\ WordCountsHolders'
      <4>1. CASE CountReader(t)
        BY <3>1, <4>1, ReadTaken
      <4>2. CASE ~CountReader(t)
        <5>1. lock' = lock /\ mode' = mode
          BY <2>5, <2>t, <3>1, <4>2
             DEF LockReadCas, TryLockReadCas, CasFails, Return, RwTypeOK
        <5>. QED
          BY <5>1, SameWord
      <4>. QED
        BY <4>1, <4>2
    <3>3. Control(t)'
      BY <2>5, <2>t, <3>1
         DEF LockReadCas, TryLockReadCas, CountReader, CasFails, Return, Remember,
             RwGoto, Control, RwTypeOK
    <3>4. ASSUME NEW u \in Threads, u # t PROVE Control(u)'
      BY <2>5, <2>t, <2>o, <3>4, OthersKeepControl
         DEF LockReadCas, TryLockReadCas, CountReader, CasFails, Return, Remember, RwGoto
    <3>. QED
      BY <3>2, <3>3, <3>4
  <2>6. CASE TryLockWriteCas(t)
    <3>1. mode[t] = "none" /\ iOriginal[t] = 0
      BY <2>6, <2>t DEF TryLockWriteCas, Control
    <3>2. WriteIsExclusive' /\ WordCountsHolders'
      <4>1. CASE TakeWrite(t)
        BY <3>1, <4>1, WriteTaken
      <4>2. CASE ~TakeWrite(t)
        <5>1. lock' = lock /\ mode' = mode
          BY <2>6, <2>t, <3>1, <4>2 DEF TryLockWriteCas, Return, RwTypeOK
        <5>. QED
          BY <5>1, SameWord
      <4>. QED
        BY <4>1, <4>2
    <3>3. Control(t)'
      BY <2>6, <2>t, <3>1
         DEF TryLockWriteCas, TakeWrite, Return, Remember, RwGoto, Control, RwTypeOK
    <3>4. ASSUME NEW u \in Threads, u # t PROVE Control(u)'
      BY <2>6, <2>t, <2>o, <3>4, OthersKeepControl
         DEF TryLockWriteCas, TakeWrite, Return, Remember, RwGoto
    <3>. QED
      BY <3>2, <3>3, <3>4
  <2>7. CASE UnlockLoad(t)
    <3>1. mode[t] = "write" <=> lock = WriteLockBit
      <4>1. CASE mode[t] = "write"
        <5>1. Writers # {}
          BY <4>1 DEF Writers
        <5>. QED
          BY <4>1, <5>1, WordCases
      <4>2. CASE mode[t] = "read"
        <5>1. t \in Readers
          BY <4>2 DEF Readers
        <5>. QED
          BY <4>2, <5>1, WordCases DEF RwInv, WriteIsExclusive
      <4>. QED
        BY <2>7, <2>t, <4>1, <4>2 DEF UnlockLoad, Control, RwTypeOK
    <3>2. mode[t] = "read" => lock \in 1 .. (WriteLockBit - 1)
      <4>. SUFFICES ASSUME mode[t] = "read" PROVE lock \in 1 .. (WriteLockBit - 1)
        OBVIOUS
      <4>1. t \in Readers
        BY DEF Readers
      <4>2. lock = Cardinality(Readers)
        BY <4>1, WordCases DEF RwInv, WriteIsExclusive
      <4>. QED
        BY <4>1, <4>2, HoldersAreFew, FS_EmptySet
    <3>3. Control(t)'
      BY <2>7, <2>t, <3>1, <3>2 DEF UnlockLoad, Remember, RwGoto, Control, RwTypeOK
    <3>4. ASSUME NEW u \in Threads, u # t PROVE Control(u)'
      BY <2>7, <2>t, <2>o, <3>4, OthersKeepControl DEF UnlockLoad, Remember, RwGoto
    <3>. QED
      BY <2>7, <3>3, <3>4, SameWord DEF UnlockLoad
  <2>8. CASE UnlockStore(t)
    <3>1. mode[t] = "write"
      BY <2>8, <2>t DEF UnlockStore, Control
    <3>2. WriteIsExclusive' /\ WordCountsHolders'
      BY <2>8, <3>1, WriteReleased
    <3>3. Control(t)'
      BY <2>8, <2>t DEF UnlockStore, Return, Remember, RwGoto, Control, RwTypeOK
    <3>4. ASSUME NEW u \in Threads, u # t PROVE Control(u)'
      BY <2>8, <2>t, <2>o, <3>4, OthersKeepControl DEF UnlockStore, Return, Remember,
                                                       RwGoto
    <3>. QED
      BY <3>2, <3>3, <3>4
  <2>9. CASE UnlockCas(t)
    <3>1. mode[t] = "read"
      BY <2>9, <2>t DEF UnlockCas, Control
    <3>2. WriteIsExclusive' /\ WordCountsHolders'
      <4>1. CASE Expected(t)
        BY <2>9, <3>1, <4>1, ReadReleased DEF UnlockCas, Expected, CasFails
      <4>2. CASE ~Expected(t)
        BY <2>9, <4>2, SameWord DEF UnlockCas, CasFails
      <4>. QED
        BY <4>1, <4>2
    <3>3. Control(t)'
      BY <2>9, <2>t, <3>1
         DEF UnlockCas, CasFails, Return, Remember, RwGoto, Control, RwTypeOK
    <3>4. ASSUME NEW u \in Threads, u # t PROVE Control(u)'
      BY <2>9, <2>t, <2>o, <3>4, OthersKeepControl
         DEF UnlockCas, CasFails, Return, Remember, RwGoto
    <3>. QED
      BY <3>2, <3>3, <3>4
  <2>. QED
    BY <1>2, <2>1, <2>2, <2>3, <2>4, <2>5, <2>6, <2>7, <2>8, <2>9
       DEF AnyStep, Step, RwRunning
<1>. QED
  BY <1>1, <1>2, NextIsAStep

LEMMA RwInvInit ==
  ASSUME RwInit
  PROVE  RwInv
<1>1. Readers = {} /\ Writers = {}
  BY DEF RwInit, Readers, Writers
<1>2. RwTypeOK
  BY WordAssumption DEF RwInit, RwTypeOK, Word, WordMod, PcLabel
<1>3. WriteIsExclusive /\ WordCountsHolders
  BY <1>1, FS_EmptySet DEF RwInit, WriteIsExclusive, WordCountsHolders
<1>. QED
  BY <1>2, <1>3 DEF RwInv, RwInit, Control

LEMMA RwInvariance ==
  ASSUME SafeClients
  PROVE  RwSpec => []RwInv
<1>1. RwInit => RwInv
  BY RwInvInit
<1>2. RwInv /\ [RwNext]_rwVars => RwInv'
  BY RwInvStep
<1>. QED
  BY <1>1, <1>2, PTL DEF RwSpec

-----------------------------------------------------------------------------
(* What the clients rely on. *)

\* Without lock_write(), a writer excludes every other holder.
THEOREM ExclusiveWithoutLockWrite ==
  ASSUME SafeClients
  PROVE  RwSpec => []WriteIsExclusive
<1>1. RwInv => WriteIsExclusive
  BY DEF RwInv
<1>. QED
  BY <1>1, RwInvariance, PTL

\* Without lock_write(), the word counts the holders.
THEOREM WordIsTruthful ==
  ASSUME SafeClients
  PROVE  RwSpec => []WordCountsHolders
<1>1. RwInv => WordCountsHolders
  BY DEF RwInv
<1>. QED
  BY <1>1, RwInvariance, PTL

\* Without lock_write(), only the writer's unlock stores zero.
THEOREM ZeroIsTheWriters ==
  ASSUME SafeClients
  PROVE  RwSpec => []OnlyWriterStoresZero
<1>1. RwInv => OnlyWriterStoresZero
  BY DEF RwInv, Control, OnlyWriterStoresZero
<1>. QED
  BY <1>1, RwInvariance, PTL

-----------------------------------------------------------------------------
(* The implementation of the abstract lock. *)

\* Without lock_write(), every atomic step is a step of the abstract
\* reader/writer lock or leaves its state alone.
THEOREM RwLockRefinement ==
  ASSUME SafeClients
  PROVE  RwSpec => ImplementsRwMutex
<1>1. RwInit => AbstractLock!Init
  BY DEF RwInit, AbstractLock!Init, Readers, Writers
<1>2. ASSUME RwInv, RwInv', [RwNext]_rwVars
      PROVE  [AbstractLock!Next]_<<Readers, Writers>>
  <2>1. CASE mode' = mode
    BY <2>1, SameHolders
  <2>2. ASSUME NEW t \in Threads, AnyStep(t), mode' # mode
        PROVE  AbstractLock!Next
    <3>0. Control(t) /\ RwTypeOK
      BY <1>2 DEF RwInv
    <3>1. CASE CountReader(t)
      <4>1. mode[t] = "none" /\ iOriginal[t] < WriteLockBit
        BY <2>2, <3>0, <3>1, WordAssumption
           DEF AnyStep, BlockingStep, Step, RwRunning, CountReader, Return, RwGoto, Control,
               RwTypeOK, CallAcquire, CallLockWrite, CallUnlock, CallRw, LockReadLoad,
               TryLockReadLoad, LoadForRead, LockReadCas, TryLockReadCas, LockWriteCas,
               TryLockWriteCas, TakeWrite, CasFails, UnlockLoad, UnlockStore, UnlockCas
      <4>2. Readers' = Readers \cup {t} /\ Writers' = Writers /\ t \notin Readers
        BY <3>0, <3>1, <4>1, StartReading DEF CountReader, Return, Readers
      <4>3. Writers = {}
        BY <1>2, <4>2 DEF RwInv, WriteIsExclusive
      <4>. QED
        BY <4>2, <4>3 DEF AbstractLock!Next, AbstractLock!AcquireRead
    <3>2. CASE TakeWrite(t)
      <4>1. mode[t] = "none" /\ iOriginal[t] = 0
        BY <2>2, <3>0, <3>2, WordAssumption
           DEF AnyStep, BlockingStep, Step, RwRunning, TakeWrite, Return, RwGoto, Control,
               RwTypeOK, CallAcquire, CallLockWrite, CallUnlock, CallRw, LockReadLoad,
               TryLockReadLoad, LoadForRead, LockReadCas, TryLockReadCas, CountReader,
               LockWriteCas, TryLockWriteCas, CasFails, UnlockLoad, UnlockStore,
               UnlockCas
      <4>2. Readers' = Readers /\ Writers' = Writers \cup {t}
        BY <3>0, <3>2, <4>1, StartWriting DEF TakeWrite, Return
      <4>3. Readers = {} /\ Writers = {}
        BY <1>2, <3>2, <4>1, WordCases DEF TakeWrite, Expected
      <4>. QED
        BY <4>2, <4>3 DEF AbstractLock!Next, AbstractLock!AcquireWrite
    <3>3. CASE Return(t, "none") /\ mode[t] = "read"
      <4>1. t \in Readers /\ Writers = {}
        BY <1>2, <3>3 DEF Readers, RwInv, WriteIsExclusive
      <4>2. Readers' = Readers \ {t} /\ Writers' = Writers \ {t}
        BY <3>0, <3>3, <4>1, StopReading DEF Return
      <4>. QED
        BY <4>1, <4>2 DEF AbstractLock!Next, AbstractLock!Release
    <3>4. CASE Return(t, "none") /\ mode[t] = "write"
      <4>1. t \in Writers /\ Readers = {}
        BY <1>2, <3>4 DEF Writers, RwInv, WriteIsExclusive
      <4>2. Readers' = Readers \ {t} /\ Writers' = Writers \ {t}
        BY <3>0, <3>4, <4>1, StopWriting DEF Return
      <4>. QED
        BY <4>1, <4>2 DEF AbstractLock!Next, AbstractLock!Release
    <3>5. CASE Return(t, "none") /\ mode[t] = "none"
      BY <2>2, <3>0, <3>5 DEF Return, RwTypeOK
    <3>. QED
      BY <2>2, <3>0, <3>1, <3>2, <3>3, <3>4, <3>5
         DEF AnyStep, BlockingStep, Step, RwRunning, RwTypeOK, CallAcquire, CallLockWrite,
             CallUnlock, CallRw, LockReadLoad, TryLockReadLoad, LoadForRead, LockReadCas,
             TryLockReadCas, LockWriteCas, TryLockWriteCas, CasFails, UnlockLoad,
             UnlockStore, UnlockCas
  <2>. QED
    BY <1>2, <2>1, <2>2, NextIsAStep DEF rwVars
<1>. QED
  BY <1>1, <1>2, RwInvariance, PTL DEF RwSpec, ImplementsRwMutex, AbstractLock!Spec

-----------------------------------------------------------------------------
(* Where lock_write() goes wrong, for every client. *)

\* What every client's expected values satisfy, lock_write() included.
Locals ==
  /\ RwTypeOK
  /\ \A t \in Threads :
       /\ rwPc[t] \in {"lock_read_cas", "try_lock_read_cas"} => iOriginal[t] < WriteLockBit
       /\ rwPc[t] \in {"idle", "try_lock_write"} => iOriginal[t] = 0
       /\ rwPc[t] = "lock_write" => t \in BlockingWriters

LEMMA LocalsStep ==
  ASSUME Locals, [RwNext]_rwVars
  PROVE  Locals'
<1>. USE WordAssumption DEF Locals
<1>0. RwTypeOK'
  BY TypeStep
<1>1. CASE UNCHANGED rwVars
  BY <1>0, <1>1 DEF rwVars
<1>2. ASSUME NEW t \in Threads, AnyStep(t)
      PROVE  Locals'
  <2>0. ReadBits(lock) < WriteLockBit
    BY DEF ReadBits, RwTypeOK, Word, WordMod
  <2>1. CASE CallAcquire(t) \/ CallUnlock(t)
    BY <1>0, <2>1 DEF RwTypeOK, CallAcquire, CallUnlock, CallRw, RwGoto
  <2>6. CASE t \in BlockingWriters /\ CallLockWrite(t)
    BY <1>0, <2>6 DEF RwTypeOK, CallLockWrite, CallRw, RwGoto
  <2>2. CASE LockReadLoad(t) \/ TryLockReadLoad(t)
    BY <1>0, <2>0, <2>2
       DEF RwTypeOK, LockReadLoad, TryLockReadLoad, LoadForRead, RwGoto, Remember
  <2>3. CASE LockReadCas(t) \/ TryLockReadCas(t)
    BY <1>0, <2>3 DEF RwTypeOK, LockReadCas, TryLockReadCas, CountReader, CasFails,
                      Return, RwGoto, Remember
  <2>4. CASE LockWriteCas(t) \/ TryLockWriteCas(t)
    BY <1>0, <2>4 DEF RwTypeOK, LockWriteCas, TryLockWriteCas, TakeWrite, CasFails,
                      Return, RwGoto, Remember
  <2>5. CASE UnlockLoad(t) \/ UnlockStore(t) \/ UnlockCas(t)
    BY <1>0, <2>5 DEF RwTypeOK, UnlockLoad, UnlockStore, UnlockCas, CasFails,
                      Return, RwGoto, Remember
  <2>. QED
    BY <1>2, <2>1, <2>2, <2>3, <2>4, <2>5, <2>6
       DEF AnyStep, BlockingStep, Step, RwRunning
<1>. QED
  BY <1>1, <1>2, NextIsAStep

\* For every client and every finite number of threads, exclusion is first
\* lost in a retry of lock_write().
THEOREM OnlyRetriesConflict ==
  ASSUME IsFiniteSet(Threads)
  PROVE  RwSpec => ConflictComesFromRetry
<1>1. RwInit => Locals
  BY WordAssumption DEF RwInit, Locals, RwTypeOK, Word, WordMod, PcLabel
<1>2. Locals /\ [RwNext]_rwVars => Locals'
  BY LocalsStep
<1>3. ASSUME Locals, [RwNext]_rwVars, WriteIsExclusive, WordCountsHolders, ~WriteIsExclusive'
      PROVE  \E t \in BlockingWriters : iOriginal[t] # 0 /\ LockWriteCas(t)
  <2>1. mode' # mode
    BY <1>3, SameHolders DEF WriteIsExclusive
  <2>2. PICK t \in Threads : AnyStep(t)
    BY <1>3, <2>1, NextIsAStep DEF rwVars
  <2>3. IsFiniteSet(Readers) /\ (Cardinality(Readers) = 0 => Readers = {})
    <3>1. Readers \in SUBSET Threads
      BY DEF Readers
    <3>. QED
      BY <3>1, FS_Subset, FS_EmptySet
  <2>4. lock = 0 => Readers = {} /\ Writers = {}
    BY <1>3, <2>3, WordAssumption DEF WordCountsHolders
  <2>5. lock < WriteLockBit => Writers = {}
    BY <1>3, WordAssumption DEF WordCountsHolders
  <2>6. CASE CountReader(t)
    <3>1. lock < WriteLockBit
      BY <1>3, <2>2, <2>6, WordAssumption
         DEF Locals, RwTypeOK, AnyStep, BlockingStep, Step, RwRunning, CountReader,
             Expected, Return, RwGoto, CallAcquire, CallLockWrite, CallUnlock, CallRw,
             LockReadLoad, TryLockReadLoad, LoadForRead, LockReadCas, TryLockReadCas,
             LockWriteCas, TryLockWriteCas, TakeWrite, CasFails, UnlockLoad,
             UnlockStore, UnlockCas
    <3>2. Writers' = {}
      BY <1>3, <2>5, <2>6, <3>1 DEF Locals, RwTypeOK, CountReader, Return, Writers
    <3>. QED
      BY <1>3, <3>2 DEF WriteIsExclusive
  <2>7. CASE TakeWrite(t)
    <3>1. iOriginal[t] # 0
      <4>. SUFFICES ASSUME iOriginal[t] = 0 PROVE FALSE
        OBVIOUS
      <4>1. Readers = {} /\ Writers = {}
        BY <2>4, <2>7 DEF TakeWrite, Expected
      <4>2. Readers' = {} /\ Writers' \subseteq {t}
        BY <1>3, <2>7, <4>1 DEF Locals, RwTypeOK, TakeWrite, Return, Readers, Writers
      <4>. QED
        BY <1>3, <4>2 DEF WriteIsExclusive
    <3>2. rwPc[t] = "lock_write" /\ LockWriteCas(t)
      BY <1>3, <2>2, <2>7, <3>1, WordAssumption
         DEF Locals, RwTypeOK, AnyStep, BlockingStep, Step, RwRunning, TakeWrite, Expected,
             Return, RwGoto, CallAcquire, CallLockWrite, CallUnlock, CallRw, LockReadLoad,
             TryLockReadLoad, LoadForRead, LockReadCas, TryLockReadCas, CountReader,
             LockWriteCas, TryLockWriteCas, CasFails, UnlockLoad, UnlockStore, UnlockCas
    <3>. QED
      BY <1>3, <3>1, <3>2 DEF Locals
  <2>8. CASE Return(t, "none")
    <3>1. Readers' \subseteq Readers /\ Writers' \subseteq Writers
      BY <1>3, <2>8 DEF Locals, RwTypeOK, Return, Readers, Writers
    <3>. QED
      BY <1>3, <3>1 DEF WriteIsExclusive
  <2>. QED
    BY <2>1, <2>2, <2>6, <2>7, <2>8
       DEF AnyStep, BlockingStep, Step, RwRunning, CallAcquire, CallLockWrite, CallUnlock,
           CallRw, LockReadLoad, TryLockReadLoad, LoadForRead, LockReadCas,
           TryLockReadCas, LockWriteCas, TryLockWriteCas, CasFails, UnlockLoad,
           UnlockStore, UnlockCas
<1>. QED
  BY <1>1, <1>2, <1>3, PTL DEF RwSpec, ConflictComesFromRetry

-----------------------------------------------------------------------------
(***************************************************************************)
(* SpinLock.                                                               *)
(***************************************************************************)

\* The inductive invariant: the word is set exactly while somebody owns the
\* lock, and only an owner is about to store 0.
SpinInv ==
  /\ SpinTypeOK
  /\ SpinSingleOwner
  /\ spinWord = 0 <=> spinOwners = {}
  /\ \A t \in Threads : (spinPc[t] = "lock" => t \notin spinOwners) /\ (spinPc[t] = "unlock" => t \in spinOwners)

LEMMA SpinInvInit == SpinInit => SpinInv
BY LockedAssumption DEF SpinInit, SpinInv, SpinTypeOK, SpinSingleOwner

LEMMA SpinInvStep == SpinInv /\ [SpinNext]_spinVars => SpinInv'
<1>. SUFFICES ASSUME SpinInv, [SpinNext]_spinVars PROVE SpinInv'
  OBVIOUS
<1>. USE LockedAssumption DEF SpinInv, SpinTypeOK, SpinSingleOwner
<1>1. CASE UNCHANGED spinVars
  BY <1>1 DEF spinVars
<1>2. ASSUME NEW t \in Threads, SpinStep(t)
      PROVE  SpinInv'
  <2>1. CASE CallLock(t)
    BY <2>1 DEF CallLock, SpinCall, SpinGoto
  <2>2. CASE CallTryLock(t)
    BY <2>2 DEF CallTryLock, SpinCall, SpinGoto
  <2>3. CASE SpinCallUnlock(t)
    BY <2>3 DEF SpinCallUnlock, SpinCall, SpinGoto
  <2>4. CASE Lock(t)
    BY <2>4 DEF Lock, CasTakes, SpinGoto, spinVars
  <2>5. CASE TryLock(t)
    BY <2>5 DEF TryLock, CasTakes, SpinGoto
  <2>6. CASE Unlock(t)
    BY <2>6 DEF Unlock, SpinGoto
  <2>. QED
    BY <1>2, <2>1, <2>2, <2>3, <2>4, <2>5, <2>6 DEF SpinStep, SpinRunning
<1>. QED
  BY <1>1, <1>2 DEF SpinNext

LEMMA SpinInvariance == SpinSpec => []SpinInv
BY SpinInvInit, SpinInvStep, PTL DEF SpinSpec

\* At most one thread owns the lock.
THEOREM SpinMutualExclusion == SpinSpec => []SpinSingleOwner
<1>1. SpinInv => SpinSingleOwner
  BY DEF SpinInv
<1>. QED
  BY <1>1, SpinInvariance, PTL

\* Every step is a step of the abstract mutex or leaves its state alone.
THEOREM SpinLockRefinement == SpinSpec => SpinImplementsMutex
<1>1. SpinInit => SpinMutex!Init
  BY DEF SpinInit, SpinMutex!Init, SpinDepth
<1>2. ASSUME SpinInv, [SpinNext]_spinVars
      PROVE  [SpinMutex!Next]_SpinDepth
  <2>1. CASE spinOwners' = spinOwners
    BY <2>1 DEF SpinDepth
  <2>2. ASSUME NEW t \in Threads, SpinStep(t), spinOwners' # spinOwners
        PROVE  SpinMutex!Next
    <3>1. CASE CasTakes(t)
      <4>1. spinOwners = {}
        BY <1>2, <3>1 DEF SpinInv, CasTakes
      <4>2. /\ SpinDepth[t] = 0 /\ \A u \in Threads : SpinDepth[u] = 0
             /\ SpinDepth' = [SpinDepth EXCEPT ![t] = SpinDepth[t] + 1]
        BY <3>1, <4>1 DEF CasTakes, SpinDepth
      <4>. QED
        BY <4>2 DEF SpinMutex!Next, SpinMutex!Acquire
    <3>2. CASE Unlock(t)
      <4>1. t \in spinOwners /\ SpinDepth[t] = 1
        BY <1>2, <3>2 DEF SpinInv, Unlock, SpinDepth
      <4>2. SpinDepth' = [u \in Threads |-> IF u \in spinOwners \ {t} THEN 1 ELSE 0]
        BY <3>2 DEF Unlock, SpinDepth
      <4>3. SpinDepth' = [SpinDepth EXCEPT ![t] = 0]
        BY <4>2 DEF SpinDepth
      <4>4. SpinDepth[t] > 0 /\ SpinDepth[t] - 1 = 0
        BY <4>1
      <4>5. SpinMutex!Release(t)
        BY <4>3, <4>4 DEF SpinMutex!Release
      <4>. QED
        BY <4>5 DEF SpinMutex!Next
    <3>. QED
      BY <2>2, <3>1, <3>2
         DEF SpinStep, SpinRunning, CallLock, CallTryLock, SpinCallUnlock, SpinCall, Lock, TryLock, spinVars
  <2>. QED
    BY <1>2, <2>1, <2>2 DEF SpinNext, spinVars
<1>. QED
  BY <1>1, <1>2, SpinInvariance, PTL DEF SpinSpec, SpinImplementsMutex, SpinMutex!Spec

-----------------------------------------------------------------------------
(***************************************************************************)
(* RecursiveSpinLock, with any nesting depth that the counter can hold and *)
(* any hash that tells threads apart.                                      *)
(***************************************************************************)

\* The inductive invariant: the word names the one thread that is inside, and
\* the counter is that thread's depth.
RecInv ==
  /\ RecTypeOK
  /\ CountIsDepth
  /\ \A t \in Threads :
       /\ recPc[t] = "uncount" => recDepth[t] > 0
       /\ recPc[t] = "release" => recDepth[t] = 0
       /\ recPc[t] \in {"lock", "lock_owned", "try_lock", "try_lock_owned", "count"}
            => recDepth[t] < MaxDepth

\* The hash tells threads apart, so at most one of them is inside.
LEMMA RecInvIsExclusive == RecInv => RecSingleOwner
BY HashAssumption DEF RecInv, CountIsDepth, RecSingleOwner

LEMMA RecInvInit == RecInit => RecInv
BY DepthAssumption DEF RecInit, RecInv, RecTypeOK, RecPcLabel, CountIsDepth, Inside

LEMMA RecInvStep == RecInv /\ [RecNext]_recVars => RecInv'
<1>. SUFFICES ASSUME RecInv, [RecNext]_recVars PROVE RecInv'
  OBVIOUS
<1>. USE DepthAssumption, HashAssumption DEF RecInv, RecTypeOK, RecPcLabel, CountIsDepth, Inside
<1>1. CASE UNCHANGED recVars
  BY <1>1 DEF recVars
<1>2. ASSUME NEW t \in Threads, RecStep(t)
      PROVE  RecInv'
  <2>1. CASE RecCallAcquire(t)
    BY <2>1 DEF RecCallAcquire, RecCall, RecGoto
  <2>2. CASE RecCallUnlock(t)
    BY <2>2 DEF RecCallUnlock, RecCall, RecGoto
  <2>3. CASE TryLockFree(t) \/ LockFree(t)
    BY <2>3 DEF TryLockFree, LockFree, TryFree, RecGoto
  <2>4. CASE TryLockOwned(t) \/ LockOwned(t)
    BY <2>4 DEF TryLockOwned, LockOwned, TryOwned, RecGoto
  <2>5. CASE Count(t)
    <3>1. recCount = recDepth[t] /\ (recCount + 1) % CountMod = recCount + 1
      BY <2>5 DEF Count
    <3>. QED
      BY <2>5, <3>1 DEF Count, RecGoto
  <2>6. CASE Uncount(t)
    <3>1. recCount = recDepth[t] /\ recDepth[t] > 0
          /\ (recCount + CountMod - 1) % CountMod = recCount - 1
      BY <2>6 DEF Uncount
    <3>. QED
      BY <2>6, <3>1 DEF Uncount, RecGoto
  <2>7. CASE Release(t)
    BY <2>7 DEF Release, RecGoto
  <2>. QED
    BY <1>2, <2>1, <2>2, <2>3, <2>4, <2>5, <2>6, <2>7 DEF RecStep, RecRunning
<1>. QED
  BY <1>1, <1>2 DEF RecNext

LEMMA RecInvariance == RecSpec => []RecInv
BY RecInvInit, RecInvStep, PTL DEF RecSpec

\* At most one thread is between its compare-exchange and its store.
THEOREM RecMutualExclusion == RecSpec => []RecSingleOwner
BY RecInvIsExclusive, RecInvariance, PTL

\* The plain counter is accessed by at most one thread at a time.
THEOREM CounterIsProtected == RecSpec => []CountIsNotRaced
<1>1. RecInv => CountIsNotRaced
  BY RecInvIsExclusive DEF RecInv, RecSingleOwner, Inside, CountIsNotRaced
<1>. QED
  BY <1>1, RecInvariance, PTL

\* The counter is the owner's depth, and a free lock has none.
THEOREM CounterIsTheDepth == RecSpec => []CountIsDepth
<1>1. RecInv => CountIsDepth
  BY DEF RecInv
<1>. QED
  BY <1>1, RecInvariance, PTL

\* Every step is a step of the abstract mutex or leaves its state alone.
THEOREM RecLockRefinement == RecSpec => RecImplementsMutex
<1>1. RecInit => RecMutex!Init
  BY DEF RecInit, RecMutex!Init
<1>2. ASSUME RecInv, [RecNext]_recVars
      PROVE  [RecMutex!Next]_recDepth
  <2>1. CASE recDepth' = recDepth
    BY <2>1
  <2>2. ASSUME NEW t \in Threads, RecStep(t), recDepth' # recDepth
        PROVE  RecMutex!Next
    <3>1. CASE Count(t)
      <4>1. \A u \in Threads \ {t} : recDepth[u] = 0
        BY <1>2, <3>1, RecInvIsExclusive
           DEF Count, RecSingleOwner, Inside, RecInv, RecTypeOK
      <4>. QED
        BY <1>2, <3>1, <4>1 DEF Count, RecInv, RecMutex!Next, RecMutex!Acquire
    <3>2. CASE Uncount(t)
      BY <1>2, <3>2 DEF Uncount, RecInv, RecMutex!Next, RecMutex!Release
    <3>. QED
      BY <2>2, <3>1, <3>2
         DEF RecStep, RecRunning, RecCallAcquire, RecCallUnlock, RecCall, TryLockFree, LockFree, TryFree,
             TryLockOwned, LockOwned, TryOwned, Release
  <2>. QED
    BY <1>2, <2>1, <2>2 DEF RecNext, recVars
<1>. QED
  BY <1>1, <1>2, RecInvariance, PTL DEF RecSpec, RecImplementsMutex, RecMutex!Spec

==============================================================================
