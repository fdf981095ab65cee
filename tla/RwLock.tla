------------------------------- MODULE RwLock --------------------------------
(***************************************************************************)
(* xtd::concurrent::rw_lock_base (rw_lock.hpp): one 32-bit atomic word,    *)
(* operated on by threads whose every atomic load, store and               *)
(* compare-exchange is a step of its own.                                  *)
(*                                                                         *)
(* A thread stands for one holder (one scope_read, one scope_write or one  *)
(* pair of calls): the lock keeps no owner, so a thread that nests read    *)
(* locks is the same to it as several threads that hold one each.          *)
(***************************************************************************)
EXTENDS LockUsers, Integers, FiniteSets

CONSTANTS
  BlockingWriters,  \* the threads that ever call lock_write(); the others
                    \* write only through try_lock_write()
  WriteLockBit      \* write_lock_bit, 2^31 in the code

ASSUME WordAssumption == WriteLockBit \in Nat \ {0}
ASSUME WritersAssumption == BlockingWriters \subseteq Threads

VARIABLES
  lock,       \* the atomic word _lock
  rwPc,         \* the next atomic step of each thread
  iOriginal,  \* each thread's local of that name; 0 between calls
  mode        \* what each thread holds: "none", "read" or "write"

rwVars == <<lock, rwPc, iOriginal, mode>>

WordMod == 2 * WriteLockBit
Word == 0 .. (WordMod - 1)

\* Mutant: the mask is forgotten.
ReadBitsUnmasked(w) == w

\* The word without its write bit (_lock & read_bits_mask).
ReadBits(w) == IF w >= WriteLockBit THEN w - WriteLockBit ELSE w

\* What readers() returns.
ReaderCount == ReadBits(lock)

Readers == {t \in Threads : mode[t] = "read"}
Writers == {t \in Threads : mode[t] = "write"}

RwInit ==
  /\ lock = 0
  /\ rwPc = [t \in Threads |-> "idle"]
  /\ iOriginal = [t \in Threads |-> 0]
  /\ mode = [t \in Threads |-> "none"]

-----------------------------------------------------------------------------
(* Steps that are common to the operations. *)

RwGoto(t, label) == rwPc' = [rwPc EXCEPT ![t] = label]

Remember(t, word) == iOriginal' = [iOriginal EXCEPT ![t] = word]

\* A call returns: the local goes out of scope and the thread holds m.
Return(t, m) ==
  /\ RwGoto(t, "idle")
  /\ Remember(t, 0)
  /\ mode' = [mode EXCEPT ![t] = m]

Expected(t) == lock = iOriginal[t]

\* A compare-exchange that finds another word than the expected one leaves
\* the lock alone and writes the word it found into the expected value.
CasFails(t) ==
  /\ ~Expected(t)
  /\ Remember(t, lock)
  /\ UNCHANGED <<lock, mode>>

-----------------------------------------------------------------------------
(* The calls a client makes.  A thread acquires when it holds nothing and   *)
(* unlocks what it holds, as scope_read and scope_write do.                 *)

CallRw(t, label) ==
  /\ rwPc[t] = "idle"
  /\ RwGoto(t, label)
  /\ UNCHANGED <<lock, iOriginal, mode>>

CallAcquire(t) ==
  /\ mode[t] = "none"
  /\ \E label \in {"lock_read", "try_lock_read", "try_lock_write"} : CallRw(t, label)

CallLockWrite(t) ==
  /\ mode[t] = "none"
  /\ CallRw(t, "lock_write")

CallUnlock(t) == mode[t] # "none" /\ CallRw(t, "unlock")

-----------------------------------------------------------------------------
(* lock_read and try_lock_read: load, mask, compare-exchange. *)

LoadForRead(t, at, cas) ==
  /\ rwPc[t] = at
  /\ Remember(t, ReadBits(lock))
  /\ RwGoto(t, cas)
  /\ UNCHANGED <<lock, mode>>

\* Mutant: a load and a store where the code compares and exchanges.
CountReaderBlindly(t) ==
  /\ lock' = (iOriginal[t] + 1) % WordMod
  /\ Return(t, "read")

CountReader(t) ==
  /\ Expected(t)
  /\ lock' = (iOriginal[t] + 1) % WordMod
  /\ Return(t, "read")

LockReadLoad(t) == LoadForRead(t, "lock_read", "lock_read_cas")

LockReadCas(t) ==
  /\ rwPc[t] = "lock_read_cas"
  /\ \/ CountReader(t)
     \/ CasFails(t) /\ RwGoto(t, "lock_read")

TryLockReadLoad(t) == LoadForRead(t, "try_lock_read", "try_lock_read_cas")

TryLockReadCas(t) ==
  /\ rwPc[t] = "try_lock_read_cas"
  /\ \/ CountReader(t)
     \/ ~Expected(t) /\ Return(t, "none") /\ UNCHANGED lock

-----------------------------------------------------------------------------
(* lock_write: iOriginal is initialised once, before the loop, so each      *)
(* retry expects the word that made the previous one fail.                  *)

\* Mutant: the word is stored whatever it was.
TakeWriteBlindly(t) == lock' = WriteLockBit /\ Return(t, "write")

TakeWrite(t) ==
  /\ Expected(t)
  /\ lock' = WriteLockBit
  /\ Return(t, "write")

LockWriteCas(t) ==
  /\ rwPc[t] = "lock_write"
  /\ \/ TakeWrite(t)
     \/ CasFails(t) /\ UNCHANGED rwPc

TryLockWriteCas(t) ==
  /\ rwPc[t] = "try_lock_write"
  /\ \/ TakeWrite(t)
     \/ ~Expected(t) /\ Return(t, "none") /\ UNCHANGED lock

-----------------------------------------------------------------------------
(* unlock: one routine for both modes, told apart by the word it loads. *)

\* Mutant: the word is masked as in lock_read, which hides the write bit.
UnlockLoadMasked(t) ==
  /\ rwPc[t] = "unlock"
  /\ RwGoto(t, "unlock_cas")
  /\ Remember(t, ReadBits(lock))
  /\ UNCHANGED <<lock, mode>>

UnlockLoad(t) ==
  /\ rwPc[t] = "unlock"
  /\ \/ lock = WriteLockBit /\ RwGoto(t, "unlock_store")
     \/ lock # WriteLockBit /\ RwGoto(t, "unlock_cas")
  /\ Remember(t, lock)
  /\ UNCHANGED <<lock, mode>>

UnlockStore(t) ==
  /\ rwPc[t] = "unlock_store"
  /\ lock' = 0
  /\ Return(t, "none")

UnlockCas(t) ==
  /\ rwPc[t] = "unlock_cas"
  /\ \/ /\ Expected(t)
        /\ lock' = (iOriginal[t] - 1) % WordMod
        /\ Return(t, "none")
     \/ CasFails(t) /\ RwGoto(t, "unlock")

-----------------------------------------------------------------------------

RwRunning(t) ==
  \/ LockReadLoad(t) \/ LockReadCas(t)
  \/ TryLockReadLoad(t) \/ TryLockReadCas(t) \/ TryLockWriteCas(t)
  \/ UnlockLoad(t) \/ UnlockStore(t) \/ UnlockCas(t)

Step(t) == CallAcquire(t) \/ CallUnlock(t) \/ RwRunning(t)

BlockingStep(t) == CallLockWrite(t) \/ LockWriteCas(t)

RwNext ==
  \/ \E t \in Threads : Step(t)
  \/ \E t \in BlockingWriters : BlockingStep(t)

RwSpec == RwInit /\ [][RwNext]_rwVars

\* Every thread that is inside a call is eventually scheduled, and a holder
\* eventually releases (scope_read and scope_write do so in a destructor).
RwFairness ==
  /\ \A t \in Threads : WF_rwVars(RwRunning(t)) /\ WF_rwVars(CallUnlock(t))
  /\ \A t \in BlockingWriters : WF_rwVars(LockWriteCas(t))

RwFairSpec == RwSpec /\ RwFairness

-----------------------------------------------------------------------------
(* Properties *)

PcLabel == {"idle", "lock_read", "lock_read_cas", "try_lock_read",
            "try_lock_read_cas", "lock_write", "try_lock_write",
            "unlock", "unlock_store", "unlock_cas"}

\* The type invariant.
RwTypeOK ==
  /\ lock \in Word
  /\ rwPc \in [Threads -> PcLabel]
  /\ iOriginal \in [Threads -> Word]
  /\ mode \in [Threads -> {"none", "read", "write"}]

\* A writer excludes every other holder ("acquires a write lock for exclusive
\* access", rw_lock.hpp:61): nobody reads or writes beside it.
WriteIsExclusive ==
  \A w \in Writers : Readers = {} /\ Writers = {w}

\* The word tells the truth about the holders: it is exactly write_lock_bit
\* while someone writes, and otherwise the number of active read locks that
\* readers() is documented to return (rw_lock.hpp:24).
WordCountsHolders ==
  \/ Writers = {} /\ lock = Cardinality(Readers)
  \/ Writers # {} /\ lock = WriteLockBit

\* lock_write breaks exclusion only where it retries: from a state where the
\* holders exclude each other and the word counts them, a step to a state with
\* two conflicting holders is a lock_write whose expected value is no longer
\* the 0 it started from (rw_lock.hpp:63-64).
ConflictComesFromRetry ==
  [][(WriteIsExclusive /\ WordCountsHolders /\ ~WriteIsExclusive') =>
       \E t \in BlockingWriters : iOriginal[t] # 0 /\ LockWriteCas(t)]_rwVars

\* An unlock that took the store-zero branch is the writer's: were it a
\* reader's, the store would wipe out every other reader's count.
OnlyWriterStoresZero ==
  \A t \in Threads : rwPc[t] = "unlock_store" => mode[t] = "write"

\* A writer's unlock always finishes: no reader that comes and goes can keep
\* it in the retry loop.
WriterUnlockFinishes ==
  \A t \in Threads :
    (mode[t] = "write" /\ rwPc[t] = "unlock") ~> (mode[t] = "none")

LockReturns(t) == rwPc[t] # "idle" /\ rwPc'[t] = "idle"

\* The spin loops never starve the system as a whole: as long as some thread
\* is inside a call, calls keep returning (a given thread may starve).
CallsKeepReturning ==
  \/ []<>(\A t \in Threads : rwPc[t] = "idle")
  \/ []<><<\E t \in Threads : LockReturns(t)>>_rwVars

\* The lock implements the abstract reader/writer lock.
AbstractLock == INSTANCE RwMutex WITH reading <- Readers, writing <- Writers
ImplementsRwMutex == AbstractLock!Spec
==============================================================================
