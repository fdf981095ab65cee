-------------------------- MODULE RecursiveSpinLock --------------------------
(***************************************************************************)
(* xtd::concurrent::recursive_spin_lock (recursive_spin_lock.hpp): an      *)
(* atomic word that holds the hash of the owner's thread id, and a plain   *)
(* counter of how many times the owner holds it.                           *)
(***************************************************************************)
EXTENDS LockUsers, Naturals

CONSTANTS
  Hash,       \* std::hash<std::thread::id> of each thread
  NoOwner,    \* the word of a free lock, size_t(-1)
  CountMod,   \* _lock_count is a uint32_t: 2^32
  MaxDepth    \* bound: how deep a client nests

\* std::hash promises neither of the first two: the lock relies on them.
ASSUME HashAssumption ==
  /\ \A t \in Threads : Hash[t] # NoOwner
  /\ \A t, u \in Threads : Hash[t] = Hash[u] => t = u

ASSUME DepthAssumption ==
  CountMod \in Nat /\ MaxDepth \in Nat /\ 0 < MaxDepth /\ MaxDepth < CountMod

VARIABLES
  recWord,       \* the atomic word _lock
  recCount,  \* the plain member _lock_count
  recPc,         \* the next step of each thread
  recDepth       \* how many times each thread holds the lock

recVars == <<recWord, recCount, recPc, recDepth>>

RecInit ==
  /\ recWord = NoOwner
  /\ recCount = 0
  /\ recPc = [t \in Threads |-> "idle"]
  /\ recDepth = [t \in Threads |-> 0]

RecGoto(t, label) == recPc' = [recPc EXCEPT ![t] = label]

RecCall(t, label) ==
  /\ recPc[t] = "idle"
  /\ RecGoto(t, label)
  /\ UNCHANGED <<recWord, recCount, recDepth>>

RecCallAcquire(t) ==
  /\ recDepth[t] < MaxDepth
  /\ \E label \in {"lock", "try_lock"} : RecCall(t, label)

RecCallUnlock(t) == recDepth[t] > 0 /\ RecCall(t, "uncount")

\* The first compare-exchange of try_lock: from free to this thread's id.
\* lock() runs the same code from its loop.
TryFree(t, at, again) ==
  /\ recPc[t] = at
  /\ \/ recWord = NoOwner /\ recWord' = Hash[t] /\ RecGoto(t, "count")
     \/ recWord # NoOwner /\ RecGoto(t, again) /\ UNCHANGED recWord
  /\ UNCHANGED <<recCount, recDepth>>

\* Mutant: any owner passes for this thread.
TryOwnedByAny(t, at, otherwise) ==
  /\ recPc[t] = at
  /\ \/ recWord # NoOwner /\ RecGoto(t, "count")
     \/ recWord = NoOwner /\ RecGoto(t, otherwise)
  /\ UNCHANGED <<recWord, recCount, recDepth>>

\* Mutant: the second attempt is left out.
TryOwnedNever(t, at, otherwise) ==
  /\ recPc[t] = at
  /\ RecGoto(t, otherwise)
  /\ UNCHANGED <<recWord, recCount, recDepth>>

\* The second: from this thread's id to itself, which succeeds when the
\* thread (or one that hashes alike) is the owner.
TryOwned(t, at, otherwise) ==
  /\ recPc[t] = at
  /\ \/ recWord = Hash[t] /\ RecGoto(t, "count")
     \/ recWord # Hash[t] /\ RecGoto(t, otherwise)
  /\ UNCHANGED <<recWord, recCount, recDepth>>

TryLockFree(t) == TryFree(t, "try_lock", "try_lock_owned")
TryLockOwned(t) == TryOwned(t, "try_lock_owned", "idle")
LockFree(t) == TryFree(t, "lock", "lock_owned")
LockOwned(t) == TryOwned(t, "lock_owned", "lock")

\* ++_lock_count; the call returns true.
Count(t) ==
  /\ recPc[t] = "count"
  /\ recCount' = (recCount + 1) % CountMod
  /\ recDepth' = [recDepth EXCEPT ![t] = @ + 1]
  /\ RecGoto(t, "idle")
  /\ UNCHANGED recWord

\* Mutant: every unlock releases.
UncountReleases(t) ==
  /\ recPc[t] = "uncount"
  /\ recCount' = (recCount + CountMod - 1) % CountMod
  /\ recDepth' = [recDepth EXCEPT ![t] = @ - 1]
  /\ RecGoto(t, "release")
  /\ UNCHANGED recWord

\* 0 == --_lock_count
Uncount(t) ==
  /\ recPc[t] = "uncount"
  /\ recCount' = (recCount + CountMod - 1) % CountMod
  /\ recDepth' = [recDepth EXCEPT ![t] = @ - 1]
  /\ \/ recCount' = 0 /\ RecGoto(t, "release")
     \/ recCount' # 0 /\ RecGoto(t, "idle")
  /\ UNCHANGED recWord

\* Mutant: the lock stays taken.
ReleaseWithoutStore(t) ==
  /\ recPc[t] = "release"
  /\ RecGoto(t, "idle")
  /\ UNCHANGED <<recWord, recCount, recDepth>>

\* _lock.store(-1)
Release(t) ==
  /\ recPc[t] = "release"
  /\ recWord' = NoOwner
  /\ RecGoto(t, "idle")
  /\ UNCHANGED <<recCount, recDepth>>

RecRunning(t) ==
  \/ TryLockFree(t) \/ TryLockOwned(t) \/ LockFree(t) \/ LockOwned(t)
  \/ Count(t) \/ Uncount(t) \/ Release(t)

RecStep(t) == RecCallAcquire(t) \/ RecCallUnlock(t) \/ RecRunning(t)

RecNext == \E t \in Threads : RecStep(t)

RecSpec == RecInit /\ [][RecNext]_recVars

\* Threads inside a call are scheduled, and an owner eventually unlocks
\* (scope_locker's destructor), however deep it nests before.
RecFairness ==
  \A t \in Threads : WF_recVars(RecRunning(t)) /\ SF_recVars(RecCallUnlock(t))

RecFairSpec == RecSpec /\ RecFairness

-----------------------------------------------------------------------------
(* Properties *)

RecPcLabel == {"idle", "lock", "lock_owned", "try_lock", "try_lock_owned",
            "count", "uncount", "release"}

\* The type invariant.
RecTypeOK ==
  /\ recWord \in {NoOwner} \cup {Hash[t] : t \in Threads}
  /\ recCount \in 0 .. (CountMod - 1)
  /\ recPc \in [Threads -> RecPcLabel]
  /\ recDepth \in [Threads -> 0 .. MaxDepth]

\* The thread is past its compare-exchange and before its store.
Inside(t) == recDepth[t] > 0 \/ recPc[t] \in {"count", "release"}

\* One owner at a time, at whatever depth (test_recursive_spin_lock.hpp:
\* another thread's try_lock fails at every nesting level).
RecSingleOwner ==
  \A t, u \in Threads : Inside(t) /\ Inside(u) => t = u

\* The plain counter is never touched by two threads at once: _lock_count is
\* not atomic, and only the word protects it.
CountIsNotRaced ==
  \A t, u \in Threads :
    recPc[t] \in {"count", "uncount"} /\ recPc[u] \in {"count", "uncount"} => t = u

\* The lock is released exactly when the owner's last hold ends: never while
\* some hold is left, and the counter does not survive its owner.
CountIsDepth ==
  /\ \A t \in Threads : Inside(t) => recWord = Hash[t] /\ recCount = recDepth[t]
  /\ (\A t \in Threads : ~Inside(t)) => recWord = NoOwner /\ recCount = 0

\* The owner's own lock() never waits: nesting cannot deadlock a thread with
\* itself.
ReentryGetsIn ==
  \A t \in Threads : (recPc[t] = "lock" /\ recDepth[t] > 0) ~> (recPc[t] = "count")

\* While some thread keeps waiting in lock(), the lock keeps being taken.
RecLockKeepsBeingTaken ==
  \/ []<>(\A t \in Threads : recPc[t] \notin {"lock", "lock_owned"})
  \/ []<><<\E t \in Threads : Count(t)>>_recVars

\* The lock implements the abstract mutex.
RecMutex == INSTANCE Mutex WITH depth <- recDepth
RecImplementsMutex == RecMutex!Spec
==============================================================================
