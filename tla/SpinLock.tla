------------------------------ MODULE SpinLock -------------------------------
(***************************************************************************)
(* xtd::concurrent::spin_lock_base (spin_lock.hpp) and the scope_locker    *)
(* that releases it (concurrent.hpp): one atomic word, a compare-exchange  *)
(* to take it, an unconditional store to free it.                          *)
(***************************************************************************)
EXTENDS LockUsers, Naturals

CONSTANTS
  LockedValue   \* 0x80000000 in the code; any word but 0

ASSUME LockedAssumption == LockedValue \in Nat \ {0}

VARIABLES
  spinWord,    \* the atomic word _lock
  spinPc,      \* the next atomic step of each thread
  spinOwners   \* the threads that have acquired the lock and not released it

spinVars == <<spinWord, spinPc, spinOwners>>

SpinInit ==
  /\ spinWord = 0
  /\ spinPc = [t \in Threads |-> "idle"]
  /\ spinOwners = {}

SpinGoto(t, label) == spinPc' = [spinPc EXCEPT ![t] = label]

SpinCall(t, label) ==
  /\ spinPc[t] = "idle"
  /\ SpinGoto(t, label)
  /\ UNCHANGED <<spinWord, spinOwners>>

\* lock() is not reentrant: a client calls it only while it holds nothing.
CallLock(t) == t \notin spinOwners /\ SpinCall(t, "lock")

\* try_lock() may be called by anybody, the owner included.
CallTryLock(t) == SpinCall(t, "try_lock")

SpinCallUnlock(t) == t \in spinOwners /\ SpinCall(t, "unlock")

\* Mutant: the word is stored whatever it was.
StoreTakes(t) ==
  /\ spinWord' = LockedValue
  /\ spinOwners' = spinOwners \cup {t}
  /\ SpinGoto(t, "idle")

\* compare_exchange_strong(compare, LockedValue) with a fresh compare of 0.
CasTakes(t) ==
  /\ spinWord = 0
  /\ spinWord' = LockedValue
  /\ spinOwners' = spinOwners \cup {t}
  /\ SpinGoto(t, "idle")

Lock(t) ==
  /\ spinPc[t] = "lock"
  /\ \/ CasTakes(t)
     \/ spinWord # 0 /\ UNCHANGED spinVars

TryLock(t) ==
  /\ spinPc[t] = "try_lock"
  /\ \/ CasTakes(t)
     \/ spinWord # 0 /\ SpinGoto(t, "idle") /\ UNCHANGED <<spinWord, spinOwners>>

\* Mutant: unlock() leaves the word as it is.
UnlockWithoutStore(t) ==
  /\ spinPc[t] = "unlock"
  /\ spinOwners' = spinOwners \ {t}
  /\ SpinGoto(t, "idle")
  /\ UNCHANGED spinWord

Unlock(t) ==
  /\ spinPc[t] = "unlock"
  /\ spinWord' = 0
  /\ spinOwners' = spinOwners \ {t}
  /\ SpinGoto(t, "idle")

SpinRunning(t) == Lock(t) \/ TryLock(t) \/ Unlock(t)

SpinStep(t) == CallLock(t) \/ CallTryLock(t) \/ SpinCallUnlock(t) \/ SpinRunning(t)

SpinNext == \E t \in Threads : SpinStep(t)

SpinSpec == SpinInit /\ [][SpinNext]_spinVars

\* Threads inside a call are scheduled, and an owner eventually releases
\* (scope_locker's destructor), however often it calls try_lock() before.
SpinFairness ==
  \A t \in Threads : WF_spinVars(SpinRunning(t)) /\ SF_spinVars(SpinCallUnlock(t))

SpinFairSpec == SpinSpec /\ SpinFairness

-----------------------------------------------------------------------------
(* Properties *)

\* The type invariant.
SpinTypeOK ==
  /\ spinWord \in {0, LockedValue}
  /\ spinPc \in [Threads -> {"idle", "lock", "try_lock", "unlock"}]
  /\ spinOwners \subseteq Threads

\* At most one owner, although unlock() stores 0 without looking at the word
\* ("A single owner spinning lock", spin_lock.hpp:13).
SpinSingleOwner ==
  \A t, u \in spinOwners : t = u

\* The spin loop does not lose the lock: while some thread keeps waiting in
\* lock(), the lock keeps being taken (by somebody: it is not fair).
SpinLockKeepsBeingTaken ==
  \/ []<>(\A t \in Threads : spinPc[t] # "lock")
  \/ []<><<spinOwners' \ spinOwners # {}>>_spinVars

\* The lock implements the abstract mutex, which each owner holds once.
SpinDepth == [t \in Threads |-> IF t \in spinOwners THEN 1 ELSE 0]
SpinMutex == INSTANCE Mutex WITH MaxDepth <- 1, depth <- SpinDepth
SpinImplementsMutex == SpinMutex!Spec
==============================================================================
