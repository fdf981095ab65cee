------------------------------- MODULE MCLocks -------------------------------
(***************************************************************************)
(* The three locks of xtd::concurrent side by side for TLC: each behaviour *)
(* uses one of them, and the others rest in their initial state.           *)
(***************************************************************************)
EXTENDS RwLock, SpinLock, RecursiveSpinLock

VARIABLE subject  \* the lock that this behaviour uses

allVars == <<subject, rwVars, spinVars, recVars>>

\* Threads are numbers and hash to themselves.
HashOf == [t \in Threads |-> t]

LocksInit ==
  /\ subject \in {"rw_lock", "spin_lock", "recursive_spin_lock"}
  /\ RwInit /\ SpinInit /\ RecInit

UseRwLock ==
  /\ subject = "rw_lock"
  /\ RwNext
  /\ UNCHANGED <<subject, spinVars, recVars>>

UseSpinLock ==
  /\ subject = "spin_lock"
  /\ SpinNext
  /\ UNCHANGED <<subject, rwVars, recVars>>

UseRecursiveSpinLock ==
  /\ subject = "recursive_spin_lock"
  /\ RecNext
  /\ UNCHANGED <<subject, rwVars, spinVars>>

LocksNext == UseRwLock \/ UseSpinLock \/ UseRecursiveSpinLock

\* A lock that is not used has no call under way, so its fairness asks nothing.
LocksSpec ==
  /\ LocksInit /\ [][LocksNext]_allVars
  /\ SpinFairness /\ RecFairness
==============================================================================
