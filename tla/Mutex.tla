-------------------------------- MODULE Mutex --------------------------------
(***************************************************************************)
(* What a single-owner lock promises: how many times each thread holds it, *)
(* and that a thread acquires it only while nobody else does.  MaxDepth is *)
(* 1 for spin_lock and the deepest nesting for recursive_spin_lock, which  *)
(* are both shown to implement this specification.                         *)
(***************************************************************************)
EXTENDS Naturals

CONSTANTS Threads, MaxDepth

VARIABLE depth

Init == depth = [t \in Threads |-> 0]

Acquire(t) ==
  /\ \A u \in Threads \ {t} : depth[u] = 0
  /\ depth[t] < MaxDepth
  /\ depth' = [depth EXCEPT ![t] = @ + 1]

Release(t) ==
  /\ depth[t] > 0
  /\ depth' = [depth EXCEPT ![t] = @ - 1]

Next == \E t \in Threads : Acquire(t) \/ Release(t)

Spec == Init /\ [][Next]_depth
==============================================================================
