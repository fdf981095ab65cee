------------------------------ MODULE MCHashMap ------------------------------
(* Instances of HashMap for TLC: threads and addresses are interchangeable. *)
EXTENDS HashMap, TLC

Symmetry == Permutations(Threads) \cup Permutations(Leaves) \cup Permutations(Values)
==============================================================================
