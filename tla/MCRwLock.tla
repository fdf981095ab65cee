------------------------------ MODULE MCRwLock -------------------------------
(* Instances of RwLock for TLC: threads are model values, interchangeable   *)
(* except that some of them may call lock_write.                            *)
EXTENDS RwLock, TLC

ThreadSymmetry == Permutations(Threads)
==============================================================================
