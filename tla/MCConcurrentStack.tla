-------------------------- MODULE MCConcurrentStack --------------------------
(* Instances of ConcurrentStack for TLC: threads of one kind and addresses  *)
(* are interchangeable.                                                     *)
EXTENDS ConcurrentStack, TLC

Symmetry == Permutations(Pushers) \cup Permutations(Poppers) \cup Permutations(Nodes)
==============================================================================
