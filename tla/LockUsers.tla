------------------------------ MODULE LockUsers ------------------------------
(* The threads that use a lock: one declaration for the locks of            *)
(* xtd::concurrent, so that a module may extend all of them.                *)
CONSTANT Threads
==============================================================================
