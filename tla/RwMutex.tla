------------------------------- MODULE RwMutex -------------------------------
(***************************************************************************)
(* What a reader/writer lock promises, with no word and no spinning: the   *)
(* state is who holds it.  RwLock is shown to implement this               *)
(* specification (src/include/xtd/concurrent/rw_lock.hpp, "A multiple      *)
(* reader/single writer spin lock").                                       *)
(***************************************************************************)
CONSTANT Threads

VARIABLES reading,   \* threads that hold a read lock
          writing    \* threads that hold the write lock

Init == reading = {} /\ writing = {}

AcquireRead(t) ==
  /\ writing = {}
  /\ t \notin reading
  /\ reading' = reading \cup {t}
  /\ UNCHANGED writing

AcquireWrite(t) ==
  /\ writing = {}
  /\ reading = {}
  /\ writing' = {t}
  /\ UNCHANGED reading

Release(t) ==
  /\ t \in reading \cup writing
  /\ reading' = reading \ {t}
  /\ writing' = writing \ {t}

Next == \E t \in Threads : AcquireRead(t) \/ AcquireWrite(t) \/ Release(t)

Spec == Init /\ [][Next]_<<reading, writing>>
==============================================================================
