-------------------------------- MODULE Lifo ---------------------------------
(***************************************************************************)
(* What a stack promises: items come off in the reverse of the order they  *)
(* went on.  ConcurrentStack is shown to implement it.                     *)
(***************************************************************************)
EXTENDS Sequences

CONSTANT Items

VARIABLES
  items,   \* top first
  busy     \* whether somebody is inside a call

Init == items = <<>> /\ busy = FALSE

Push(v) == items' = <<v>> \o items

Pop == items # <<>> /\ items' = Tail(items)

\* The stack is destroyed, and a new one made, when nobody uses it.
Clear == ~busy /\ items' = <<>>

Next ==
  /\ busy' \in BOOLEAN
  /\ (\E v \in Items : Push(v)) \/ Pop \/ Clear \/ UNCHANGED items

Spec == Init /\ [][Next]_<<items, busy>>
==============================================================================
