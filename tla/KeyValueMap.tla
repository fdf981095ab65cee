----------------------------- MODULE KeyValueMap ------------------------------
(***************************************************************************)
(* What a unique-key map promises, as std::map does: the value of every    *)
(* key, how many keys there are, and what the last operation answered.     *)
(* Nothing is promised of a map once a call has failed (thrown).  BTree is *)
(* shown to implement it on pages.                                         *)
(***************************************************************************)
EXTENDS Naturals, FiniteSets

CONSTANTS Keys, Values, Default, Absent

VARIABLES map, size, answer, failed

Init ==
  /\ map = [k \in Keys |-> Absent]
  /\ size = 0
  /\ answer = Absent
  /\ failed = FALSE

Present(k) == map[k] # Absent

\* (The first conjunct follows from the second: it spares TLC most of them.)
Becomes(k, v) == map'[k] = v /\ map' = [map EXCEPT ![k] = v]

Put(k, v) ==
  /\ size' = IF Present(k) THEN size ELSE size + 1
  /\ Becomes(k, v)

Keep == UNCHANGED <<size, map>>

\* TRUE when a new element was inserted, FALSE when the key already exists.
Insert(k, v) ==
  \/ answer' = TRUE /\ ~Present(k) /\ Put(k, v)
  \/ answer' = FALSE /\ Present(k) /\ Keep

Assign(k, v) == answer' = TRUE /\ Put(k, v)

Update(k, v) ==
  \/ answer' = TRUE /\ Present(k) /\ Put(k, v)
  \/ answer' = FALSE /\ ~Present(k) /\ Keep

\* The value of the key, inserting the default when it is absent.
Subscript(k) ==
  \/ answer' = map[k] /\ Present(k) /\ Keep
  \/ answer' = Default /\ ~Present(k) /\ Put(k, Default)

Erase(k) ==
  \/ /\ answer' = TRUE
     /\ Present(k)
     /\ size' = size - 1
     /\ Becomes(k, Absent)
  \/ answer' = FALSE /\ ~Present(k) /\ Keep

Clear ==
  /\ answer' = TRUE
  /\ size' = 0
  /\ map' = [k \in Keys |-> Absent]

Operation ==
  \/ \E k \in Keys, v \in Values : Insert(k, v) \/ Assign(k, v) \/ Update(k, v)
  \/ \E k \in Keys : Subscript(k) \/ Erase(k)
  \/ Clear

Next ==
  \/ failed' = FALSE /\ failed = FALSE /\ Operation
  \/ failed' = TRUE

Spec == Init /\ [][Next]_<<map, size, answer, failed>>
==============================================================================
