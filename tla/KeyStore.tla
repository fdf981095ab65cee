------------------------------ MODULE KeyStore -------------------------------
(***************************************************************************)
(* What a concurrent map promises: every call takes effect at one moment   *)
(* between its beginning and its end, and answers what is true of the map  *)
(* at that moment; an insert, an exists and a remove that answers TRUE at  *)
(* the step that ends them, and a remove that answers FALSE at that step   *)
(* or at an earlier one of its call, at which the key was not there.  All  *)
(* may be cleared while nobody is inside a call.  Nothing is promised of a *)
(* map that has failed.  HashMap is shown to implement it.                 *)
(***************************************************************************)
CONSTANTS Threads, Keys, Operations

VARIABLES
  present,          \* the keys in the map
  op, key, result,  \* each thread's last call: its name, argument and answer
  busy,             \* which threads are inside a call
  missed,           \* which of them remember a moment of their call at which
                    \* their key was not in the map
  failed

vars == <<present, op, key, result, busy, missed, failed>>

Init ==
  /\ present = {}
  /\ op = [t \in Threads |-> "none"]
  /\ key \in [Threads -> Keys]
  /\ result = [t \in Threads |-> FALSE]
  /\ busy = [t \in Threads |-> FALSE]
  /\ missed = [t \in Threads |-> FALSE]
  /\ failed = FALSE

Call(t) ==
  /\ ~busy[t]
  /\ busy' = [busy EXCEPT ![t] = TRUE]
  /\ \E o \in Operations, k \in Keys :
       op' = [op EXCEPT ![t] = o] /\ key' = [key EXCEPT ![t] = k]
  /\ result' = [result EXCEPT ![t] = FALSE]
  /\ UNCHANGED present

Mine(t, o) == busy[t] /\ op[t] = o /\ UNCHANGED <<op, key>>

Answer(t, a) ==
  /\ busy' = [busy EXCEPT ![t] = FALSE]
  /\ result' = [result EXCEPT ![t] = a]

Absent(t) == key[t] \notin present

Add(t) == present' = present \cup {key[t]}

\* Of the inserts of a key one succeeds, until a remove of it does.
Insert(t) == Mine(t, "insert") /\ Add(t) /\ Answer(t, Absent(t))

\* Of the removes of a key one succeeds, until an insert of it does.
Remove(t) ==
  /\ Mine(t, "remove")
  /\ \/ ~Absent(t) /\ present' = present \ {key[t]} /\ Answer(t, TRUE)
     \/ (Absent(t) \/ missed[t]) /\ UNCHANGED present /\ Answer(t, FALSE)

Exists(t) == Mine(t, "exists") /\ UNCHANGED present /\ Answer(t, ~Absent(t))

\* operator[] makes the key when it is not there, again if a remove came
\* between, and answers with a reference to a value, always.
Index(t) ==
  /\ Mine(t, "index")
  /\ Add(t)
  /\ Answer(t, TRUE) \/ UNCHANGED <<busy, result>>

Clear ==
  /\ \A t \in Threads : ~busy[t]
  /\ present' = {}
  /\ UNCHANGED <<op, key, result, busy>>

\* A thread remembers no moment at which its key was in the map, and none
\* before its call.
Remember ==
  /\ missed' \in [Threads -> BOOLEAN]
  /\ \A t \in Threads :
       missed'[t] => busy[t] /\ (missed[t] \/ Absent(t) \/ key[t] \notin present')

Next ==
  \/ /\ failed' = FALSE /\ failed = FALSE
     /\ Remember
     /\ \/ Clear
        \/ \E t \in Threads : Call(t) \/ Insert(t) \/ Remove(t) \/ Exists(t) \/ Index(t)
  \/ failed' = TRUE

Spec == Init /\ [][Next]_vars
==============================================================================
