--------------------------- MODULE ConcurrentStack ---------------------------
(***************************************************************************)
(* xtd::concurrent::stack (stack.hpp): a linked list whose head is an      *)
(* atomic pointer, pushed and popped by threads with compare-exchange, and *)
(* the memory its nodes come from.                                         *)
(*                                                                         *)
(* Nodes are addresses.  operator new takes one that is not live; with     *)
(* AddressReuse it may be one that was freed before, as allocators do.     *)
(* Reading a node that has been deleted is undefined: the read may give    *)
(* anything.                                                               *)
(***************************************************************************)
EXTENDS Integers, Sequences, FiniteSets

CONSTANTS
  Pushers, Poppers,   \* threads
  Nodes,              \* addresses
  NullNode,
  AddressReuse,       \* whether an address may be allocated again
  MaxItems            \* bound: how many items are ever pushed

ASSUME NodesAssumption == IsFiniteSet(Nodes) /\ NullNode \notin Nodes
ASSUME BoundAssumption == MaxItems \in Nat /\ AddressReuse \in BOOLEAN

StackThreads == Pushers \cup Poppers
StackItems == 1 .. MaxItems
Pointer == Nodes \cup {NullNode}

VARIABLES
  root,      \* the atomic _root
  next,      \* _next of the node at each address
  value,     \* _value of the node at each address; 0 where none was made
  live,      \* addresses that are allocated
  freed,     \* addresses that have been deleted
  pc,        \* the next step of each thread
  node,      \* pNode of a push, oTmp of a try_pop
  oTmpNext,  \* the oTmp->_next a try_pop passes to its compare-exchange
  pushes,    \* how many items have been pushed (each push has its own item)
  popped     \* items handed to callers of pop, in order

stackVars == <<root, next, value, live, freed, pc, node, oTmpNext, pushes, popped>>
memory == <<next, value, live, freed>>

StackInit ==
  /\ root = NullNode
  /\ next = [n \in Nodes |-> NullNode]
  /\ value = [n \in Nodes |-> 0]
  /\ live = {}
  /\ freed = {}
  /\ pc = [t \in StackThreads |-> "idle"]
  /\ node = [t \in StackThreads |-> NullNode]
  /\ oTmpNext = [t \in StackThreads |-> NullNode]
  /\ pushes = 0
  /\ popped = <<>>

Goto(t, label) == pc' = [pc EXCEPT ![t] = label]
Hold(t, n) == node' = [node EXCEPT ![t] = n]

Free(n) == live' = live \ {n} /\ freed' = freed \cup {n}

Available == Nodes \ (IF AddressReuse THEN live ELSE live \cup freed)

-----------------------------------------------------------------------------
(* push *)

\* new node(nullptr, value)
PushNew(t) ==
  /\ t \in Pushers
  /\ pc[t] = "idle"
  /\ pushes < MaxItems
  /\ \E n \in Available :
       /\ Hold(t, n)
       /\ live' = live \cup {n}
       /\ next' = [next EXCEPT ![n] = NullNode]
       /\ value' = [value EXCEPT ![n] = pushes + 1]
  /\ pushes' = pushes + 1
  /\ Goto(t, "push_load")
  /\ UNCHANGED <<root, freed, oTmpNext, popped>>

PushLoad(t) ==
  /\ pc[t] = "push_load"
  /\ next' = [next EXCEPT ![node[t]] = root]
  /\ Goto(t, "push_cas")
  /\ UNCHANGED <<root, value, live, freed, node, oTmpNext, pushes, popped>>

\* Mutant: a failed compare-exchange is repeated as it was.
PushCasStale(t) ==
  /\ pc[t] = "push_cas"
  /\ \/ /\ root = next[node[t]]
        /\ root' = node[t]
        /\ Goto(t, "idle")
        /\ Hold(t, NullNode)
     \/ root # next[node[t]] /\ UNCHANGED <<root, pc, node>>
  /\ UNCHANGED <<memory, oTmpNext, pushes, popped>>

\* A failed compare-exchange writes the root it found into pNode->_next.
PushCas(t) ==
  /\ pc[t] = "push_cas"
  /\ \/ /\ root = next[node[t]]
        /\ root' = node[t]
        /\ Goto(t, "idle")
        /\ Hold(t, NullNode)
        /\ UNCHANGED next
     \/ /\ root # next[node[t]]
        /\ next' = [next EXCEPT ![node[t]] = root]
        /\ Goto(t, "push_load")
        /\ UNCHANGED <<root, node>>
  /\ UNCHANGED <<value, live, freed, oTmpNext, pushes, popped>>

-----------------------------------------------------------------------------
(* try_pop, and pop, which repeats it until it succeeds.  A failed try_pop  *)
(* either returns to its caller or runs again from the loop of pop.         *)

Fail(t) ==
  /\ \E label \in {"idle", "pop_load"} : Goto(t, label)
  /\ Hold(t, NullNode)

PopCall(t) ==
  /\ t \in Poppers
  /\ pc[t] = "idle"
  /\ Goto(t, "pop_load")
  /\ UNCHANGED <<root, memory, node, oTmpNext, pushes, popped>>

PopLoad(t) ==
  /\ pc[t] = "pop_load"
  /\ \/ root = NullNode /\ Fail(t)
     \/ root # NullNode /\ Hold(t, root) /\ Goto(t, "pop_next")
  /\ UNCHANGED <<root, memory, oTmpNext, pushes, popped>>

\* oTmp->_next, read before the compare-exchange.
PopNext(t) ==
  /\ pc[t] = "pop_next"
  /\ \E n \in IF node[t] \in live THEN {next[node[t]]} ELSE Pointer :
       oTmpNext' = [oTmpNext EXCEPT ![t] = n]
  /\ Goto(t, "pop_cas")
  /\ UNCHANGED <<root, memory, node, pushes, popped>>

\* Mutant: oTmp is exchanged for itself.
PopCasKeepsRoot(t) ==
  /\ pc[t] = "pop_cas"
  /\ \/ root = node[t] /\ Goto(t, "pop_value") /\ UNCHANGED node
     \/ root # node[t] /\ Fail(t)
  /\ oTmpNext' = [oTmpNext EXCEPT ![t] = NullNode]
  /\ UNCHANGED <<root, memory, pushes, popped>>

\* Mutant: a store instead of the compare-exchange.
PopStore(t) ==
  /\ pc[t] = "pop_cas"
  /\ root' = oTmpNext[t]
  /\ Goto(t, "pop_value")
  /\ oTmpNext' = [oTmpNext EXCEPT ![t] = NullNode]
  /\ UNCHANGED <<memory, node, pushes, popped>>

PopCas(t) ==
  /\ pc[t] = "pop_cas"
  /\ \/ root = node[t] /\ root' = oTmpNext[t] /\ Goto(t, "pop_value") /\ UNCHANGED node
     \/ root # node[t] /\ Fail(t) /\ UNCHANGED root
  /\ oTmpNext' = [oTmpNext EXCEPT ![t] = NullNode]
  /\ UNCHANGED <<memory, pushes, popped>>

PopValue(t) ==
  /\ pc[t] = "pop_value"
  /\ \E v \in IF node[t] \in live THEN {value[node[t]]} ELSE StackItems :
       popped' = Append(popped, v)
  /\ Goto(t, "pop_delete")
  /\ UNCHANGED <<root, memory, node, oTmpNext, pushes>>

\* Mutant: the node is not deleted.
PopDeleteLeaks(t) ==
  /\ pc[t] = "pop_delete"
  /\ Hold(t, NullNode)
  /\ Goto(t, "idle")
  /\ UNCHANGED <<root, memory, oTmpNext, pushes, popped>>

PopDelete(t) ==
  /\ pc[t] = "pop_delete"
  /\ Free(node[t])
  /\ Hold(t, NullNode)
  /\ Goto(t, "idle")
  /\ UNCHANGED <<root, next, value, oTmpNext, pushes, popped>>

-----------------------------------------------------------------------------
(* The list as it is linked.  A walk of at most one step per address finds  *)
(* every node of a list that has no cycle.                                  *)

Walk[k \in 0 .. Cardinality(Nodes)] ==
  IF k = 0 THEN root ELSE IF Walk[k - 1] = NullNode THEN NullNode ELSE next[Walk[k - 1]]

Linked == {Walk[k] : k \in DOMAIN Walk} \ {NullNode}

Contents == [k \in 1 .. Cardinality(Linked) |-> value[Walk[k - 1]]]

\* ~stack: no other thread is inside, and every node is popped and deleted.
\* The emptied stack then stands for a new one.
DestroyStack ==
  /\ \A t \in StackThreads : pc[t] = "idle"
  /\ root # NullNode
  /\ root' = NullNode
  /\ live' = live \ Linked
  /\ freed' = freed \cup Linked
  /\ UNCHANGED <<next, value, pc, node, oTmpNext, pushes, popped>>

-----------------------------------------------------------------------------

Running(t) ==
  \/ PushLoad(t) \/ PushCas(t)
  \/ PopLoad(t) \/ PopNext(t) \/ PopCas(t) \/ PopValue(t) \/ PopDelete(t)

StackNext == DestroyStack \/ \E t \in StackThreads : PushNew(t) \/ PopCall(t) \/ Running(t)

StackSpec == StackInit /\ [][StackNext]_stackVars

StackFairness == \A t \in StackThreads : WF_stackVars(Running(t))

-----------------------------------------------------------------------------
(* Properties *)

\* The type invariant.
TypeOK ==
  /\ root \in Pointer
  /\ next \in [Nodes -> Pointer]
  /\ value \in [Nodes -> StackItems \cup {0}]
  /\ live \subseteq Nodes /\ freed \subseteq Nodes
  /\ pc \in [StackThreads -> {"idle", "push_load", "push_cas", "pop_load", "pop_next",
                         "pop_cas", "pop_value", "pop_delete"}]
  /\ node \in [StackThreads -> Pointer]
  /\ oTmpNext \in [StackThreads -> Pointer]
  /\ pushes \in 0 .. MaxItems
  /\ popped \in Seq(StackItems)

\* No thread reads a node that has been deleted: what it read as oTmp is still
\* allocated when it reads oTmp->_next and, later, oTmp->_value.
NoUseAfterFree ==
  \A t \in Poppers :
    pc[t] \in {"pop_next", "pop_value", "pop_delete"} => node[t] \in live

\* No node leaks and none is deleted twice: what is allocated is exactly what
\* the list links, plus what one thread is about to link or has unlinked.
InHand == {node[t] : t \in {u \in StackThreads : pc[u] \in {"push_load", "push_cas",
                                                      "pop_value", "pop_delete"}}}
LiveIsLinkedOrInHand ==
  /\ live = Linked \cup InHand
  /\ Linked \cap InHand = {}

\* A push or a pop that has begun returns unless others keep succeeding: the
\* retry loops are lock-free.
CallsKeepSucceeding ==
  \/ []<>(\A t \in StackThreads : pc[t] \notin {"push_load", "push_cas", "pop_next", "pop_cas"})
  \/ []<><<root' # root>>_stackVars

\* The list implements the abstract stack: every compare-exchange that succeeds
\* puts one item on it or takes the top one off, whatever came between it and
\* the reads it rests on.
Abstract == INSTANCE Lifo
  WITH Items <- StackItems, items <- Contents, busy <- \E t \in StackThreads : pc[t] # "idle"
ImplementsLifo == Abstract!Spec
==============================================================================
