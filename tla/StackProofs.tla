----------------------------- MODULE StackProofs -----------------------------
(***************************************************************************)
(* Theorems about ConcurrentStack, for any set of threads that push, any   *)
(* finite set of nodes and any number of items, where addresses are used   *)
(* again or not.                                                           *)
(*                                                                         *)
(* One thread pops at most: with two the properties fail, as the run       *)
(* Stack_poppers shows.  The inductive invariant has a sequence s as its   *)
(* witness: the nodes from _root on.  Each step turns it into <<n>> \o s,  *)
(* Tail(s) or s.  That Walk, a recursive function, finds this sequence is  *)
(* shown for the least place where the two would differ.                   *)
(***************************************************************************)
EXTENDS ConcurrentStack, FiniteSetTheorems, TLAPS

\* A set of naturals has a least element.
LEMMA LeastElement ==
  ASSUME NEW T \in SUBSET Nat, T # {}
  PROVE  \E m \in T : \A k \in T : m <= k
<1>1. IsWellFoundedOn(OpToRel(<, Nat), Nat)
  BY NatLessThanWellFounded
<1>2. PICK m \in T : \A k \in T : ~(<<k, m>> \in OpToRel(<, Nat))
  BY <1>1, WFMin
<1>3. \A k \in T : ~(k < m)
  BY <1>2 DEF OpToRel
<1>. QED
  BY <1>3

\* s is the list: from _root on, each node's _next is the one after it.
IsList(s) ==
  /\ s \in Seq(Nodes)
  /\ \A i, j \in 1 .. Len(s) : s[i] = s[j] => i = j
  /\ root = IF s = <<>> THEN NullNode ELSE s[1]
  /\ \A i \in 1 .. Len(s) : next[s[i]] = IF i = Len(s) THEN NullNode ELSE s[i + 1]

NodesOf(s) == {s[i] : i \in 1 .. Len(s)}

LEMMA NodesOfList ==
  ASSUME NEW s, IsList(s)
  PROVE  /\ Cardinality(Nodes) \in Nat
         /\ Cardinality(NodesOf(s)) = Len(s)
         /\ Len(s) <= Cardinality(Nodes)
<1>1. s \in Bijection(1 .. Len(s), NodesOf(s))
  <2>1. s \in [1 .. Len(s) -> NodesOf(s)]
    BY DEF IsList, NodesOf
  <2>. QED
    BY <2>1 DEF IsList, NodesOf, Bijection, Injection, Surjection, IsInjective
<1>2. Len(s) \in Nat /\ ExistsBijection(1 .. Len(s), NodesOf(s))
  BY <1>1 DEF IsList, ExistsBijection
<1>3. Cardinality(NodesOf(s)) = Len(s)
  BY <1>2, FS_CountingElements
<1>4. NodesOf(s) \in SUBSET Nodes
  BY DEF IsList, NodesOf
<1>5. Cardinality(NodesOf(s)) <= Cardinality(Nodes) /\ Cardinality(Nodes) \in Nat
  BY <1>4, NodesAssumption, FS_Subset, FS_CardinalityType
<1>. QED
  BY <1>3, <1>5

\* The walk finds the list.
LEMMA WalkFollowsList ==
  \A s : IsList(s) =>
    Walk = [k \in 0 .. Cardinality(Nodes) |-> IF k < Len(s) THEN s[k + 1] ELSE NullNode]
<1>. SUFFICES ASSUME NEW s, IsList(s)
              PROVE  Walk = [k \in 0 .. Cardinality(Nodes) |->
                               IF k < Len(s) THEN s[k + 1] ELSE NullNode]
  OBVIOUS
<1>. DEFINE N == Cardinality(Nodes)
            g == [k \in 0 .. N |-> IF k < Len(s) THEN s[k + 1] ELSE NullNode]
            W(f) == [k \in 0 .. N |-> IF k = 0 THEN root
                                      ELSE IF f[k - 1] = NullNode THEN NullNode ELSE next[f[k - 1]]]
<1>1. N \in Nat /\ Len(s) \in Nat /\ Len(s) <= N
  BY NodesOfList DEF IsList
<1>2. g = W(g)
  <2>1. ASSUME NEW k \in 0 .. N PROVE g[k] = W(g)[k]
    <3>1. CASE k = 0
      BY <1>1, <3>1 DEF IsList
    <3>2. CASE k > 0 /\ k - 1 < Len(s)
      <4>1. g[k - 1] = s[k] /\ s[k] \in Nodes /\ s[k] # NullNode
        BY <1>1, <3>2, NodesAssumption DEF IsList
      <4>2. next[s[k]] = IF k = Len(s) THEN NullNode ELSE s[k + 1]
        BY <1>1, <3>2 DEF IsList
      <4>. QED
        BY <1>1, <3>2, <4>1, <4>2
    <3>3. CASE k > 0 /\ ~(k - 1 < Len(s))
      BY <1>1, <3>3
    <3>. QED
      BY <1>1, <3>1, <3>2, <3>3
  <2>. QED
    BY <2>1
<1>. HIDE DEF g
<1>3. Walk = W(Walk)
  <2>1. Walk = CHOOSE f : f = W(f)
    BY DEF Walk
  <2>. QED
    BY <1>2, <2>1
<1>4. {k \in 0 .. N : Walk[k] # g[k]} = {}
  <2>. DEFINE B == {k \in 0 .. N : Walk[k] # g[k]}
  <2>1. SUFFICES ASSUME B # {} PROVE FALSE
    OBVIOUS
  <2>2. PICK m \in B : \A k \in B : m <= k
    <3>1. B \in SUBSET Nat
      BY <1>1
    <3>. HIDE DEF B
    <3>. QED
      BY <2>1, <3>1, LeastElement
  <2>3. Walk[m] = W(Walk)[m] /\ g[m] = W(g)[m]
    BY <1>2, <1>3
  <2>4. m # 0 /\ Walk[m - 1] # g[m - 1]
    BY <1>1, <2>2, <2>3
  <2>. QED
    BY <1>1, <2>2, <2>4
<1>5. DOMAIN Walk = 0 .. N /\ DOMAIN g = 0 .. N /\ Walk = [k \in DOMAIN Walk |-> Walk[k]]
  BY <1>3 DEF g
<1>6. Walk = g
  BY <1>4, <1>5 DEF g
<1>. QED
  BY <1>6 DEF g

\* Linked and Contents are the list's nodes and values.
LEMMA ListIsLinked ==
  \A s : IsList(s) =>
    /\ Linked = NodesOf(s)
    /\ Contents = [k \in 1 .. Len(s) |-> value[s[k]]]
<1>. SUFFICES ASSUME NEW s, IsList(s)
              PROVE  /\ Linked = NodesOf(s)
                     /\ Contents = [k \in 1 .. Len(s) |-> value[s[k]]]
  OBVIOUS
<1>. DEFINE N == Cardinality(Nodes)
<1>1. /\ N \in Nat /\ Len(s) \in Nat /\ Len(s) <= N
      /\ Cardinality(NodesOf(s)) = Len(s)
  BY NodesOfList DEF IsList
<1>2. Walk = [k \in 0 .. N |-> IF k < Len(s) THEN s[k + 1] ELSE NullNode]
  BY WalkFollowsList
<1>3. Linked = NodesOf(s)
  <2>1. \A i \in 1 .. Len(s) : i - 1 \in 0 .. N /\ Walk[i - 1] = s[i] /\ s[i] # NullNode
    BY <1>1, <1>2, NodesAssumption DEF IsList
  <2>2. \A k \in 0 .. N : Walk[k] # NullNode => k + 1 \in 1 .. Len(s) /\ Walk[k] = s[k + 1]
    BY <1>1, <1>2
  <2>3. DOMAIN Walk = 0 .. N
    BY <1>2
  <2>. HIDE DEF N
  <2>4. ASSUME NEW i \in 1 .. Len(s) PROVE s[i] \in Linked
    BY <2>1, <2>3, Zenon DEF Linked
  <2>5. ASSUME NEW k \in 0 .. N, Walk[k] # NullNode PROVE Walk[k] \in NodesOf(s)
    BY <2>2, <2>5, Zenon DEF NodesOf
  <2>6. NodesOf(s) \subseteq Linked
    BY <2>4, Zenon DEF NodesOf
  <2>7. Linked \subseteq NodesOf(s)
    BY <2>3, <2>5, Zenon DEF Linked
  <2>. QED
    BY <2>6, <2>7
<1>4. Contents = [k \in 1 .. Len(s) |-> value[Walk[k - 1]]]
  BY <1>1, <1>3 DEF Contents
<1>5. \A k \in 1 .. Len(s) : Walk[k - 1] = s[k]
  BY <1>1, <1>2
<1>. QED
  BY <1>3, <1>4, <1>5

LEMMA ListIsLinkedNext ==
  \A s : IsList(s)' => Contents' = [k \in 1 .. Len(s) |-> value'[s[k]]]
<1>1. \A s : IsList(s) => Contents = [k \in 1 .. Len(s) |-> value[s[k]]]
  BY ListIsLinked
<1>2. (\A s : IsList(s) => Contents = [k \in 1 .. Len(s) |-> value[s[k]]])'
  BY <1>1, PTL
<1>. QED
  BY <1>2

-----------------------------------------------------------------------------

\* No two threads pop.
OnePopper == \A t, u \in Poppers : t = u

\* Where a thread has a node of its own, before it is linked and after it is
\* unlinked, and where it reads one that is linked.
Making == {"push_load", "push_cas"}
Breaking == {"pop_value", "pop_delete"}
Reading == {"pop_next", "pop_cas"}

Hands(t) == pc[t] \in Making \cup Breaking

\* The list is s: what is allocated is in it or in hand, and a node that a
\* try_pop has read is still where it was.
Listed(s) ==
  /\ IsList(s)
  /\ live = NodesOf(s) \cup InHand
  /\ NodesOf(s) \cap InHand = {}
  /\ \A t \in StackThreads : pc[t] \in Reading =>
       /\ node[t] \in NodesOf(s)
       /\ pc[t] = "pop_cas" => oTmpNext[t] = next[node[t]]

\* The inductive invariant.
StackInv ==
  /\ TypeOK
  /\ \A n \in live : value[n] \in StackItems
  /\ \A t \in StackThreads : Hands(t) => node[t] \in Nodes
  /\ \A t, u \in StackThreads : Hands(t) /\ Hands(u) /\ node[t] = node[u] => t = u
  /\ \A t \in StackThreads : pc[t] \in {"pop_load"} \cup Reading \cup Breaking => t \in Poppers
  /\ \E s : Listed(s)

LEMMA InHandIs == InHand = {node[t] : t \in {u \in StackThreads : Hands(u)}}
BY DEF InHand, Hands, Making, Breaking

LEMMA StackInvInit == StackInit => StackInv
<1>. SUFFICES ASSUME StackInit PROVE StackInv
  OBVIOUS
<1>1. IsList(<<>>) /\ NodesOf(<<>>) = {}
  BY DEF StackInit, IsList, NodesOf
<1>2. InHand = {}
  BY DEF StackInit, InHand
<1>3. Listed(<<>>)
  BY <1>1, <1>2 DEF StackInit, Listed, Reading
<1>. QED
  BY <1>3, BoundAssumption DEF StackInit, StackInv, TypeOK, Hands, Making, Breaking, Reading, Pointer, StackItems

(* The actions.  In each, s is the list before the step. *)

LEMMA StepKeepsType ==
  ASSUME StackInv, NEW t \in StackThreads, PushNew(t) \/ PopCall(t) \/ Running(t)
  PROVE  TypeOK'
<1>. USE DEF StackInv, TypeOK, Pointer, StackItems, Goto, Hold, Fail, Hands, Making, Breaking, Reading, memory
<1>1. CASE PushNew(t)
  BY <1>1, BoundAssumption DEF PushNew, Available
<1>2. CASE PopCall(t)
  BY <1>2 DEF PopCall
<1>3. CASE PushLoad(t)
  BY <1>3 DEF PushLoad
<1>4. CASE PushCas(t)
  <2>1. root' \in Pointer /\ next' \in [Nodes -> Pointer] /\ pc' = [pc EXCEPT ![t] = pc'[t]]
    BY <1>4 DEF PushCas
  <2>. QED
    BY <1>4, <2>1 DEF PushCas
<1>5. CASE PopLoad(t)
  BY <1>5 DEF PopLoad
<1>6. CASE PopNext(t)
  <2>1. PICK s : Listed(s)
    OBVIOUS
  <2>2. node[t] \in Nodes
    BY <1>6, <2>1 DEF PopNext, Listed, IsList, NodesOf
  <2>. QED
    BY <1>6, <2>2 DEF PopNext
<1>7. CASE PopCas(t)
  BY <1>7 DEF PopCas
<1>8. CASE PopValue(t)
  <2>1. node[t] \in live
    BY <1>8, InHandIs DEF PopValue, Listed
  <2>. QED
    BY <1>8, <2>1 DEF PopValue
<1>9. CASE PopDelete(t)
  BY <1>9 DEF PopDelete, Free
<1>. QED
  BY <1>1, <1>2, <1>3, <1>4, <1>5, <1>6, <1>7, <1>8, <1>9 DEF Running

\* The nodes in hand stay nodes, one per thread, and have values.
HandsInv ==
  /\ \A n \in live : value[n] \in StackItems
  /\ \A t \in StackThreads : Hands(t) => node[t] \in Nodes
  /\ \A t, u \in StackThreads : Hands(t) /\ Hands(u) /\ node[t] = node[u] => t = u
  /\ \A t \in StackThreads : pc[t] \in {"pop_load"} \cup Reading \cup Breaking => t \in Poppers

LEMMA StepKeepsHands ==
  ASSUME StackInv, NEW t \in StackThreads, PushNew(t) \/ PopCall(t) \/ Running(t)
  PROVE  HandsInv'
<1>. USE DEF StackInv, HandsInv, TypeOK, Goto, Hold, Fail, Hands, Making, Breaking, Reading, memory
<1>1. CASE PushNew(t)
  <2>1. \A u \in StackThreads : Hands(u) => node[u] \in live
    BY InHandIs DEF Listed
  <2>2. PICK n \in Available : /\ node' = [node EXCEPT ![t] = n]
                             /\ live' = live \cup {n}
                             /\ value' = [value EXCEPT ![n] = pushes + 1]
    BY <1>1 DEF PushNew
  <2>3. n \in Nodes /\ n \notin live /\ pushes + 1 \in StackItems
    BY <1>1, <2>2, BoundAssumption DEF PushNew, Available, StackItems
  <2>. QED
    BY <1>1, <2>1, <2>2, <2>3 DEF PushNew
<1>2. CASE PopCall(t)
  BY <1>2 DEF PopCall
<1>3. CASE PushLoad(t)
  BY <1>3 DEF PushLoad
<1>4. CASE PushCas(t)
  <2>1. root' \in Pointer /\ next' \in [Nodes -> Pointer] /\ pc' = [pc EXCEPT ![t] = pc'[t]]
    BY <1>4 DEF PushCas
  <2>. QED
    BY <1>4, <2>1 DEF PushCas
<1>5. CASE PopLoad(t)
  BY <1>5 DEF PopLoad
<1>6. CASE PopNext(t)
  BY <1>6 DEF PopNext
<1>7. CASE PopCas(t)
  <2>1. PICK s : Listed(s)
    OBVIOUS
  <2>2. node[t] \in NodesOf(s) /\ NodesOf(s) \subseteq Nodes
    BY <1>7, <2>1 DEF PopCas, Listed, IsList, NodesOf
  <2>3. \A u \in StackThreads : Hands(u) => node[u] # node[t]
    BY <2>1, <2>2, InHandIs DEF Listed
  <2>. QED
    BY <1>7, <2>2, <2>3 DEF PopCas
<1>8. CASE PopValue(t)
  BY <1>8 DEF PopValue
<1>9. CASE PopDelete(t)
  BY <1>9 DEF PopDelete, Free
<1>. QED
  BY <1>1, <1>2, <1>3, <1>4, <1>5, <1>6, <1>7, <1>8, <1>9 DEF Running

\* A list whose links no step has touched is still the list.
LEMMA SameLinks ==
  ASSUME NEW s, IsList(s), root' = root, \A n \in NodesOf(s) : next'[n] = next[n]
  PROVE  IsList(s)'
BY DEF IsList, NodesOf

LEMMA InHandNext == InHand' = {node'[t] : t \in {u \in StackThreads : pc'[u] \in Making \cup Breaking}}
BY DEF InHand, Making, Breaking

LEMMA ListedNext ==
  ASSUME NEW s, IsList(s)',
         live' = NodesOf(s) \cup InHand', NodesOf(s) \cap InHand' = {},
         \A u \in StackThreads : pc'[u] \in Reading =>
           /\ node'[u] \in NodesOf(s)
           /\ pc'[u] = "pop_cas" => oTmpNext'[u] = next'[node'[u]]
  PROVE  Listed(s)'
BY DEF Listed, NodesOf, Reading

\* A thread that lets go of its node leaves the others' in hand.
LEMMA OutOfHand ==
  ASSUME StackInv, NEW t \in StackThreads, Hands(t),
         \A u \in StackThreads : pc'[u] \in Making \cup Breaking <=> Hands(u) /\ u # t,
         \A u \in StackThreads \ {t} : node'[u] = node[u]
  PROVE  InHand' = InHand \ {node[t]}
<1>1. \A u \in StackThreads : Hands(u) /\ node[u] = node[t] => u = t
  BY DEF StackInv
<1>2. ASSUME NEW n \in InHand' PROVE n \in InHand \ {node[t]}
  BY <1>1, <1>2, InHandNext, InHandIs
<1>3. ASSUME NEW n \in InHand \ {node[t]} PROVE n \in InHand'
  BY <1>3, InHandNext, InHandIs
<1>. QED
  BY <1>2, <1>3

LEMMA PushNewKeepsList ==
  ASSUME StackInv, NEW s, Listed(s), NEW t \in StackThreads, PushNew(t)
  PROVE  Listed(s)'
<1>. USE DEF StackInv, TypeOK, Goto, Hold, Making, Breaking, Reading
<1>1. PICK n \in Available : /\ node' = [node EXCEPT ![t] = n]
                           /\ live' = live \cup {n}
                           /\ next' = [next EXCEPT ![n] = NullNode]
  BY DEF PushNew
<1>2. n \in Nodes /\ n \notin live
  BY <1>1 DEF Available
<1>3. IsList(s)'
  BY <1>1, <1>2, SameLinks DEF Listed, PushNew
<1>4. InHand' = InHand \cup {n}
  BY <1>1, InHandNext DEF PushNew, InHand
<1>. QED
  <2>1. n \notin NodesOf(s)
    BY <1>2 DEF Listed
  <2>2. live' = NodesOf(s) \cup InHand' /\ NodesOf(s) \cap InHand' = {}
    BY <1>1, <1>4, <2>1 DEF Listed
  <2>3. ASSUME NEW u \in StackThreads, pc'[u] \in Reading
        PROVE  /\ node'[u] \in NodesOf(s)
               /\ pc'[u] = "pop_cas" => oTmpNext'[u] = next'[node'[u]]
    <3>1. u # t /\ pc'[u] = pc[u] /\ node'[u] = node[u] /\ oTmpNext'[u] = oTmpNext[u]
      BY <1>1, <2>3 DEF PushNew
    <3>. QED
      BY <1>1, <2>1, <2>3, <3>1 DEF Listed
  <2>. QED
    BY <1>3, <2>2, <2>3 DEF Listed, NodesOf

LEMMA PushLoadKeepsList ==
  ASSUME StackInv, NEW s, Listed(s), NEW t \in StackThreads, PushLoad(t)
  PROVE  Listed(s)'
<1>. USE DEF StackInv, TypeOK, Goto, Hold, Making, Breaking, Reading, Hands
<1>1. node[t] \in InHand
  BY DEF PushLoad, InHand
<1>2. IsList(s)'
  BY <1>1, SameLinks DEF Listed, PushLoad
<1>3. InHand' = InHand
  BY InHandNext, InHandIs DEF PushLoad
<1>. QED
  BY <1>1, <1>2, <1>3 DEF Listed, PushLoad, NodesOf

\* What a successful exchange makes of the list.
LEMMA PushCasKeepsList ==
  ASSUME StackInv, NEW s, Listed(s), NEW t \in StackThreads, PushCas(t)
  PROVE  IF root = next[node[t]] THEN \E r : r = <<node[t]>> \o s /\ Listed(r)'
                                 ELSE Listed(s)'
<1>. USE DEF StackInv, TypeOK, Goto, Hold, Making, Breaking, Reading, Hands
<1>1. node[t] \in InHand /\ node[t] \in Nodes
  BY DEF PushCas, InHand
<1>2. CASE root # next[node[t]]
  <2>1. IsList(s)'
    BY <1>1, <1>2, SameLinks DEF Listed, PushCas
  <2>2. InHand' = InHand
    BY <1>2, InHandNext, InHandIs DEF PushCas
  <2>. QED
    BY <1>1, <1>2, <2>1, <2>2 DEF Listed, PushCas, NodesOf
<1>3. CASE root = next[node[t]]
  <2>. PICK r : r = <<node[t]>> \o s
    OBVIOUS
  <2>1. s \in Seq(Nodes) /\ node[t] \notin NodesOf(s)
    BY <1>1 DEF Listed, IsList
  <2>2. /\ Len(s) \in Nat /\ r \in Seq(Nodes) /\ Len(r) = Len(s) + 1 /\ r[1] = node[t]
        /\ \A i \in 1 .. Len(s) : r[i + 1] = s[i]
        /\ \A i \in 2 .. Len(r) : i - 1 \in 1 .. Len(s) /\ r[i] = s[i - 1]
    BY <1>1, <2>1
  <2>3. NodesOf(r) = NodesOf(s) \cup {node[t]}
    <3>1. ASSUME NEW i \in 1 .. Len(r) PROVE r[i] \in NodesOf(s) \cup {node[t]}
      BY <2>2, i = 1 \/ i \in 2 .. Len(r) DEF NodesOf
    <3>2. ASSUME NEW i \in 1 .. Len(s) PROVE s[i] \in NodesOf(r)
      BY <2>2, i + 1 \in 1 .. Len(r) DEF NodesOf
    <3>3. node[t] \in NodesOf(r)
      BY <2>2, 1 \in 1 .. Len(r) DEF NodesOf
    <3>4. NodesOf(r) \subseteq NodesOf(s) \cup {node[t]}
      BY <3>1 DEF NodesOf
    <3>5. NodesOf(s) \subseteq NodesOf(r)
      BY <3>2 DEF NodesOf
    <3>. QED
      BY <3>3, <3>4, <3>5
  <2>4. IsList(r)'
    <3>1. ASSUME NEW i \in 1 .. Len(r), NEW j \in 1 .. Len(r), r[i] = r[j]
          PROVE  i = j
      <4>1. \A k \in 2 .. Len(r) : r[k] # r[1]
        BY <2>1, <2>2 DEF NodesOf
      <4>2. CASE i = 1 \/ j = 1
        BY <2>2, <3>1, <4>1, <4>2
      <4>3. CASE i # 1 /\ j # 1
        <5>1. /\ i - 1 \in 1 .. Len(s) /\ j - 1 \in 1 .. Len(s)
              /\ s[i - 1] = s[j - 1]
          BY <2>2, <3>1, <4>3
        <5>2. i - 1 = j - 1
          BY <5>1 DEF Listed, IsList
        <5>. QED
          BY <2>2, <5>2
      <4>. QED
        BY <4>2, <4>3
    <3>2. root' = r[1] /\ r # <<>>
      BY <1>3, <2>2 DEF PushCas
    <3>3. next' = next /\ next[node[t]] = root
      BY <1>3 DEF PushCas
    <3>4. ASSUME NEW i \in 1 .. Len(r)
          PROVE  next'[r[i]] = IF i = Len(r) THEN NullNode ELSE r[i + 1]
      <4>1. CASE i = 1
        <5>1. s = <<>> <=> Len(s) = 0
          BY <2>1
        <5>2. Len(s) > 0 => r[2] = s[1]
          BY <2>2
        <5>. QED
          BY <2>2, <3>3, <4>1, <5>1, <5>2 DEF Listed, IsList
      <4>2. CASE i # 1
        <5>1. i - 1 \in 1 .. Len(s) /\ r[i] = s[i - 1]
          BY <2>2, <4>2
        <5>2. next[s[i - 1]] = IF i - 1 = Len(s) THEN NullNode ELSE s[i]
          <6>1. \A k \in 1 .. Len(s) : next[s[k]] = IF k = Len(s) THEN NullNode ELSE s[k + 1]
            BY DEF Listed, IsList
          <6>2. (i - 1) + 1 = i
            OBVIOUS
          <6>. QED
            BY <5>1, <6>1, <6>2
        <5>3. i # Len(r) => r[i + 1] = s[i]
          BY <2>2, <5>1
        <5>. QED
          BY <2>2, <3>3, <5>1, <5>2, <5>3
      <4>. QED
        BY <4>1, <4>2
    <3>5. IF r = <<>> THEN FALSE ELSE root' = r[1]
      BY <3>2
    <3>. QED
      BY <2>2, <3>1, <3>5, <3>4 DEF IsList
  <2>5. InHand' = InHand \ {node[t]}
    <3>1. \A u \in StackThreads : pc'[u] \in Making \cup Breaking <=> Hands(u) /\ u # t
      BY <1>3 DEF PushCas
    <3>2. Hands(t) /\ \A u \in StackThreads \ {t} : node'[u] = node[u]
      BY <1>3 DEF PushCas
    <3>. QED
      BY <3>1, <3>2, OutOfHand
  <2>6. Listed(r)'
    <3>1. live' = NodesOf(r) \cup InHand' /\ NodesOf(r) \cap InHand' = {}
      BY <1>1, <1>3, <2>3, <2>5 DEF Listed, PushCas
    <3>2. ASSUME NEW u \in StackThreads, pc'[u] \in Reading
          PROVE  /\ node'[u] \in NodesOf(r)
                 /\ pc'[u] = "pop_cas" => oTmpNext'[u] = next'[node'[u]]
      BY <1>3, <2>3, <3>2 DEF Listed, PushCas
    <3>. QED
      BY <2>4, <3>1, <3>2 DEF Listed, NodesOf
  <2>. QED
    BY <1>3, <2>6
<1>. QED
  BY <1>2, <1>3

LEMMA PopReadsKeepList ==
  ASSUME StackInv, NEW s, Listed(s), NEW t \in StackThreads,
         PopCall(t) \/ PopLoad(t) \/ PopNext(t) \/ PopValue(t)
  PROVE  Listed(s)'
<1>. USE DEF StackInv, TypeOK, Goto, Hold, Fail, Making, Breaking, Reading, Hands, memory
<1>1. /\ root' = root /\ next' = next /\ live' = live
      /\ \A u \in StackThreads : pc'[u] \in Making \cup Breaking <=> Hands(u)
      /\ \A u \in StackThreads : Hands(u) => node'[u] = node[u]
  BY DEF PopCall, PopLoad, PopNext, PopValue
<1>2. IsList(s)'
  BY <1>1, SameLinks DEF Listed
<1>3. InHand' = InHand
  BY <1>1, InHandNext, InHandIs
<1>4. root # NullNode => root \in NodesOf(s)
  <2>1. ASSUME root # NullNode PROVE 1 \in 1 .. Len(s) /\ root = s[1]
    BY <2>1 DEF Listed, IsList
  <2>. QED
    BY <2>1 DEF NodesOf
<1>5. NodesOf(s) \subseteq live
  BY DEF Listed
<1>6. ASSUME NEW u \in StackThreads, pc'[u] \in Reading
      PROVE  /\ node'[u] \in NodesOf(s)
             /\ pc'[u] = "pop_cas" => oTmpNext'[u] = next[node'[u]]
  <2>1. CASE PopNext(t)
    BY <1>5, <1>6, <2>1 DEF PopNext, Listed
  <2>2. CASE PopLoad(t)
    BY <1>4, <1>6, <2>2 DEF PopLoad, Listed
  <2>3. CASE PopCall(t)
    BY <1>6, <2>3 DEF PopCall, Listed
  <2>4. CASE PopValue(t)
    BY <1>6, <2>4 DEF PopValue, Listed
  <2>. QED
    BY <2>1, <2>2, <2>3, <2>4
<1>. QED
  BY <1>1, <1>2, <1>3, <1>6 DEF Listed, NodesOf

\* The successful exchange of a try_pop: what oTmp->_next was is still true,
\* since nobody else unlinks nodes.
LEMMA PopCasKeepsList ==
  ASSUME OnePopper, StackInv, NEW s, Listed(s), NEW t \in StackThreads, PopCas(t)
  PROVE  IF root = node[t] THEN s # <<>> /\ Listed(Tail(s))' ELSE Listed(s)'
<1>. USE DEF StackInv, TypeOK, Goto, Hold, Fail, Making, Breaking, Reading, Hands, memory
<1>1. node[t] \in NodesOf(s) /\ oTmpNext[t] = next[node[t]] /\ next' = next /\ live' = live
  BY DEF PopCas, Listed
<1>2. CASE root # node[t]
  <2>1. IsList(s)'
    BY <1>1, <1>2, SameLinks DEF Listed, PopCas
  <2>2. InHand' = InHand
    BY <1>2, InHandNext, InHandIs DEF PopCas
  <2>3. ASSUME NEW u \in StackThreads, pc'[u] \in Reading
        PROVE  u # t /\ pc'[u] = pc[u] /\ node'[u] = node[u] /\ oTmpNext'[u] = oTmpNext[u]
    BY <1>2, <2>3 DEF PopCas
  <2>. QED
    <3>1. live' = NodesOf(s) \cup InHand' /\ NodesOf(s) \cap InHand' = {}
      BY <1>1, <2>2 DEF Listed
    <3>2. ASSUME NEW u \in StackThreads, pc'[u] \in Reading
          PROVE  /\ node'[u] \in NodesOf(s)
                 /\ pc'[u] = "pop_cas" => oTmpNext'[u] = next'[node'[u]]
      BY <1>1, <2>3, <3>2 DEF Listed
    <3>. QED
      BY <1>2, <2>1, <3>1, <3>2, ListedNext
<1>3. CASE root = node[t]
  <2>1. /\ s \in Seq(Nodes) /\ Len(s) \in Nat /\ s # <<>> /\ Len(s) > 0
        /\ node[t] = s[1] /\ \A i \in 1 .. Len(s) : s[i] = s[1] => i = 1
    <3>1. s \in Seq(Nodes) /\ Len(s) \in Nat /\ s # <<>>
      BY <1>1 DEF Listed, IsList, NodesOf
    <3>2. Len(s) > 0 /\ node[t] = s[1]
      BY <1>3, <3>1 DEF Listed, IsList
    <3>. QED
      BY <3>1, <3>2 DEF Listed, IsList
  <2>. DEFINE r == Tail(s)
  <2>2. /\ r \in Seq(Nodes) /\ Len(r) = Len(s) - 1
        /\ \A i \in 1 .. Len(r) : i + 1 \in 1 .. Len(s) /\ r[i] = s[i + 1]
    BY <2>1
  <2>. HIDE DEF r
  <2>3. NodesOf(r) = NodesOf(s) \ {node[t]}
    <3>1. ASSUME NEW i \in 1 .. Len(r) PROVE r[i] \in NodesOf(s) \ {node[t]}
      <4>1. i + 1 \in 1 .. Len(s) /\ r[i] = s[i + 1] /\ i + 1 # 1
        BY <2>1, <2>2
      <4>. QED
        BY <2>1, <4>1 DEF NodesOf
    <3>2. ASSUME NEW i \in 1 .. Len(s), s[i] # node[t] PROVE s[i] \in NodesOf(r)
      <4>1. i - 1 \in 1 .. Len(r) /\ r[i - 1] = s[i]
        BY <2>1, <2>2, <3>2
      <4>. QED
        BY <4>1 DEF NodesOf
    <3>3. NodesOf(r) \subseteq NodesOf(s) \ {node[t]}
      BY <3>1 DEF NodesOf
    <3>4. NodesOf(s) \ {node[t]} \subseteq NodesOf(r)
      BY <3>2 DEF NodesOf
    <3>. QED
      BY <3>3, <3>4
  <2>4. IsList(r)'
    <3>1. ASSUME NEW i \in 1 .. Len(r), NEW j \in 1 .. Len(r), r[i] = r[j]
          PROVE  i = j
      <4>1. i + 1 \in 1 .. Len(s) /\ j + 1 \in 1 .. Len(s) /\ s[i + 1] = s[j + 1]
        BY <2>2, <3>1
      <4>2. i + 1 = j + 1
        BY <4>1 DEF Listed, IsList
      <4>. QED
        BY <2>2, <4>2
    <3>2. \A k \in 1 .. Len(s) : next[s[k]] = IF k = Len(s) THEN NullNode ELSE s[k + 1]
      BY DEF Listed, IsList
    <3>3. root' = IF r = <<>> THEN NullNode ELSE r[1]
      <4>1. root' = IF Len(s) = 1 THEN NullNode ELSE s[2]
        <5>1. next[s[1]] = IF 1 = Len(s) THEN NullNode ELSE s[2]
          BY <2>1, <3>2, 1 \in 1 .. Len(s), 1 + 1 = 2
        <5>2. root' = next[s[1]]
          BY <1>1, <1>3, <2>1 DEF PopCas
        <5>. QED
          BY <5>1, <5>2
      <4>2. r = <<>> <=> Len(s) = 1
        BY <2>1, <2>2
      <4>3. Len(s) # 1 => r[1] = s[2]
        BY <2>1, <2>2
      <4>. QED
        BY <4>1, <4>2, <4>3
    <3>4. ASSUME NEW i \in 1 .. Len(r)
          PROVE  next'[r[i]] = IF i = Len(r) THEN NullNode ELSE r[i + 1]
      <4>1. i + 1 \in 1 .. Len(s) /\ r[i] = s[i + 1] /\ (i + 1 = Len(s) <=> i = Len(r))
        BY <2>1, <2>2
      <4>2. i # Len(r) => r[i + 1] = s[i + 2]
        BY <2>1, <2>2
      <4>3. next[s[i + 1]] = IF i + 1 = Len(s) THEN NullNode ELSE s[(i + 1) + 1]
        BY <3>2, <4>1
      <4>. QED
        BY <1>1, <4>1, <4>2, <4>3
    <3>. QED
      BY <2>2, <3>1, <3>3, <3>4 DEF IsList
  <2>5. InHand' = InHand \cup {node[t]}
    <3>1. \A u \in StackThreads : pc'[u] \in Making \cup Breaking <=> Hands(u) \/ u = t
      BY <1>3 DEF PopCas
    <3>2. node' = node
      BY <1>3 DEF PopCas
    <3>. QED
      BY <3>1, <3>2, InHandNext, InHandIs
  <2>6. ASSUME NEW u \in StackThreads PROVE pc'[u] \notin Reading
    <3>1. pc[u] \in Reading => u = t
      BY DEF OnePopper, PopCas
    <3>. QED
      BY <1>3, <3>1 DEF PopCas
  <2>7. Listed(r)'
    <3>1. live' = NodesOf(r) \cup InHand' /\ NodesOf(r) \cap InHand' = {}
      BY <1>1, <2>3, <2>5 DEF Listed
    <3>. QED
      BY <2>4, <2>6, <3>1 DEF Listed, NodesOf
  <2>. QED
    BY <1>3, <2>1, <2>7 DEF r
<1>. QED
  BY <1>2, <1>3

LEMMA PopDeleteKeepsList ==
  ASSUME StackInv, NEW s, Listed(s), NEW t \in StackThreads, PopDelete(t)
  PROVE  Listed(s)'
<1>. USE DEF StackInv, TypeOK, Goto, Hold, Free, Making, Breaking, Reading, Hands
<1>1. node[t] \in InHand
  BY DEF PopDelete, InHand
<1>2. IsList(s)'
  BY SameLinks DEF Listed, PopDelete
<1>3. InHand' = InHand \ {node[t]}
  <2>1. \A u \in StackThreads : pc'[u] \in Making \cup Breaking <=> Hands(u) /\ u # t
    BY DEF PopDelete
  <2>2. Hands(t) /\ \A u \in StackThreads \ {t} : node'[u] = node[u]
    BY DEF PopDelete
  <2>. QED
    BY <2>1, <2>2, OutOfHand
<1>4. live' = NodesOf(s) \cup InHand' /\ NodesOf(s) \cap InHand' = {}
  BY <1>1, <1>3 DEF Listed, PopDelete
<1>5. ASSUME NEW u \in StackThreads, pc'[u] \in Reading
      PROVE  u # t /\ pc'[u] = pc[u] /\ node'[u] = node[u] /\ oTmpNext'[u] = oTmpNext[u]
  BY <1>5 DEF PopDelete
<1>. QED
  BY <1>2, <1>4, <1>5 DEF Listed, PopDelete, NodesOf

LEMMA DestroyKeepsInv ==
  ASSUME StackInv, DestroyStack
  PROVE  StackInv' /\ Listed(<<>>)'
<1>. USE DEF StackInv, TypeOK, Hands, Making, Breaking, Reading
<1>1. PICK s : Listed(s)
  OBVIOUS
<1>2. live' = {}
  <2>1. Linked = NodesOf(s)
    BY <1>1, ListIsLinked DEF Listed
  <2>2. InHand = {}
    BY InHandIs DEF DestroyStack
  <2>. QED
    BY <1>1, <2>1, <2>2 DEF DestroyStack, Listed
<1>3. IsList(<<>>)' /\ NodesOf(<<>>) = {}
  BY DEF DestroyStack, IsList, NodesOf
<1>4. InHand' = {}
  BY InHandNext DEF DestroyStack
<1>5. Listed(<<>>)'
  BY <1>2, <1>3, <1>4 DEF DestroyStack, Listed, NodesOf
<1>6. Linked \subseteq Nodes
  BY <1>1, ListIsLinked DEF Listed, IsList, NodesOf
<1>. QED
  BY <1>2, <1>5, <1>6 DEF DestroyStack, Pointer

LEMMA StutterKeepsList ==
  ASSUME NEW s, Listed(s), UNCHANGED stackVars
  PROVE  Listed(s)'
<1>1. IsList(s)' /\ InHand' = InHand
  BY SameLinks DEF stackVars, Listed, InHand
<1>. QED
  BY <1>1, ListedNext DEF stackVars, Listed

\* What a step makes of the list.
LEMMA StepKeepsList ==
  ASSUME OnePopper, StackInv, NEW s, Listed(s),
         NEW t \in StackThreads, PushNew(t) \/ PopCall(t) \/ Running(t)
  PROVE  \/ PushCas(t) /\ \E r : r = <<node[t]>> \o s /\ Listed(r)'
         \/ PopCas(t) /\ s # <<>> /\ Listed(Tail(s))'
         \/ Listed(s)'
BY PushNewKeepsList, PushLoadKeepsList, PushCasKeepsList, PopReadsKeepList, PopCasKeepsList,
   PopDeleteKeepsList, Zenon DEF Running

LEMMA StackInvStep ==
  ASSUME OnePopper, StackInv, [StackNext]_stackVars
  PROVE  StackInv'
<1>1. CASE UNCHANGED stackVars
  <2>1. PICK s : Listed(s)
    BY DEF StackInv
  <2>2. Listed(s)'
    BY <1>1, <2>1, StutterKeepsList
  <2>3. TypeOK' /\ HandsInv'
    BY <1>1 DEF stackVars, StackInv, TypeOK, HandsInv, Hands
  <2>. QED
    BY <2>2, <2>3 DEF StackInv, HandsInv
<1>2. CASE DestroyStack
  BY <1>2, DestroyKeepsInv
<1>3. ASSUME NEW t \in StackThreads, PushNew(t) \/ PopCall(t) \/ Running(t)
      PROVE  StackInv'
  <2>1. PICK s : Listed(s)
    BY DEF StackInv
  <2>2. \E r : Listed(r)'
    BY <1>3, <2>1, StepKeepsList
  <2>3. TypeOK' /\ HandsInv'
    BY <1>3, StepKeepsType, StepKeepsHands
  <2>. QED
    BY <2>2, <2>3 DEF StackInv, HandsInv
<1>. QED
  BY <1>1, <1>2, <1>3 DEF StackNext

LEMMA StackInvariance ==
  ASSUME OnePopper
  PROVE  StackSpec => []StackInv
BY StackInvInit, StackInvStep, PTL DEF StackSpec

\* With one thread that pops, no try_pop reads a node that has been deleted, in
\* whatever order the others push and addresses are used again.
THEOREM PoppedNodesLive ==
  ASSUME OnePopper
  PROVE  StackSpec => []NoUseAfterFree
<1>1. StackInv => NoUseAfterFree
  BY InHandIs DEF StackInv, Listed, NoUseAfterFree, Hands, Breaking, Reading, StackThreads
<1>. QED
  BY <1>1, StackInvariance, PTL

\* With one thread that pops, what is allocated is in the list or in the hands
\* of a thread, and not in both.
THEOREM NothingLeaks ==
  ASSUME OnePopper
  PROVE  StackSpec => []LiveIsLinkedOrInHand
<1>1. StackInv => LiveIsLinkedOrInHand
  BY ListIsLinked DEF StackInv, Listed, LiveIsLinkedOrInHand
<1>. QED
  BY <1>1, StackInvariance, PTL

\* With one thread that pops, what push and try_pop do to the list is what they
\* do to a sequence of values.
THEOREM StackRefinement ==
  ASSUME OnePopper
  PROVE  StackSpec => ImplementsLifo
<1>1. StackInit => Abstract!Init
  <2>. SUFFICES ASSUME StackInit PROVE Abstract!Init
    OBVIOUS
  <2>1. IsList(<<>>)
    BY DEF StackInit, IsList
  <2>2. Contents = <<>>
    BY <2>1, ListIsLinked
  <2>. QED
    BY <2>2 DEF StackInit, Abstract!Init
<1>2. ASSUME StackInv, [StackNext]_stackVars
      PROVE  [Abstract!Next]_<<Contents, \E t \in StackThreads : pc[t] # "idle">>
  <2>1. PICK s : Listed(s)
    BY <1>2 DEF StackInv
  <2>2. /\ s \in Seq(Nodes) /\ Len(s) \in Nat
        /\ Contents = [k \in 1 .. Len(s) |-> value[s[k]]]
        /\ \A k \in 1 .. Len(s) : s[k] \in live
    <3>1. IsList(s) /\ live = NodesOf(s) \cup InHand
      BY <2>1 DEF Listed
    <3>2. s \in Seq(Nodes) /\ Len(s) \in Nat
      BY <3>1 DEF IsList
    <3>3. Contents = [k \in 1 .. Len(s) |-> value[s[k]]]
      BY <3>1, ListIsLinked
    <3>4. \A k \in 1 .. Len(s) : s[k] \in live
      BY <3>1 DEF NodesOf
    <3>. QED
      BY <3>2, <3>3, <3>4
  <2>3. ASSUME NEW r, Listed(r)'
        PROVE  Contents' = [k \in 1 .. Len(r) |-> value'[r[k]]]
    BY <2>3, ListIsLinkedNext DEF Listed
  <2>4. ASSUME Listed(s)', \A n \in live : value'[n] = value[n]
        PROVE  Contents' = Contents
    BY <2>2, <2>3, <2>4
  <2>5. ASSUME Contents' = Contents PROVE Abstract!Next
    BY <2>5 DEF Abstract!Next
  <2>6. CASE UNCHANGED stackVars
    <3>1. Listed(s)'
      BY <2>1, <2>6, StutterKeepsList
    <3>. QED
      BY <2>4, <2>5, <2>6, <3>1 DEF stackVars
  <2>7. CASE DestroyStack
    <3>1. Contents' = <<>>
      BY <1>2, <2>3, <2>7, DestroyKeepsInv
    <3>. QED
      BY <2>7, <3>1 DEF DestroyStack, Abstract!Next, Abstract!Clear
  <2>8. ASSUME NEW t \in StackThreads, PushNew(t) \/ PopCall(t) \/ Running(t)
        PROVE  Abstract!Next
    <3>1. CASE Listed(s)'
      <4>1. \A n \in live : value'[n] = value[n]
        BY <1>2, <2>8 DEF PushNew, PopCall, Running, PushLoad, PushCas, PopLoad, PopNext, PopCas,
                          PopValue, PopDelete, Available, memory, StackInv, TypeOK
      <4>. QED
        BY <2>4, <2>5, <3>1, <4>1
    <3>2. ASSUME PushCas(t), NEW r, r = <<node[t]>> \o s, Listed(r)'
          PROVE  Abstract!Next
      <4>1. node[t] \in Nodes /\ value[node[t]] \in StackItems /\ value' = value
        BY <1>2, <2>1, <3>2 DEF PushCas, StackInv, Hands, Making, Listed, InHand
      <4>2. Contents' = [k \in 1 .. Len(r) |-> value'[r[k]]]
        BY <2>3, <3>2, Zenon
      <4>3. /\ Len(r) = Len(s) + 1 /\ r[1] = node[t]
            /\ \A k \in 2 .. Len(r) : r[k] = s[k - 1]
        BY <2>2, <3>2, <4>1
      <4>4. Contents' = <<value[node[t]]>> \o Contents
        <5>. DEFINE c == [k \in 1 .. Len(s) |-> value[s[k]]]
        <5>1. /\ Contents = c /\ c \in Seq(StackItems \cup {0}) /\ Len(c) = Len(s)
              /\ \A k \in 1 .. Len(s) : c[k] = value[s[k]]
          BY <1>2, <2>2 DEF StackInv, TypeOK
        <5>. HIDE DEF c
        <5>2. /\ <<value[node[t]]>> \o c
                   = [k \in 1 .. Len(s) + 1 |-> IF k = 1 THEN value[node[t]] ELSE c[k - 1]]
          BY <2>2, <4>1, <5>1
        <5>3. \A k \in 1 .. Len(r) :
                value[r[k]] = IF k = 1 THEN value[node[t]] ELSE c[k - 1]
          BY <2>2, <4>3, <5>1
        <5>. QED
          BY <4>1, <4>2, <4>3, <5>1, <5>2, <5>3
      <4>. QED
        BY <4>1, <4>4 DEF Abstract!Next, Abstract!Push
    <3>3. CASE PopCas(t) /\ s # <<>> /\ Listed(Tail(s))'
      <4>1. value' = value
        BY <3>3 DEF PopCas, memory
      <4>2. Contents' = [k \in 1 .. Len(Tail(s)) |-> value[Tail(s)[k]]]
        BY <2>3, <3>3, <4>1
      <4>3. Contents # <<>> /\ Contents' = Tail(Contents)
        BY <2>2, <3>3, <4>2
      <4>. QED
        BY <4>3 DEF Abstract!Next, Abstract!Pop
    <3>. QED
      BY <1>2, <2>1, <2>8, <3>1, <3>2, <3>3, StepKeepsList
  <2>. QED
    BY <1>2, <2>6, <2>7, <2>8 DEF StackNext
<1>. QED
  BY <1>1, <1>2, StackInvariance, PTL DEF StackSpec, ImplementsLifo, Abstract!Spec
==============================================================================
