---------------------------- MODULE HashMapProofs ----------------------------
(***************************************************************************)
(* Theorems about HashMap, for any set of threads, of buckets, of values   *)
(* and of nibbles that is not empty.                                       *)
(*                                                                         *)
(* That every bucket has one place needs no more than that.  What is said  *)
(* of the values holds until a thread has lost the race to publish a       *)
(* bucket (raced): it then inserts into the bucket that it has deleted, as *)
(* the run HashMap_deleted shows.  Until then a thread in a bucket is in   *)
(* the bucket of its key, so that a store changes what its own key holds:  *)
(* each step keeps, makes, links, drops or deletes one value, and each of  *)
(* the five keeps the account and is a step of the store of keys, or       *)
(* changes nothing that the store has.                                     *)
(***************************************************************************)
EXTENDS HashMap, TLAPS

\* The labels of a call, beside the first one.
InInsert == {"publish", "leaf_insert", "leaf_insert_cas"}
InRemove == {"remove", "leaf_remove", "leaf_remove_cas"}
InExists == {"exists", "leaf_exists"}
InIndex == {"index", "index_insert", "index_reload", "leaf_index", "leaf_index_cas",
            "leaf_index_reload", "asserted"}

HeapTyped ==
  /\ bucket \in [Nibbles -> Leaves \cup {Null}]
  /\ place \in [Leaves -> [Nibbles -> Values \cup {Null}]]
  /\ liveLeaves \subseteq Leaves /\ liveValues \subseteq Values

LocalsTyped ==
  /\ op \in [Threads -> Operations \cup {"none"}]
  /\ key \in [Threads -> Keys]
  /\ pChild \in [Threads -> Leaves \cup {Null}]
  /\ pValue \in [Threads -> Values \cup {Null}]
  /\ result \in [Threads -> BOOLEAN] /\ raced \in BOOLEAN

\* A thread is inside the call that it made; operator[] runs insert.
AtItsCall(label, o) ==
  /\ label = "insert" => o = "insert"
  /\ label \in InInsert => o \in {"insert", "index"}
  /\ label \in InRemove => o = "remove"
  /\ label \in InExists => o = "exists"
  /\ label \in InIndex => o = "index"

Labels == {"idle", "insert"} \cup InInsert \cup InRemove \cup InExists \cup InIndex

Labelled ==
  /\ pc \in [Threads -> Labels]
  /\ \A t \in Threads : AtItsCall(pc[t], op[t])

Typed == HeapTyped /\ LocalsTyped /\ Labelled

\* A bucket has one place, and one that is not published is its maker's alone.
Buckets ==
  /\ BucketsAccounted
  /\ \A i, j \in Nibbles : bucket[i] = bucket[j] /\ bucket[i] # Null => i = j
  /\ \A t \in Threads : pc[t] = "publish" => pChild[t] \in Leaves \ Reachable
  /\ \A t, u \in Threads :
       pc[t] = "publish" /\ pc[u] = "publish" /\ pChild[t] = pChild[u] => t = u

\* Until a thread has lost the race to publish, one that works in a bucket
\* works in the bucket of its key, and what it has found there is a value.
InItsBucket ==
  \A t \in Threads : InLeaf(t) => pChild[t] # Null /\ pChild[t] = bucket[key[t][1]]

\* A bucket has no values before it is published.
NewBucketsEmpty ==
  \A t \in Threads : pc[t] = "publish" => \A i \in Nibbles : place[pChild[t]][i] = Null

FoundIsValue == \A t \in Threads : pc[t] = "leaf_remove_cas" => pValue[t] \in Values

\* Every value is held by one key or is its maker's.
HeldValues == {Held[k] : k \in {m \in Keys : Held[m] # Null}}

Accounted ==
  /\ liveValues = HeldValues \cup {pValue[t] : t \in Makers}
  /\ \A k, m \in Keys : Held[k] = Held[m] /\ Held[k] # Null => k = m
  /\ \A t \in Makers : pValue[t] \in Values /\ \A k \in Keys : Held[k] # pValue[t]
  /\ \A t, u \in Makers : pValue[t] = pValue[u] => t = u

\* What holds until the race is lost.
UnracedInv == InItsBucket /\ NewBucketsEmpty /\ FoundIsValue /\ Accounted

\* The inductive invariant.
MapInv == Typed /\ Buckets /\ (~raced => UnracedInv)

-----------------------------------------------------------------------------
(* The properties follow. *)

LEMMA HeldType == Typed => Held \in [Keys -> Values \cup {Null}]
BY DEF Typed, HeapTyped, LocalsTyped, Held, Keys

LEMMA LinkedIsHeld == Typed => Linked = HeldValues
<1>. SUFFICES ASSUME Typed PROVE Linked = {Held[k] : k \in {m \in Keys : Held[m] # Null}}
  BY DEF HeldValues
<1>1. ASSUME NEW v \in Linked PROVE \E k \in Keys : Held[k] = v /\ Held[k] # Null
  <2>1. PICK leaf \in Reachable, j \in Nibbles : v = place[leaf][j] /\ v # Null
    BY <1>1 DEF Linked
  <2>2. PICK i \in Nibbles : leaf = bucket[i] /\ leaf # Null
    BY <2>1 DEF Reachable
  <2>3. <<i, j>> \in Keys /\ Held[<<i, j>>] = v
    BY <2>1, <2>2 DEF Held, Keys
  <2>. QED
    BY <2>1, <2>3
<1>2. ASSUME NEW k \in Keys, Held[k] # Null PROVE Held[k] \in Linked
  <2>1. k[1] \in Nibbles /\ k[2] \in Nibbles /\ bucket[k[1]] # Null
        /\ Held[k] = place[bucket[k[1]]][k[2]]
    BY <1>2 DEF Held, Keys
  <2>2. bucket[k[1]] \in Reachable
    BY <2>1 DEF Reachable
  <2>. QED
    BY <1>2, <2>1, <2>2 DEF Linked
<1>. QED
  BY <1>1, <1>2

LEMMA InvGivesValues == MapInv => ValuesAccounted
<1>. SUFFICES ASSUME MapInv, ~raced
              PROVE  /\ liveValues = Linked \cup {pValue[t] : t \in Makers}
                     /\ \A t \in Makers : pValue[t] \notin Linked
                     /\ \A t, u \in Makers : pValue[t] = pValue[u] => t = u
                     /\ \A i, j, m, n \in Nibbles :
                          bucket[i] # Null /\ bucket[m] # Null /\ <<i, j>> # <<m, n>>
                            => \/ place[bucket[i]][j] # place[bucket[m]][n]
                               \/ place[bucket[i]][j] = Null
  BY DEF ValuesAccounted
<1>1. /\ liveValues = Linked \cup {pValue[t] : t \in Makers}
      /\ \A t \in Makers : pValue[t] \notin Linked
      /\ \A t, u \in Makers : pValue[t] = pValue[u] => t = u
  BY LinkedIsHeld DEF MapInv, UnracedInv, Accounted, HeldValues
<1>2. ASSUME NEW i \in Nibbles, NEW j \in Nibbles, NEW m \in Nibbles, NEW n \in Nibbles,
             bucket[i] # Null, bucket[m] # Null, <<i, j>> # <<m, n>>
      PROVE  \/ place[bucket[i]][j] # place[bucket[m]][n]
             \/ place[bucket[i]][j] = Null
  <2>1. /\ <<i, j>> \in Keys /\ Held[<<i, j>>] = place[bucket[i]][j]
        /\ <<m, n>> \in Keys /\ Held[<<m, n>>] = place[bucket[m]][n]
    BY <1>2 DEF Held, Keys
  <2>. QED
    BY <1>2, <2>1 DEF MapInv, UnracedInv, Accounted
<1>. QED
  BY <1>1, <1>2

LEMMA MapInvInit == Init => MapInv
<1>. SUFFICES ASSUME Init PROVE MapInv
  OBVIOUS
<1>1. Typed
  <2>1. (CHOOSE k \in Keys : TRUE) \in Keys
    <3>1. PICK i \in Nibbles : TRUE
      BY NibblesAssumption
    <3>2. <<i, i>> \in Keys
      BY DEF Keys
    <3>. QED
      BY <3>2
  <2>2. LocalsTyped
    BY <2>1, Zenon DEF Init, LocalsTyped
  <2>. QED
    BY <2>2 DEF Init, Typed, HeapTyped, Labelled, AtItsCall, Labels,
                InInsert, InRemove, InExists, InIndex
<1>2. Buckets
  BY DEF Init, Buckets, BucketsAccounted, Reachable
<1>3. UnracedInv
  BY DEF Init, UnracedInv, InItsBucket, NewBucketsEmpty, FoundIsValue, Accounted, HeldValues,
         Held, Makers, InLeaf, Keys
<1>. QED
  BY <1>1, <1>2, <1>3 DEF MapInv

-----------------------------------------------------------------------------
(* Types and labels *)

LEMMA StepKeepsLabels ==
  ASSUME Typed, NEW t \in Threads, Call(t) \/ PublishBucket(t) \/ Running(t)
  PROVE  Labelled'
<1>. USE DEF Typed, LocalsTyped, Goto, Return, ReturnInsert, Continue,
             FoundBucket, Labels, InInsert, InRemove, InExists, InIndex
<1>1. CASE Call(t)
  <2>1. PICK o \in Operations : op' = [op EXCEPT ![t] = o] /\ pc' = [pc EXCEPT ![t] = o]
    BY <1>1 DEF Call
  <2>2. o \in Labels /\ AtItsCall(o, o)
    BY OperationsAssumption DEF AtItsCall
  <2>. QED
    BY <2>1, <2>2 DEF Labelled
<1>2. ASSUME NEW label, pc' = [pc EXCEPT ![t] = label], op' = op,
             label \in Labels, AtItsCall(label, op[t])
      PROVE  Labelled'
  BY <1>2 DEF Labelled
<1>3. AtItsCall(pc[t], op[t])
  BY DEF Labelled
<1>4. ASSUME Running(t) \/ PublishBucket(t)
      PROVE  /\ op' = op
             /\ \E label \in Labels : pc' = [pc EXCEPT ![t] = label] /\ AtItsCall(label, op[t])
  <2>. USE <1>3 DEF AtItsCall
  <2>1. CASE PublishBucket(t)
    BY <2>1 DEF PublishBucket
  <2>2. CASE InsertRoot(t)
    BY <2>2 DEF InsertRoot
  <2>3. CASE RemoveRoot(t)
    BY <2>3 DEF RemoveRoot, FindRoot
  <2>4. CASE ExistsRoot(t)
    BY <2>4 DEF ExistsRoot, FindRoot
  <2>5. CASE IndexRoot(t)
    BY <2>5 DEF IndexRoot
  <2>6. CASE IndexReload(t)
    BY <2>6 DEF IndexReload
  <2>7. CASE LeafInsert(t)
    BY <2>7 DEF LeafInsert, NewValue
  <2>8. CASE LeafInsertCas(t)
    BY <2>8 DEF LeafInsertCas
  <2>9. CASE LeafRemove(t)
    BY <2>9 DEF LeafRemove
  <2>10. CASE LeafRemoveCas(t)
    BY <2>10 DEF LeafRemoveCas
  <2>11. CASE LeafExists(t)
    BY <2>11 DEF LeafExists
  <2>12. CASE LeafIndex(t)
    BY <2>12 DEF LeafIndex, NewValue
  <2>13. CASE LeafIndexCas(t)
    BY <2>13 DEF LeafIndexCas
  <2>14. CASE LeafIndexReload(t)
    BY <2>14 DEF LeafIndexReload
  <2>. QED
    BY <1>4, <2>1, <2>2, <2>3, <2>4, <2>5, <2>6, <2>7, <2>8, <2>9, <2>10, <2>11, <2>12,
       <2>13, <2>14 DEF Running
<1>. QED
  BY <1>1, <1>2, <1>4

\* A step of a thread leaves the others where they are.
LEMMA OthersStay ==
  ASSUME Typed, NEW t \in Threads, Call(t) \/ PublishBucket(t) \/ Running(t),
         NEW u \in Threads, u # t
  PROVE  /\ pc'[u] = pc[u] /\ op'[u] = op[u] /\ key'[u] = key[u] /\ result'[u] = result[u]
         /\ pChild'[u] = pChild[u] /\ pValue'[u] = pValue[u]
<1>. USE DEF Typed, LocalsTyped, Labelled, Goto, Return, ReturnInsert, Continue, SetChild, SetValue,
             FoundBucket
<1>1. CASE Call(t)
  BY <1>1 DEF Call
<1>2. CASE PublishBucket(t)
  BY <1>2 DEF PublishBucket
<1>3. CASE InsertRoot(t)
  BY <1>3 DEF InsertRoot
<1>4. CASE RemoveRoot(t)
  BY <1>4 DEF RemoveRoot, FindRoot
<1>5. CASE ExistsRoot(t)
  BY <1>5 DEF ExistsRoot, FindRoot
<1>6. CASE IndexRoot(t)
  BY <1>6 DEF IndexRoot
<1>7. CASE IndexReload(t)
  BY <1>7 DEF IndexReload
<1>8. CASE LeafInsert(t)
  BY <1>8 DEF LeafInsert, NewValue
<1>9. CASE LeafInsertCas(t)
  BY <1>9 DEF LeafInsertCas
<1>10. CASE LeafRemove(t)
  BY <1>10 DEF LeafRemove
<1>11. CASE LeafRemoveCas(t)
  BY <1>11 DEF LeafRemoveCas
<1>12. CASE LeafExists(t)
  BY <1>12 DEF LeafExists
<1>13. CASE LeafIndex(t)
  BY <1>13 DEF LeafIndex, NewValue
<1>14. CASE LeafIndexCas(t)
  BY <1>14 DEF LeafIndexCas
<1>15. CASE LeafIndexReload(t)
  BY <1>15 DEF LeafIndexReload
<1>. QED
  BY <1>1, <1>2, <1>3, <1>4, <1>5, <1>6, <1>7, <1>8, <1>9, <1>10, <1>11, <1>12, <1>13,
     <1>14, <1>15 DEF Running

LEMMA ReadsTyped ==
  ASSUME Typed, NEW t \in Threads
  PROVE  Loads(t) \subseteq Values \cup {Null} /\ MyBucket(t) \in Leaves \cup {Null}
<1>1. key[t][1] \in Nibbles /\ key[t][2] \in Nibbles
  BY DEF Typed, LocalsTyped, Keys
<1>2. MyBucket(t) \in Leaves \cup {Null}
  BY <1>1 DEF Typed, HeapTyped, MyBucket
<1>3. pChild[t] \in liveLeaves => place[pChild[t]][key[t][2]] \in Values \cup {Null}
  BY <1>1 DEF Typed, HeapTyped
<1>. QED
  BY <1>2, <1>3 DEF Loads

LEMMA StoreTyped ==
  ASSUME Typed, NEW t \in Threads, NEW v \in Values \cup {Null}, Store(t, v)
  PROVE  place' \in [Leaves -> [Nibbles -> Values \cup {Null}]]
<1>1. place' = [leaf \in Leaves |-> IF leaf = pChild[t] THEN [place[leaf] EXCEPT ![key[t][2]] = v]
                                   ELSE place[leaf]]
  BY DEF Store, Typed, HeapTyped
<1>2. \A leaf \in Leaves : [place[leaf] EXCEPT ![key[t][2]] = v] \in [Nibbles -> Values \cup {Null}]
  BY DEF Typed, HeapTyped
<1>. QED
  BY <1>1, <1>2 DEF Typed, HeapTyped

LEMMA StepKeepsHeapType ==
  ASSUME Typed, NEW t \in Threads, Call(t) \/ PublishBucket(t) \/ Running(t)
  PROVE  HeapTyped'
<1>1. HeapTyped /\ pValue[t] \in Values \cup {Null} /\ pChild[t] \in Leaves \cup {Null}
  BY DEF Typed, LocalsTyped
<1>2. ASSUME UNCHANGED heap PROVE HeapTyped'
  BY <1>1, <1>2 DEF HeapTyped, heap
<1>3. ASSUME NEW label, NewValue(t, label) PROVE HeapTyped'
  BY <1>1, <1>3 DEF HeapTyped, NewValue
<1>4. CASE Call(t)
  BY <1>2, <1>4 DEF Call
<1>5. CASE PublishBucket(t)
  BY <1>1, <1>5 DEF PublishBucket, HeapTyped, MyBucket
<1>6. CASE InsertRoot(t)
  <2>1. CASE MyBucket(t) # Null
    BY <1>2, <1>6, <2>1 DEF InsertRoot
  <2>2. CASE MyBucket(t) = Null
    <3>. PICK leaf \in Leaves :
           /\ liveLeaves' = liveLeaves \cup {leaf}
           /\ place' = [place EXCEPT ![leaf] = [i \in Nibbles |-> Null]]
           /\ UNCHANGED <<bucket, liveValues>>
      BY <1>6, <2>2 DEF InsertRoot, FoundBucket
    <3>. QED
      BY <1>1 DEF HeapTyped
  <2>. QED
    BY <2>1, <2>2
<1>7. CASE LeafInsert(t) \/ LeafIndex(t)
  BY <1>2, <1>3, <1>7 DEF LeafInsert, LeafIndex
<1>8. ASSUME LinkValue(t) PROVE HeapTyped'
  <2>1. place' \in [Leaves -> [Nibbles -> Values \cup {Null}]]
    BY <1>1, <1>8, StoreTyped DEF LinkValue
  <2>. QED
    BY <1>1, <1>8, <2>1 DEF LinkValue, HeapTyped
<1>9. ASSUME DropValue(t) PROVE HeapTyped'
  BY <1>1, <1>9 DEF DropValue, HeapTyped
<1>10. CASE LeafInsertCas(t) \/ LeafIndexCas(t)
  BY <1>8, <1>9, <1>10 DEF LeafInsertCas, LeafIndexCas
<1>11. CASE LeafRemoveCas(t)
  <2>1. Store(t, Null) => place' \in [Leaves -> [Nibbles -> Values \cup {Null}]]
    BY StoreTyped
  <2>. QED
    BY <1>1, <1>2, <1>11, <2>1 DEF LeafRemoveCas, HeapTyped
<1>12. CASE RemoveRoot(t) \/ ExistsRoot(t) \/ IndexRoot(t) \/ IndexReload(t)
            \/ LeafRemove(t) \/ LeafExists(t) \/ LeafIndexReload(t)
  BY <1>2, <1>12 DEF RemoveRoot, ExistsRoot, FindRoot, IndexRoot, IndexReload, LeafRemove,
                     LeafExists, LeafIndexReload
<1>. QED
  BY <1>4, <1>5, <1>6, <1>7, <1>10, <1>11, <1>12 DEF Running

LEMMA StepKeepsLocalsType ==
  ASSUME Typed, NEW t \in Threads, Call(t) \/ PublishBucket(t) \/ Running(t), raced' \in BOOLEAN
  PROVE  LocalsTyped'
<1>1. LocalsTyped
  BY DEF Typed
<1>2. ASSUME NEW leaf \in Leaves \cup {Null}, SetChild(t, leaf)
      PROVE  pChild' \in [Threads -> Leaves \cup {Null}]
  BY <1>1, <1>2 DEF SetChild, LocalsTyped
<1>3. ASSUME NEW v \in Values \cup {Null}, SetValue(t, v)
      PROVE  pValue' \in [Threads -> Values \cup {Null}]
  BY <1>1, <1>3 DEF SetValue, LocalsTyped
<1>4. CASE Call(t)
  BY <1>1, <1>4 DEF Call, LocalsTyped
<1>5. ASSUME NEW r \in BOOLEAN, Return(t, r) PROVE LocalsTyped'
  BY <1>1, <1>2, <1>3, <1>5 DEF Return, LocalsTyped
<1>6. ASSUME NEW r \in BOOLEAN, ReturnInsert(t, r) PROVE LocalsTyped'
  BY <1>1, <1>2, <1>3, <1>5, <1>6 DEF ReturnInsert, LocalsTyped
<1>7. ASSUME NEW label, Continue(t, label),
             pChild' \in [Threads -> Leaves \cup {Null}], pValue' \in [Threads -> Values \cup {Null}]
      PROVE  LocalsTyped'
  BY <1>1, <1>7 DEF Continue, LocalsTyped
<1>8. UNCHANGED pChild => pChild' \in [Threads -> Leaves \cup {Null}]
  BY <1>1 DEF LocalsTyped
<1>9. UNCHANGED pValue => pValue' \in [Threads -> Values \cup {Null}]
  BY <1>1 DEF LocalsTyped
<1>10. ASSUME NEW label, FoundBucket(t, label) PROVE LocalsTyped'
  BY <1>2, <1>7, <1>9, <1>10, ReadsTyped DEF FoundBucket
<1>11. ASSUME NEW label, NewValue(t, label) PROVE LocalsTyped'
  BY <1>3, <1>7, <1>8, <1>11 DEF NewValue
<1>12. CASE PublishBucket(t)
  BY <1>7, <1>8, <1>9, <1>12 DEF PublishBucket
<1>13. CASE InsertRoot(t)
  BY <1>2, <1>7, <1>9, <1>10, <1>13 DEF InsertRoot
<1>14. CASE RemoveRoot(t) \/ ExistsRoot(t) \/ IndexRoot(t) \/ IndexReload(t)
  BY <1>5, <1>7, <1>8, <1>9, <1>10, <1>14 DEF RemoveRoot, ExistsRoot, FindRoot, IndexRoot, IndexReload
<1>15. CASE LeafInsert(t) \/ LeafInsertCas(t)
  BY <1>6, <1>11, <1>15 DEF LeafInsert, LeafInsertCas
<1>16. CASE LeafRemove(t)
  <2>. PICK v \in Loads(t) : \/ v = Null /\ Return(t, FALSE)
                             \/ SetValue(t, v) /\ Continue(t, "leaf_remove_cas") /\ UNCHANGED pChild
    BY <1>16 DEF LeafRemove
  <2>. QED
    BY <1>3, <1>5, <1>7, <1>8, ReadsTyped
<1>17. CASE LeafRemoveCas(t)
  BY <1>5, <1>17 DEF LeafRemoveCas
<1>18. CASE LeafExists(t) \/ LeafIndexReload(t)
  BY <1>5, <1>7, <1>8, <1>9, <1>18 DEF LeafExists, LeafIndexReload
<1>19. CASE LeafIndex(t)
  BY <1>5, <1>11, <1>19 DEF LeafIndex
<1>20. CASE LeafIndexCas(t)
  BY <1>3, <1>5, <1>7, <1>8, <1>20 DEF LeafIndexCas
<1>. QED
  BY <1>4, <1>12, <1>13, <1>14, <1>15, <1>16, <1>17, <1>18, <1>19, <1>20 DEF Running

LEMMA TypedStep ==
  ASSUME Typed, NEW t \in Threads, Call(t) \/ PublishBucket(t) \/ Running(t), raced' \in BOOLEAN
  PROVE  Typed'
BY StepKeepsHeapType, StepKeepsLocalsType, StepKeepsLabels DEF Typed

LEMMA TypedDestroy == ASSUME Typed, Destroy PROVE Typed'
BY DEF Typed, Destroy, HeapTyped, LocalsTyped, Labelled

-----------------------------------------------------------------------------
(* The buckets *)

\* Only the making of a bucket and its publication change who has which.
LEMMA BucketsQuiet ==
  ASSUME Typed, NEW t \in Threads,
         Call(t) \/ Running(t), InsertRoot(t) => MyBucket(t) # Null
  PROVE  UNCHANGED <<bucket, liveLeaves>> /\ pc[t] # "publish" /\ pc'[t] # "publish"
<1>1. pc \in [Threads -> Labels] /\ Operations \subseteq Labels \ {"publish"}
  BY OperationsAssumption DEF Typed, Labelled, Labels, InRemove, InExists, InIndex
<1>. USE <1>1 DEF heap, Goto, Return, ReturnInsert, Continue, FoundBucket
<1>2. CASE Call(t)
  BY <1>2 DEF Call
<1>3. CASE InsertRoot(t)
  BY <1>3 DEF InsertRoot
<1>4. CASE RemoveRoot(t) \/ ExistsRoot(t) \/ IndexRoot(t) \/ IndexReload(t)
  BY <1>4 DEF RemoveRoot, ExistsRoot, FindRoot, IndexRoot, IndexReload
<1>5. CASE LeafInsert(t) \/ LeafIndex(t)
  BY <1>5 DEF LeafInsert, LeafIndex, NewValue
<1>6. CASE LeafInsertCas(t) \/ LeafIndexCas(t)
  BY <1>6 DEF LeafInsertCas, LeafIndexCas, LinkValue, DropValue
<1>7. CASE LeafRemove(t) \/ LeafExists(t) \/ LeafIndexReload(t)
  BY <1>7 DEF LeafRemove, LeafExists, LeafIndexReload
<1>8. CASE LeafRemoveCas(t)
  BY <1>8 DEF LeafRemoveCas
<1>. QED
  BY <1>2, <1>3, <1>4, <1>5, <1>6, <1>7, <1>8 DEF Running

Publishers == {u \in Threads : pc[u] = "publish"}

LEMMA BucketsStep ==
  ASSUME Typed, Buckets, NEW t \in Threads, Call(t) \/ PublishBucket(t) \/ Running(t)
  PROVE  Buckets'
<1>1. \A u \in Threads \ {t} : pc'[u] = pc[u] /\ pChild'[u] = pChild[u]
  BY OthersStay
<1>2. /\ pc \in [Threads -> Labels] /\ pc' \in [Threads -> Labels]
      /\ bucket \in [Nibbles -> Leaves \cup {Null}] /\ key[t][1] \in Nibbles
      /\ pChild \in [Threads -> Leaves \cup {Null}]
  BY StepKeepsLabels DEF Typed, Labelled, HeapTyped, LocalsTyped, Keys
<1>3. CASE (Call(t) \/ Running(t)) /\ (InsertRoot(t) => MyBucket(t) # Null)
  <2>1. UNCHANGED <<bucket, liveLeaves>> /\ pc[t] # "publish" /\ pc'[t] # "publish"
    BY <1>3, BucketsQuiet
  <2>2. Reachable' = Reachable
    BY <2>1 DEF Reachable
  <2>3. \A u \in Threads : /\ pc'[u] = "publish" <=> pc[u] = "publish"
                           /\ pc[u] = "publish" => pChild'[u] = pChild[u]
    BY <1>1, <2>1
  <2>4. {pChild[u] : u \in Publishers}' = {pChild[u] : u \in Publishers}
    <3>1. Publishers' = Publishers /\ \A u \in Publishers : pChild'[u] = pChild[u]
      BY <2>3 DEF Publishers
    <3>. QED
      BY <3>1
  <2>5. BucketsAccounted'
    BY <2>1, <2>2, <2>4 DEF Buckets, BucketsAccounted, Publishers
  <2>6. \A u \in Threads : pc'[u] = "publish" => pChild'[u] \in (Leaves \ Reachable)'
    BY <2>2, <2>3 DEF Buckets
  <2>7. \A u, v \in Threads :
          pc'[u] = "publish" /\ pc'[v] = "publish" /\ pChild'[u] = pChild'[v] => u = v
    BY <2>3 DEF Buckets
  <2>. QED
    BY <2>1, <2>5, <2>6, <2>7 DEF Buckets
<1>4. CASE InsertRoot(t) /\ MyBucket(t) = Null
  <2>. PICK leaf \in Leaves \ (liveLeaves \cup {pChild[u] : u \in Threads}) :
         /\ SetChild(t, leaf)
         /\ liveLeaves' = liveLeaves \cup {leaf}
         /\ Continue(t, "publish")
         /\ bucket' = bucket
    BY <1>4 DEF InsertRoot, FoundBucket
  <2>1. pc[t] # "publish" /\ pc'[t] = "publish" /\ pChild'[t] = leaf
    BY <1>2, <1>4 DEF InsertRoot, Continue, Goto, SetChild
  <2>2. Reachable' = Reachable /\ leaf \notin Reachable
    BY DEF Reachable, Buckets, BucketsAccounted
  <2>3. {pChild[u] : u \in Publishers}' = {pChild[u] : u \in Publishers} \cup {leaf}
    BY <1>1, <2>1 DEF Publishers
  <2>4. BucketsAccounted'
    BY <2>2, <2>3 DEF Buckets, BucketsAccounted, Publishers
  <2>. QED
    BY <1>1, <2>1, <2>2, <2>4 DEF Buckets
<1>5. CASE PublishBucket(t)
  <2>1. /\ pc[t] = "publish" /\ pc'[t] = "leaf_insert" /\ pChild' = pChild
        /\ pChild[t] \in Leaves \ Reachable
    BY <1>2, <1>5 DEF PublishBucket, Continue, Goto, Buckets
  <2>2. Publishers' = Publishers \ {t} /\ t \in Publishers
    BY <1>1, <2>1 DEF Publishers
  <2>3. {pChild[u] : u \in Publishers} = {pChild[u] : u \in Publishers}' \cup {pChild[t]}
    BY <2>1, <2>2
  <2>4. pChild[t] \notin {pChild[u] : u \in Publishers}'
    BY <2>1, <2>2 DEF Publishers, Buckets
  <2>5. CASE MyBucket(t) = Null
    <3>1. bucket' = [bucket EXCEPT ![key[t][1]] = pChild[t]] /\ liveLeaves' = liveLeaves
      BY <1>5, <2>5 DEF PublishBucket
    <3>2. Reachable' = Reachable \cup {pChild[t]}
      <4>1. \A i \in Nibbles : bucket'[i] = IF i = key[t][1] THEN pChild[t] ELSE bucket[i]
        BY <1>2, <3>1
      <4>2. pChild[t] # Null /\ bucket[key[t][1]] = Null
        BY <2>1, <2>5, NullAssumption DEF MyBucket
      <4>. QED
        BY <1>2, <4>1, <4>2 DEF Reachable
    <3>3. BucketsAccounted'
      BY <2>3, <3>1, <3>2 DEF Buckets, BucketsAccounted, Publishers
    <3>4. \A u \in Threads : pc'[u] = "publish" => pChild'[u] \in (Leaves \ Reachable)'
      BY <1>1, <2>1, <2>2, <3>2 DEF Buckets
    <3>5. \A i, j \in Nibbles : bucket'[i] = bucket'[j] /\ bucket'[i] # Null => i = j
      BY <1>2, <2>1, <3>1 DEF Buckets, Reachable
    <3>. QED
      BY <1>1, <2>1, <3>3, <3>4, <3>5 DEF Buckets
  <2>6. CASE MyBucket(t) # Null
    <3>1. bucket' = bucket /\ liveLeaves' = liveLeaves \ {pChild[t]}
      BY <1>5, <2>6 DEF PublishBucket
    <3>2. Reachable' = Reachable
      BY <3>1 DEF Reachable
    <3>3. BucketsAccounted'
      BY <2>1, <2>3, <2>4, <3>1, <3>2 DEF Buckets, BucketsAccounted, Publishers
    <3>. QED
      BY <1>1, <2>1, <3>1, <3>2, <3>3 DEF Buckets
  <2>. QED
    BY <2>5, <2>6
<1>. QED
  BY <1>3, <1>4, <1>5 DEF Running

LEMMA BucketsDestroy == ASSUME Typed, Buckets, Destroy PROVE Buckets'
<1>1. /\ \A u \in Threads : pc[u] # "publish" /\ pc'[u] # "publish"
      /\ liveLeaves' = liveLeaves \ Reachable /\ bucket' = [i \in Nibbles |-> Null]
  BY DEF Destroy
<1>2. Reachable' = {}
  BY <1>1 DEF Reachable
<1>3. BucketsAccounted'
  BY <1>1, <1>2 DEF Buckets, BucketsAccounted
<1>. QED
  BY <1>1, <1>2, <1>3 DEF Buckets

-----------------------------------------------------------------------------
(* The values *)

\* A published bucket stays where it is.
LEMMA BucketsStay ==
  ASSUME Typed, NEW t \in Threads, Call(t) \/ PublishBucket(t) \/ Running(t)
  PROVE  \A i \in Nibbles : bucket[i] # Null => bucket'[i] = bucket[i]
<1>1. CASE PublishBucket(t)
  BY <1>1 DEF PublishBucket, MyBucket, Typed, HeapTyped
<1>2. CASE (Call(t) \/ Running(t)) /\ (InsertRoot(t) => MyBucket(t) # Null)
  BY <1>2, BucketsQuiet
<1>3. CASE InsertRoot(t) /\ MyBucket(t) = Null
  BY <1>3 DEF InsertRoot, FoundBucket
<1>. QED
  BY <1>1, <1>2, <1>3 DEF Running

LEMMA LoadsHeld ==
  ASSUME Typed, Buckets, UnracedInv, NEW t \in Threads, InLeaf(t)
  PROVE  Loads(t) = {Held[key[t]]}
<1>1. key[t] \in Keys /\ key[t][1] \in Nibbles
  BY DEF Typed, LocalsTyped, Keys
<1>2. pChild[t] # Null /\ pChild[t] = bucket[key[t][1]]
  BY DEF UnracedInv, InItsBucket
<1>3. pChild[t] \in liveLeaves
  BY <1>1, <1>2 DEF Buckets, BucketsAccounted, Reachable
<1>. QED
  BY <1>1, <1>2, <1>3 DEF Loads, Held

\* A store by a thread in a bucket changes the value of its key, no other.
LEMMA StoreHeld ==
  ASSUME Typed, Buckets, UnracedInv, NEW t \in Threads, InLeaf(t),
         NEW v \in Values \cup {Null}, Store(t, v), bucket' = bucket
  PROVE  Held' = [Held EXCEPT ![key[t]] = v]
<1>1. key[t] \in Keys /\ key[t][1] \in Nibbles /\ key[t][2] \in Nibbles
      /\ key[t] = <<key[t][1], key[t][2]>>
  BY DEF Typed, LocalsTyped, Keys
<1>2. pChild[t] # Null /\ pChild[t] = bucket[key[t][1]]
  BY DEF UnracedInv, InItsBucket
<1>3. \A leaf \in Leaves, i \in Nibbles :
        place'[leaf][i] = IF leaf = pChild[t] /\ i = key[t][2] THEN v ELSE place[leaf][i]
  BY DEF Store, Typed, HeapTyped
<1>4. ASSUME NEW k \in Keys
      PROVE  Held'[k] = IF k = key[t] THEN v ELSE Held[k]
  <2>1. k[1] \in Nibbles /\ k[2] \in Nibbles /\ k = <<k[1], k[2]>>
    BY DEF Keys
  <2>2. CASE bucket[k[1]] = Null
    BY <1>2, <2>2 DEF Held
  <2>3. CASE bucket[k[1]] # Null
    <3>1. bucket[k[1]] \in Leaves
      BY <2>1, <2>3 DEF Typed, HeapTyped
    <3>2. Held[k] = place[bucket[k[1]]][k[2]] /\ Held'[k] = place'[bucket[k[1]]][k[2]]
      BY <2>3 DEF Held
    <3>3. bucket[k[1]] = pChild[t] => k[1] = key[t][1]
      BY <1>1, <1>2, <2>1 DEF Buckets
    <3>. QED
      BY <1>1, <1>2, <1>3, <2>1, <3>1, <3>2, <3>3
  <2>. QED
    BY <2>2, <2>3
<1>5. Held' = [k \in Keys |-> Held'[k]] /\ Held = [k \in Keys |-> Held[k]]
  BY DEF Held
<1>. QED
  BY <1>4, <1>5

\* The ways a step changes what the keys hold and which values there are.
Keeps(t) ==
  t \notin Makers /\ t \notin Makers' /\ Held' = Held /\ liveValues' = liveValues

Makes(t) ==
  /\ t \notin Makers /\ t \in Makers' /\ Held' = Held
  /\ pValue'[t] \in Values \ liveValues /\ liveValues' = liveValues \cup {pValue'[t]}

Links(t) ==
  /\ t \in Makers /\ t \notin Makers' /\ Held[key[t]] = Null
  /\ Held' = [Held EXCEPT ![key[t]] = pValue[t]] /\ liveValues' = liveValues

Drops(t) ==
  /\ t \in Makers /\ t \notin Makers' /\ Held' = Held /\ Held[key[t]] # Null
  /\ liveValues' = liveValues \ {pValue[t]}

Deletes(t) ==
  /\ t \notin Makers /\ t \notin Makers' /\ Held[key[t]] = pValue[t] /\ pValue[t] # Null
  /\ Held' = [Held EXCEPT ![key[t]] = Null] /\ liveValues' = liveValues \ {pValue[t]}

LEMMA HeldStays ==
  ASSUME UNCHANGED <<bucket, place>>
  PROVE  Held' = Held
BY DEF Held

LEMMA RootKeeps ==
  ASSUME Typed, Buckets, UnracedInv, NEW t \in Threads,
         \/ Call(t) \/ InsertRoot(t) \/ RemoveRoot(t) \/ ExistsRoot(t) \/ IndexRoot(t)
         \/ IndexReload(t) \/ (PublishBucket(t) /\ MyBucket(t) = Null)
  PROVE  Keeps(t)
<1>1. t \notin Makers /\ t \notin Makers' /\ liveValues' = liveValues
  <2>. USE OperationsAssumption DEF Typed, Labelled, Makers, heap, Goto, Return, Continue, FoundBucket
  <2>1. CASE Call(t)
    BY <2>1 DEF Call
  <2>2. CASE InsertRoot(t)
    BY <2>2 DEF InsertRoot
  <2>3. CASE RemoveRoot(t) \/ ExistsRoot(t) \/ IndexRoot(t) \/ IndexReload(t)
    BY <2>3 DEF RemoveRoot, ExistsRoot, FindRoot, IndexRoot, IndexReload
  <2>4. CASE PublishBucket(t)
    BY <2>4 DEF PublishBucket
  <2>. QED
    BY <2>1, <2>2, <2>3, <2>4
<1>2. CASE \/ Call(t) \/ (InsertRoot(t) /\ MyBucket(t) # Null) \/ RemoveRoot(t) \/ ExistsRoot(t)
           \/ IndexRoot(t) \/ IndexReload(t)
  <2>1. UNCHANGED <<bucket, place>>
    BY <1>2 DEF Call, InsertRoot, RemoveRoot, ExistsRoot, FindRoot, IndexRoot, IndexReload, heap
  <2>. QED
    BY <1>1, <2>1, HeldStays DEF Keeps
<1>3. CASE InsertRoot(t) /\ MyBucket(t) = Null
  <2>. PICK leaf \in Leaves \ liveLeaves :
         bucket' = bucket /\ place' = [place EXCEPT ![leaf] = [i \in Nibbles |-> Null]]
    BY <1>3 DEF InsertRoot, FoundBucket
  <2>1. ASSUME NEW k \in Keys, bucket[k[1]] # Null
        PROVE  place'[bucket[k[1]]] = place[bucket[k[1]]]
    <3>1. bucket[k[1]] \in liveLeaves
      BY <2>1 DEF Buckets, BucketsAccounted, Reachable, Keys
    <3>2. bucket[k[1]] \in Leaves
      BY <3>1 DEF Typed, HeapTyped
    <3>. QED
      BY <3>1, <3>2 DEF Typed, HeapTyped
  <2>2. Held' = Held
    BY <2>1 DEF Held
  <2>. QED
    BY <1>1, <2>2 DEF Keeps
<1>4. CASE PublishBucket(t) /\ MyBucket(t) = Null
  <2>1. /\ pc[t] = "publish" /\ bucket[key[t][1]] = Null /\ key[t][1] \in Nibbles
        /\ bucket' = [bucket EXCEPT ![key[t][1]] = pChild[t]] /\ place' = place
    BY <1>4 DEF PublishBucket, MyBucket, Typed, LocalsTyped, Keys
  <2>2. \A i \in Nibbles : bucket'[i] = IF i = key[t][1] THEN pChild[t] ELSE bucket[i]
    BY <2>1 DEF Typed, HeapTyped
  <2>3. \A i \in Nibbles : place[pChild[t]][i] = Null
    BY <2>1 DEF UnracedInv, NewBucketsEmpty
  <2>4. ASSUME NEW k \in Keys PROVE Held'[k] = Held[k]
    BY <2>1, <2>2, <2>3 DEF Held, Keys
  <2>5. Held' = [k \in Keys |-> Held'[k]] /\ Held = [k \in Keys |-> Held[k]]
    BY DEF Held
  <2>. QED
    BY <1>1, <2>4, <2>5 DEF Keeps
<1>. QED
  BY <1>2, <1>3, <1>4

LEMMA LeafEffect ==
  ASSUME Typed, Buckets, UnracedInv, NEW t \in Threads,
         \/ LeafInsert(t) \/ LeafInsertCas(t) \/ LeafRemove(t) \/ LeafRemoveCas(t)
         \/ LeafExists(t) \/ LeafIndex(t) \/ LeafIndexCas(t) \/ LeafIndexReload(t)
  PROVE  Keeps(t) \/ Makes(t) \/ Links(t) \/ Drops(t) \/ Deletes(t)
<1>1. /\ pc \in [Threads -> Labels] /\ pValue \in [Threads -> Values \cup {Null}]
      /\ key[t] \in Keys /\ Held \in [Keys -> Values \cup {Null}]
  BY HeldType DEF Typed, Labelled, LocalsTyped
<1>2. InLeaf(t) /\ Loads(t) = {Held[key[t]]}
  <2>1. InLeaf(t)
    BY DEF InLeaf, LeafInsert, LeafInsertCas, LeafRemove, LeafRemoveCas, LeafExists, LeafIndex,
           LeafIndexCas, LeafIndexReload
  <2>. QED
    BY <2>1, LoadsHeld
<1>3. ASSUME UNCHANGED heap, t \notin Makers, t \notin Makers' PROVE Keeps(t)
  BY <1>3, HeldStays DEF heap, Keeps
<1>4. ASSUME NEW label \in {"leaf_insert_cas", "leaf_index_cas"}, NewValue(t, label), t \notin Makers
      PROVE  Makes(t)
  <2>1. t \in Makers'
    BY <1>1, <1>4 DEF NewValue, Continue, Goto, Makers
  <2>2. pValue'[t] \in Values \ liveValues /\ liveValues' = liveValues \cup {pValue'[t]}
    BY <1>1, <1>4 DEF NewValue, SetValue
  <2>3. Held' = Held
    BY <1>4, HeldStays DEF NewValue
  <2>. QED
    BY <1>4, <2>1, <2>2, <2>3 DEF Makes
<1>5. ASSUME LinkValue(t), t \in Makers, t \notin Makers' PROVE Links(t)
  <2>1. Held' = [Held EXCEPT ![key[t]] = pValue[t]]
    BY <1>1, <1>2, <1>5, StoreHeld DEF LinkValue
  <2>. QED
    BY <1>2, <1>5, <2>1 DEF LinkValue, Links
<1>6. ASSUME DropValue(t), t \in Makers, t \notin Makers' PROVE Drops(t)
  BY <1>2, <1>6, HeldStays DEF DropValue, Drops
<1>7. CASE LeafInsert(t) \/ LeafIndex(t)
  <2>1. t \notin Makers
    BY <1>7 DEF LeafInsert, LeafIndex, Makers
  <2>2. CASE NewValue(t, "leaf_insert_cas") \/ NewValue(t, "leaf_index_cas")
    BY <1>4, <2>1, <2>2
  <2>3. CASE UNCHANGED heap /\ t \notin Makers'
    BY <1>3, <2>1, <2>3
  <2>. QED
    BY <1>1, <1>7, <2>2, <2>3 DEF LeafInsert, LeafIndex, ReturnInsert, Return, Goto, Makers
<1>8. CASE LeafInsertCas(t) \/ LeafIndexCas(t)
  <2>1. t \in Makers /\ t \notin Makers'
    BY <1>1, <1>8 DEF LeafInsertCas, LeafIndexCas, ReturnInsert, Return, Continue, Goto, Makers
  <2>. QED
    BY <1>5, <1>6, <1>8, <2>1 DEF LeafInsertCas, LeafIndexCas
<1>9. CASE LeafRemove(t) \/ LeafExists(t) \/ LeafIndexReload(t)
  <2>1. t \notin Makers /\ t \notin Makers'
    BY <1>1, <1>9 DEF LeafRemove, LeafExists, LeafIndexReload, Return, Continue, Goto, Makers
  <2>. QED
    BY <1>3, <1>9, <2>1 DEF LeafRemove, LeafExists, LeafIndexReload
<1>10. CASE LeafRemoveCas(t)
  <2>1. t \notin Makers /\ t \notin Makers'
    BY <1>1, <1>10 DEF LeafRemoveCas, Return, Goto, Makers
  <2>2. pValue[t] # Null
    BY <1>10, NullAssumption DEF LeafRemoveCas, UnracedInv, FoundIsValue
  <2>3. ASSUME pValue[t] \in Loads(t), Store(t, Null), bucket' = bucket,
               liveValues' = liveValues \ {pValue[t]}
        PROVE  Deletes(t)
    <3>1. Held' = [Held EXCEPT ![key[t]] = Null]
      BY <1>2, <2>3, StoreHeld
    <3>. QED
      BY <1>2, <2>1, <2>2, <2>3, <3>1 DEF Deletes
  <2>. QED
    BY <1>3, <1>10, <2>1, <2>3 DEF LeafRemoveCas
<1>. QED
  BY <1>7, <1>8, <1>9, <1>10

LEMMA StepEffect ==
  ASSUME Typed, Buckets, UnracedInv, NEW t \in Threads,
         Call(t) \/ (PublishBucket(t) /\ MyBucket(t) = Null) \/ Running(t)
  PROVE  Keeps(t) \/ Makes(t) \/ Links(t) \/ Drops(t) \/ Deletes(t)
BY RootKeeps, LeafEffect DEF Running

LEMMA AccountedStep ==
  ASSUME Typed, Accounted, NEW t \in Threads,
         Keeps(t) \/ Makes(t) \/ Links(t) \/ Drops(t) \/ Deletes(t),
         \A u \in Threads \ {t} : pc'[u] = pc[u] /\ pValue'[u] = pValue[u]
  PROVE  Accounted'
<1>1. /\ key[t] \in Keys /\ Held \in [Keys -> Values \cup {Null}]
      /\ Makers \subseteq Threads
  BY HeldType DEF Typed, LocalsTyped, Makers
<1>2. \A u \in Threads \ {t} : u \in Makers' <=> u \in Makers
  BY DEF Makers
<1>3. \A u \in Makers \ {t} : pValue'[u] = pValue[u]
  BY DEF Makers
<1>. DEFINE made == {pValue[u] : u \in Makers}
<1>4. CASE Keeps(t)
  <2>1. Makers' = Makers /\ made' = made
    BY <1>1, <1>2, <1>3, <1>4 DEF Keeps, Makers
  <2>2. HeldValues' = HeldValues
    BY <1>4 DEF Keeps, HeldValues
  <2>. QED
    BY <1>3, <1>4, <2>1, <2>2 DEF Accounted, Keeps
<1>5. CASE Makes(t)
  <2>1. Makers' = Makers \cup {t} /\ t \notin Makers
    BY <1>1, <1>2, <1>5 DEF Makes, Makers
  <2>2. made' = made \cup {pValue'[t]}
    BY <1>3, <2>1
  <2>3. HeldValues' = HeldValues /\ Held' = Held /\ \A k \in Keys : Held[k] # Null => Held[k] \in HeldValues
    BY <1>5 DEF Makes, HeldValues
  <2>4. liveValues' = HeldValues' \cup made'
    BY <1>5, <2>2, <2>3 DEF Makes, Accounted
  <2>5. pValue'[t] \in Values /\ pValue'[t] \notin HeldValues /\ pValue'[t] \notin made
    BY <1>5 DEF Makes, Accounted
  <2>6. \A k \in Keys : Held[k] # pValue'[t]
    BY <2>3, <2>5, NullAssumption
  <2>. QED
    BY <1>3, <2>1, <2>3, <2>4, <2>5, <2>6 DEF Accounted
<1>6. CASE Links(t)
  <2>1. Makers' = Makers \ {t} /\ t \in Makers
    BY <1>1, <1>2, <1>6 DEF Links, Makers
  <2>2. made = made' \cup {pValue[t]}
    BY <1>3, <2>1
  <2>3. \A k \in Keys : Held'[k] = IF k = key[t] THEN pValue[t] ELSE Held[k]
    BY <1>1, <1>6 DEF Links
  <2>4. pValue[t] \in Values /\ pValue[t] # Null /\ Held[key[t]] = Null
    BY <1>6, <2>1, NullAssumption DEF Accounted, Links
  <2>5. HeldValues' = HeldValues \cup {pValue[t]}
    BY <1>1, <2>3, <2>4 DEF HeldValues
  <2>6. liveValues' = HeldValues' \cup made'
    BY <1>6, <2>2, <2>5 DEF Links, Accounted
  <2>7. \A k, m \in Keys : Held'[k] = Held'[m] /\ Held'[k] # Null => k = m
    BY <2>1, <2>3 DEF Accounted
  <2>8. \A u \in Makers' : pValue'[u] \in Values /\ \A k \in Keys : Held'[k] # pValue'[u]
    BY <1>3, <2>1, <2>3 DEF Accounted
  <2>. QED
    BY <1>3, <2>1, <2>6, <2>7, <2>8 DEF Accounted
<1>7. CASE Drops(t)
  <2>1. Makers' = Makers \ {t} /\ t \in Makers
    BY <1>1, <1>2, <1>7 DEF Drops, Makers
  <2>2. made = made' \cup {pValue[t]} /\ pValue[t] \notin made'
    BY <1>3, <2>1 DEF Accounted
  <2>3. HeldValues' = HeldValues /\ Held' = Held
    BY <1>7 DEF Drops, HeldValues
  <2>4. pValue[t] \notin HeldValues
    BY <2>1 DEF Accounted, HeldValues
  <2>5. liveValues' = HeldValues' \cup made'
    BY <1>7, <2>2, <2>3, <2>4 DEF Drops, Accounted
  <2>. QED
    BY <1>3, <2>1, <2>3, <2>5 DEF Accounted
<1>8. CASE Deletes(t)
  <2>1. Makers' = Makers /\ t \notin Makers
    BY <1>1, <1>2, <1>8 DEF Deletes, Makers
  <2>2. made' = made /\ \A u \in Makers : pValue'[u] = pValue[u]
    BY <1>3, <2>1
  <2>3. \A k \in Keys : Held'[k] = IF k = key[t] THEN Null ELSE Held[k]
    BY <1>1, <1>8 DEF Deletes
  <2>4. pValue[t] # Null /\ Held[key[t]] = pValue[t]
    BY <1>8 DEF Deletes
  <2>5. HeldValues' = HeldValues \ {pValue[t]}
    BY <1>1, <2>3, <2>4 DEF HeldValues, Accounted
  <2>6. pValue[t] \notin made
    BY <1>1, <2>4 DEF Accounted
  <2>7. liveValues' = HeldValues' \cup made'
    BY <1>8, <2>2, <2>5, <2>6 DEF Deletes, Accounted
  <2>8. \A k, m \in Keys : Held'[k] = Held'[m] /\ Held'[k] # Null => k = m
    BY <2>3 DEF Accounted
  <2>9. \A u \in Makers' : pValue'[u] \in Values /\ \A k \in Keys : Held'[k] # pValue'[u]
    BY <2>1, <2>2, <2>3, NullAssumption DEF Accounted
  <2>. QED
    BY <2>1, <2>2, <2>7, <2>8, <2>9 DEF Accounted
<1>. QED
  BY <1>4, <1>5, <1>6, <1>7, <1>8

\* A thread comes to a bucket at the root, and stays in it until it returns.
LEMMA EntersItsBucket ==
  ASSUME Typed, NEW t \in Threads, Call(t) \/ PublishBucket(t) \/ Running(t), InLeaf(t)'
  PROVE  /\ key' = key
         /\ \/ PublishBucket(t) /\ pChild' = pChild
            \/ pChild'[t] = MyBucket(t) /\ MyBucket(t) # Null
            \/ InLeaf(t) /\ pChild' = pChild
<1>1. /\ pc \in [Threads -> Labels] /\ pChild \in [Threads -> Leaves \cup {Null}]
      /\ pc'[t] \notin Operations
  BY OperationsAssumption DEF Typed, Labelled, LocalsTyped, InLeaf
<1>. USE <1>1 DEF InLeaf, Goto, Continue, Return, ReturnInsert, SetChild
<1>2. ASSUME NEW label, FoundBucket(t, label)
      PROVE  key' = key /\ pChild'[t] = MyBucket(t) /\ MyBucket(t) # Null
  BY <1>2 DEF FoundBucket
<1>3. CASE Call(t)
  BY <1>3 DEF Call
<1>4. CASE PublishBucket(t)
  BY <1>4 DEF PublishBucket
<1>5. CASE InsertRoot(t)
  BY <1>2, <1>5 DEF InsertRoot
<1>6. CASE RemoveRoot(t) \/ ExistsRoot(t) \/ IndexRoot(t) \/ IndexReload(t)
  BY <1>2, <1>6 DEF RemoveRoot, ExistsRoot, FindRoot, IndexRoot, IndexReload
<1>7. CASE LeafInsert(t) \/ LeafIndex(t)
  BY <1>7 DEF LeafInsert, LeafIndex, NewValue
<1>8. CASE LeafInsertCas(t) \/ LeafIndexCas(t)
  BY <1>8 DEF LeafInsertCas, LeafIndexCas
<1>9. CASE LeafRemove(t) \/ LeafExists(t) \/ LeafIndexReload(t)
  BY <1>9 DEF LeafRemove, LeafExists, LeafIndexReload
<1>10. CASE LeafRemoveCas(t)
  BY <1>10 DEF LeafRemoveCas
<1>. QED
  BY <1>3, <1>4, <1>5, <1>6, <1>7, <1>8, <1>9, <1>10 DEF Running

LEMMA InItsBucketStep ==
  ASSUME Typed, UnracedInv, NEW t \in Threads,
         Call(t) \/ (PublishBucket(t) /\ MyBucket(t) = Null) \/ Running(t), Buckets
  PROVE  InItsBucket'
<1>1. /\ \A u \in Threads : key[u][1] \in Nibbles
      /\ \A i \in Nibbles : bucket[i] # Null => bucket'[i] = bucket[i]
  BY BucketsStay DEF Typed, LocalsTyped, Keys
<1>2. ASSUME NEW u \in Threads, InLeaf(u)', u # t
      PROVE  pChild'[u] # Null /\ pChild'[u] = bucket'[key'[u][1]]
  <2>1. pc'[u] = pc[u] /\ key'[u] = key[u] /\ pChild'[u] = pChild[u]
    BY <1>2, OthersStay
  <2>2. InLeaf(u)
    BY <1>2, <2>1 DEF InLeaf
  <2>. QED
    BY <1>1, <2>1, <2>2 DEF UnracedInv, InItsBucket
<1>3. ASSUME InLeaf(t)'
      PROVE  pChild'[t] # Null /\ pChild'[t] = bucket'[key'[t][1]]
  <2>1. CASE PublishBucket(t) /\ pChild' = pChild
    <3>1. /\ bucket' = [bucket EXCEPT ![key[t][1]] = pChild[t]] /\ key' = key
          /\ pc[t] = "publish" /\ bucket \in [Nibbles -> Leaves \cup {Null}]
      <4>1. MyBucket(t) = Null
        BY <2>1 DEF Running, PublishBucket, Call, InsertRoot, RemoveRoot, ExistsRoot, FindRoot, IndexRoot,
                    IndexReload, LeafInsert, LeafInsertCas, LeafRemove, LeafRemoveCas,
                    LeafExists, LeafIndex, LeafIndexCas, LeafIndexReload
      <4>. QED
        BY <2>1, <4>1 DEF PublishBucket, Continue, Typed, HeapTyped
    <3>2. pChild[t] \in Leaves
      BY <3>1 DEF Buckets
    <3>. QED
      BY <1>1, <2>1, <3>1, <3>2, NullAssumption
  <2>2. CASE pChild'[t] = MyBucket(t) /\ MyBucket(t) # Null /\ key' = key
    BY <1>1, <2>2 DEF MyBucket
  <2>3. CASE InLeaf(t) /\ pChild' = pChild /\ key' = key
    BY <1>1, <2>3 DEF UnracedInv, InItsBucket
  <2>. QED
    BY <1>3, <2>1, <2>2, <2>3, EntersItsBucket
<1>. QED
  BY <1>2, <1>3 DEF InItsBucket

LEMMA NewBucketsEmptyStep ==
  ASSUME Typed, Buckets, UnracedInv, NEW t \in Threads, Call(t) \/ PublishBucket(t) \/ Running(t)
  PROVE  NewBucketsEmpty'
<1>1. ASSUME NEW u \in Threads, pc[u] = "publish", NEW v, InLeaf(t), Store(t, v)
      PROVE  place'[pChild[u]] = place[pChild[u]]
  <2>1. key[t][1] \in Nibbles /\ pChild[u] \in Leaves \ Reachable
    BY <1>1 DEF Typed, LocalsTyped, Keys, Buckets
  <2>2. pChild[t] \in Reachable
    BY <1>1, <2>1 DEF UnracedInv, InItsBucket, Reachable
  <2>. QED
    BY <1>1, <2>1, <2>2 DEF Store, Typed, HeapTyped
<1>2. \/ place' = place
      \/ InLeaf(t) /\ \E v : Store(t, v)
      \/ InsertRoot(t) /\ MyBucket(t) = Null
  <2>1. CASE Call(t) \/ PublishBucket(t)
    BY <2>1 DEF Call, PublishBucket, heap
  <2>2. CASE InsertRoot(t)
    BY <2>2 DEF InsertRoot, heap
  <2>3. CASE \/ RemoveRoot(t) \/ ExistsRoot(t) \/ IndexRoot(t) \/ IndexReload(t)
             \/ LeafRemove(t) \/ LeafExists(t) \/ LeafIndexReload(t)
    BY <2>3 DEF RemoveRoot, ExistsRoot, FindRoot, IndexRoot, IndexReload, LeafRemove, LeafExists,
                LeafIndexReload, heap
  <2>4. CASE LeafInsert(t) \/ LeafIndex(t)
    BY <2>4 DEF LeafInsert, LeafIndex, NewValue, heap
  <2>5. CASE LeafInsertCas(t) \/ LeafIndexCas(t)
    BY <2>5 DEF LeafInsertCas, LeafIndexCas, LinkValue, DropValue, InLeaf
  <2>6. CASE LeafRemoveCas(t)
    BY <2>6 DEF LeafRemoveCas, InLeaf, heap
  <2>. QED
    BY <2>1, <2>2, <2>3, <2>4, <2>5, <2>6 DEF Running
<1>3. CASE InsertRoot(t) /\ MyBucket(t) = Null
  <2>. PICK leaf \in Leaves \ {pChild[u] : u \in Threads} :
         SetChild(t, leaf) /\ place' = [place EXCEPT ![leaf] = [i \in Nibbles |-> Null]]
    BY <1>3 DEF InsertRoot, FoundBucket
  <2>1. pChild'[t] = leaf /\ \A i \in Nibbles : place'[leaf][i] = Null
    BY DEF SetChild, Typed, LocalsTyped, HeapTyped
  <2>2. ASSUME NEW u \in Threads \ {t}, pc'[u] = "publish", NEW i \in Nibbles
        PROVE  place'[pChild'[u]][i] = Null
    <3>1. pc[u] = "publish" /\ pChild'[u] = pChild[u]
      BY <2>2, OthersStay
    <3>2. pChild[u] # leaf /\ pChild[u] \in Leaves
      BY <3>1 DEF Buckets
    <3>3. place'[pChild[u]] = place[pChild[u]]
      BY <3>2 DEF Typed, HeapTyped
    <3>. QED
      BY <3>1, <3>3 DEF UnracedInv, NewBucketsEmpty
  <2>. QED
    BY <2>1, <2>2 DEF NewBucketsEmpty
<1>4. CASE ~(InsertRoot(t) /\ MyBucket(t) = Null)
  <2>1. pc'[t] # "publish"
    <3>1. CASE PublishBucket(t)
      BY <3>1 DEF PublishBucket, Continue, Goto, Typed, Labelled
    <3>2. CASE Call(t) \/ Running(t)
      BY <1>4, <3>2, BucketsQuiet
    <3>. QED
      BY <3>1, <3>2
  <2>2. ASSUME NEW u \in Threads, pc'[u] = "publish", NEW i \in Nibbles
        PROVE  place'[pChild'[u]][i] = Null
    <3>1. u # t /\ pc[u] = "publish" /\ pChild'[u] = pChild[u]
      BY <2>1, <2>2, OthersStay
    <3>2. place'[pChild[u]] = place[pChild[u]]
      BY <1>1, <1>2, <1>4, <3>1
    <3>. QED
      BY <3>1, <3>2 DEF UnracedInv, NewBucketsEmpty
  <2>. QED
    BY <2>2 DEF NewBucketsEmpty
<1>. QED
  BY <1>3, <1>4

LEMMA FoundIsValueStep ==
  ASSUME Typed, UnracedInv, NEW t \in Threads, Call(t) \/ PublishBucket(t) \/ Running(t)
  PROVE  FoundIsValue'
<1>1. ASSUME NEW u \in Threads \ {t}, pc'[u] = "leaf_remove_cas" PROVE pValue'[u] \in Values
  BY <1>1, OthersStay DEF UnracedInv, FoundIsValue
<1>2. ASSUME pc'[t] = "leaf_remove_cas" PROVE LeafRemove(t)
  <2>. USE <1>2, OperationsAssumption DEF Typed, Labelled, Goto, Return, ReturnInsert, Continue
  <2>1. CASE Call(t) \/ PublishBucket(t)
    BY <2>1 DEF Call, PublishBucket
  <2>2. CASE InsertRoot(t) \/ RemoveRoot(t) \/ ExistsRoot(t) \/ IndexRoot(t) \/ IndexReload(t)
    BY <2>2 DEF InsertRoot, RemoveRoot, ExistsRoot, FindRoot, IndexRoot, IndexReload, FoundBucket
  <2>3. CASE LeafInsert(t) \/ LeafInsertCas(t)
    BY <2>3 DEF LeafInsert, LeafInsertCas, NewValue
  <2>4. CASE LeafRemoveCas(t) \/ LeafExists(t) \/ LeafIndexReload(t)
    BY <2>4 DEF LeafRemoveCas, LeafExists, LeafIndexReload
  <2>5. CASE LeafIndex(t) \/ LeafIndexCas(t)
    BY <2>5 DEF LeafIndex, LeafIndexCas, NewValue
  <2>. QED
    BY <2>1, <2>2, <2>3, <2>4, <2>5 DEF Running
<1>3. ASSUME LeafRemove(t), pc'[t] = "leaf_remove_cas" PROVE pValue'[t] \in Values
  BY <1>3, ReadsTyped DEF LeafRemove, Return, Goto, SetValue, Typed, Labelled, LocalsTyped
<1>. QED
  BY <1>1, <1>2, <1>3 DEF FoundIsValue

LEMMA ValuesStep ==
  ASSUME Typed, Buckets, UnracedInv, NEW t \in Threads,
         Call(t) \/ (PublishBucket(t) /\ MyBucket(t) = Null) \/ Running(t)
  PROVE  UnracedInv'
<1>1. \A u \in Threads \ {t} : pc'[u] = pc[u] /\ pValue'[u] = pValue[u]
  BY OthersStay
<1>2. Accounted'
  BY <1>1, StepEffect, AccountedStep DEF UnracedInv
<1>3. InItsBucket'
  BY InItsBucketStep
<1>4. NewBucketsEmpty' /\ FoundIsValue'
  BY NewBucketsEmptyStep, FoundIsValueStep
<1>. QED
  BY <1>2, <1>3, <1>4 DEF UnracedInv

LEMMA ValuesDestroy == ASSUME Typed, UnracedInv, Destroy PROVE UnracedInv'
<1>1. \A t \in Threads : pc[t] = "idle" /\ pc'[t] = "idle"
  BY DEF Destroy
<1>2. Makers = {} /\ Makers' = {}
  BY <1>1 DEF Makers
<1>3. \A k \in Keys : Held'[k] = Null
  BY DEF Destroy, Held, Keys
<1>4. liveValues' = {} /\ HeldValues' = {}
  <2>1. liveValues = Linked
    BY <1>2, LinkedIsHeld DEF UnracedInv, Accounted
  <2>. QED
    BY <1>3, <2>1 DEF Destroy, HeldValues
<1>5. Accounted'
  BY <1>2, <1>3, <1>4 DEF Accounted
<1>. QED
  BY <1>1, <1>5 DEF UnracedInv, InItsBucket, NewBucketsEmpty, FoundIsValue, InLeaf

LEMMA MapInvStep == MapInv /\ [Next]_vars => MapInv'
<1>. SUFFICES ASSUME MapInv, [Next]_vars PROVE MapInv'
  OBVIOUS
<1>. USE DEF MapInv
<1>1. raced \in BOOLEAN
  BY DEF Typed, LocalsTyped
<1>2. CASE Destroy
  BY <1>2, TypedDestroy, BucketsDestroy, ValuesDestroy DEF Destroy
<1>3. ASSUME NEW t \in Threads, PublishBucket(t) PROVE MapInv'
  <2>1. raced' \in BOOLEAN /\ (~raced' => ~raced /\ MyBucket(t) = Null)
    <3>1. (MyBucket(t) = Null /\ raced' = raced) \/ raced' = TRUE
      BY <1>3 DEF PublishBucket
    <3>. QED
      BY <1>1, <3>1, Zenon
  <2>2. Typed' /\ Buckets'
    BY <1>3, <2>1, TypedStep, BucketsStep
  <2>. QED
    BY <1>3, <2>1, <2>2, ValuesStep
<1>4. ASSUME NEW t \in Threads, Call(t) \/ Running(t), raced' = raced PROVE MapInv'
  <2>1. Typed' /\ Buckets'
    BY <1>1, <1>4, TypedStep, BucketsStep
  <2>. QED
    BY <1>4, <2>1, ValuesStep
<1>5. CASE UNCHANGED vars
  <2>1. Typed'
    BY <1>5 DEF vars, heap, Typed, HeapTyped, LocalsTyped, Labelled
  <2>2. Buckets'
    BY <1>5 DEF vars, heap, Buckets, BucketsAccounted, Reachable
  <2>3. UnracedInv => UnracedInv'
    BY <1>5 DEF vars, heap, UnracedInv, InItsBucket, NewBucketsEmpty, FoundIsValue, Accounted,
                HeldValues, Held, Makers, InLeaf
  <2>. QED
    BY <1>5, <2>1, <2>2, <2>3 DEF vars
<1>. QED
  BY <1>2, <1>3, <1>4, <1>5 DEF Next

\* The invariant of the map.
THEOREM MapInvariance == Spec => []MapInv
BY MapInvInit, MapInvStep, PTL DEF Spec

\* Every bucket that is allocated is in the root or in the hands of a thread
\* that is about to publish it, whatever races are lost.
THEOREM EveryBucketAccounted == Spec => []BucketsAccounted
<1>1. MapInv => BucketsAccounted
  BY DEF MapInv, Buckets
<1>. QED
  BY <1>1, MapInvariance, PTL

\* Every value that is allocated is held by one key or is in the hands of the
\* thread that made it, until a race to publish is lost.
THEOREM EveryValueAccounted == Spec => []ValuesAccounted
BY InvGivesValues, MapInvariance, PTL

-----------------------------------------------------------------------------
(* The refinement *)

Busy == [t \in Threads |-> pc[t] # "idle"]

LEMMA RefineInit == Init => Abstract!Init
<1>. SUFFICES ASSUME Init PROVE Abstract!Init
  OBVIOUS
<1>1. key \in [Threads -> Keys] /\ Typed
  BY MapInvInit DEF MapInv, Typed, LocalsTyped
<1>2. Present = {} /\ Missed = [t \in Threads |-> FALSE]
  BY DEF Init, Present, Missed, Held, Keys
<1>3. [t \in Threads |-> pc[t] # "idle"] = [t \in Threads |-> FALSE]
  BY DEF Init
<1>. QED
  BY <1>1, <1>2, <1>3 DEF Init, Abstract!Init

\* What the kinds of step do to the keys in the map.
LEMMA PresentEffect ==
  ASSUME Typed, Typed', Accounted, NEW t \in Threads
  PROVE  /\ Keeps(t) \/ Makes(t) \/ Drops(t) => Present' = Present
         /\ Links(t) => key[t] \notin Present /\ Present' = Present \cup {key[t]}
         /\ Drops(t) => key[t] \in Present
         /\ Deletes(t) => key[t] \in Present /\ Present' = Present \ {key[t]}
<1>1. /\ Present = {k \in Keys : Held[k] # Null}
      /\ Present' = {k \in Keys : Held'[k] # Null}
      /\ key[t] \in Keys /\ Held \in [Keys -> Values \cup {Null}]
  BY HeldType DEF Typed, LocalsTyped, Present
<1>2. Keeps(t) \/ Makes(t) \/ Drops(t) => Present' = Present
  BY <1>1 DEF Keeps, Makes, Drops
<1>3. Links(t) => key[t] \notin Present /\ Present' = Present \cup {key[t]}
  BY <1>1, NullAssumption DEF Links, Accounted
<1>4. Deletes(t) => key[t] \in Present /\ Present' = Present \ {key[t]}
  BY <1>1 DEF Deletes
<1>. QED
  BY <1>1, <1>2, <1>3, <1>4 DEF Drops

\* Only the load of a remove leads to its compare-exchange, with what its key
\* holds.
LEMMA RemoveLoads ==
  ASSUME Typed, Buckets, UnracedInv, NEW t \in Threads,
         Call(t) \/ (PublishBucket(t) /\ MyBucket(t) = Null) \/ Running(t),
         pc'[t] = "leaf_remove_cas"
  PROVE  Held' = Held /\ key' = key /\ pValue'[t] = Held[key[t]] /\ pc[t] # "leaf_remove_cas"
<1>1. /\ pc \in [Threads -> Labels] /\ pValue \in [Threads -> Values \cup {Null}]
      /\ \A o \in Operations : o # "leaf_remove_cas"
  BY OperationsAssumption DEF Typed, Labelled, LocalsTyped
<1>. USE <1>1 DEF Goto, Return, ReturnInsert, Continue, FoundBucket
<1>2. CASE Call(t)
  BY <1>2 DEF Call
<1>3. CASE PublishBucket(t) \/ InsertRoot(t)
  BY <1>3 DEF PublishBucket, InsertRoot
<1>4. CASE RemoveRoot(t) \/ ExistsRoot(t) \/ IndexRoot(t) \/ IndexReload(t)
  BY <1>4 DEF RemoveRoot, ExistsRoot, FindRoot, IndexRoot, IndexReload
<1>5. CASE LeafInsert(t) \/ LeafInsertCas(t) \/ LeafIndex(t) \/ LeafIndexCas(t)
  BY <1>5 DEF LeafInsert, LeafInsertCas, LeafIndex, LeafIndexCas, NewValue
<1>6. CASE LeafRemoveCas(t) \/ LeafExists(t) \/ LeafIndexReload(t)
  BY <1>6 DEF LeafRemoveCas, LeafExists, LeafIndexReload
<1>7. CASE LeafRemove(t)
  <2>1. Loads(t) = {Held[key[t]]} /\ pc[t] = "leaf_remove"
    BY <1>7, LoadsHeld DEF LeafRemove, InLeaf
  <2>2. Held' = Held
    BY <1>7, HeldStays DEF LeafRemove, heap
  <2>. QED
    BY <1>7, <2>1, <2>2 DEF LeafRemove, SetValue
<1>. QED
  BY <1>2, <1>3, <1>4, <1>5, <1>6, <1>7 DEF Running

\* A remove has missed its key only after a moment at which the key was not in
\* the map; a step that does not change what the keys hold makes none miss.
LEMMA MissedStep ==
  ASSUME Typed, Typed', Buckets, UnracedInv, NEW t \in Threads,
         Call(t) \/ (PublishBucket(t) /\ MyBucket(t) = Null) \/ Running(t)
  PROVE  /\ \A u \in Threads :
              Missed'[u] => Busy[u] /\ (Missed[u] \/ key[u] \notin Present')
         /\ Present' = Present /\ pc[t] # "leaf_remove_cas" => Missed' = Missed
<1>. USE DEF Missed
<1>0. /\ Held \in [Keys -> Values \cup {Null}] /\ key \in [Threads -> Keys]
      /\ \A k \in Keys : (k \in Present' <=> Held'[k] # Null) /\ (k \in Present <=> Held[k] # Null)
  BY HeldType DEF Present, Typed, LocalsTyped
<1>1. Keeps(t) \/ Makes(t) \/ Links(t) \/ Drops(t) \/ Deletes(t)
  BY StepEffect
<1>2. ASSUME NEW u \in Threads, u # t
      PROVE  pc'[u] = pc[u] /\ key'[u] = key[u] /\ pValue'[u] = pValue[u]
  <2>1. Call(t) \/ PublishBucket(t) \/ Running(t)
    OBVIOUS
  <2>. QED
    BY <1>2, <2>1, OthersStay
<1>3. ~Missed'[t]
  BY RemoveLoads
<1>4. ASSUME NEW u \in Threads, Missed'[u]
      PROVE  Busy[u] /\ (Missed[u] \/ key[u] \notin Present')
  <2>1. u # t /\ pc[u] = "leaf_remove_cas" /\ Held'[key[u]] # pValue[u]
    BY <1>2, <1>3, <1>4
  <2>2. CASE Held[key[u]] = pValue[u]
    <3>1. Held[key[u]] # Null /\ Held'[key[u]] # Held[key[u]] /\ key[u] \in Keys /\ key[t] \in Keys
      BY <1>0, <2>1, <2>2, NullAssumption DEF UnracedInv, FoundIsValue
    <3>2. Held'[key[u]] = Null
      BY <1>0, <1>1, <3>1 DEF Keeps, Makes, Links, Drops, Deletes
    <3>. QED
      BY <1>0, <2>1, <3>1, <3>2 DEF Busy
  <2>. QED
    BY <2>1, <2>2 DEF Busy
<1>5. ASSUME Present' = Present, pc[t] # "leaf_remove_cas" PROVE Missed' = Missed
  <2>1. Held' = Held
    <3>1. key[t] \in Keys
      BY <1>0
    <3>2. ~Links(t) /\ ~Deletes(t)
      BY <1>5, PresentEffect DEF UnracedInv
    <3>. QED
      BY <1>1, <3>2 DEF Keeps, Makes, Drops
  <2>2. \A u \in Threads : Missed'[u] = Missed[u]
    BY <1>2, <1>3, <1>5, <2>1
  <2>. QED
    BY <2>2
<1>. QED
  BY <1>4, <1>5

LEMMA RemembersStep ==
  ASSUME Typed, Typed', Buckets, UnracedInv, NEW t \in Threads,
         Call(t) \/ (PublishBucket(t) /\ MyBucket(t) = Null) \/ Running(t)
  PROVE  Abstract!Remember
<1>1. Missed' \in [Threads -> BOOLEAN]
  BY DEF Missed
<1>. QED
  BY <1>1, MissedStep DEF Abstract!Remember, Busy

\* The compare-exchange of a remove takes effect where it succeeds; where it
\* fails the key was missed.
LEMMA RefineRemoveCas ==
  ASSUME Typed, Typed', Buckets, UnracedInv, raced = FALSE, raced' = FALSE, NEW t \in Threads,
         LeafRemoveCas(t)
  PROVE  [Abstract!Next]_Abstract!vars
<1>1. /\ pc \in [Threads -> Labels] /\ op[t] = "remove" /\ pc[t] = "leaf_remove_cas"
      /\ InLeaf(t) /\ Busy[t]
  BY DEF Typed, Labelled, AtItsCall, InRemove, LeafRemoveCas, InLeaf, Busy
<1>2. Abstract!Remember
  BY RemembersStep DEF Running
<1>3. Loads(t) = {Held[key[t]]}
  BY <1>1, LoadsHeld
<1>4. ASSUME NEW a, Return(t, a)
      PROVE  /\ Busy' = [Busy EXCEPT ![t] = FALSE] /\ result' = [result EXCEPT ![t] = a]
             /\ UNCHANGED <<op, key>>
  BY <1>1, <1>4 DEF Return, Goto, Busy
<1>5. SUFFICES Abstract!Remove(t)
  BY <1>2, <1>5 DEF Abstract!Next
<1>6. ASSUME pValue[t] \in Loads(t), Store(t, Null), bucket' = bucket,
             liveValues' = liveValues \ {pValue[t]}, Return(t, TRUE)
      PROVE  Abstract!Remove(t)
  <2>1. Held[key[t]] = pValue[t] /\ pValue[t] # Null
    BY <1>1, <1>3, <1>6, NullAssumption DEF UnracedInv, FoundIsValue
  <2>2. Held' = [Held EXCEPT ![key[t]] = Null]
    BY <1>1, <1>6, StoreHeld
  <2>3. t \notin Makers /\ t \notin Makers'
    BY <1>1, <1>6 DEF Makers, Return, Goto
  <2>4. Deletes(t)
    BY <1>6, <2>1, <2>2, <2>3 DEF Deletes
  <2>5. key[t] \in Present /\ Present' = Present \ {key[t]}
    BY <2>4, PresentEffect DEF UnracedInv
  <2>. QED
    BY <1>1, <1>4, <1>6, <2>5
       DEF Abstract!Remove, Abstract!Mine, Abstract!Absent, Abstract!Answer, Busy
<1>7. ASSUME Loads(t) # {pValue[t]}, Return(t, FALSE), UNCHANGED heap
      PROVE  Abstract!Remove(t)
  <2>1. Present' = Present
    BY <1>7, HeldStays DEF Present, heap
  <2>2. Missed[t]
    BY <1>1, <1>3, <1>7 DEF Missed
  <2>. QED
    BY <1>1, <1>4, <1>7, <2>1, <2>2
       DEF Abstract!Remove, Abstract!Mine, Abstract!Absent, Abstract!Answer, Busy
<1>. QED
  BY <1>6, <1>7 DEF LeafRemoveCas

\* Any other step of a thread, until the race is lost, is a step of the key store or
\* changes nothing that the store has.
LEMMA RefineThread ==
  ASSUME Typed, Typed', Buckets, UnracedInv, raced = FALSE, raced' = FALSE, NEW t \in Threads,
         Call(t) \/ (PublishBucket(t) /\ MyBucket(t) = Null) \/ Running(t),
         pc[t] # "leaf_remove_cas"
  PROVE  [Abstract!Next]_Abstract!vars
<1>. DEFINE Same == Present' = Present /\ Busy' = Busy /\ UNCHANGED <<op, key, result>>
            Done(a) == /\ Busy[t] /\ Busy' = [Busy EXCEPT ![t] = FALSE]
                       /\ result' = [result EXCEPT ![t] = a] /\ UNCHANGED <<op, key>>
<1>1. ASSUME Same PROVE [Abstract!Next]_Abstract!vars
  BY <1>1, MissedStep DEF Abstract!vars, Busy
<1>2. ASSUME Abstract!Call(t) \/ Abstract!Insert(t) \/ Abstract!Remove(t) \/ Abstract!Exists(t)
             \/ Abstract!Index(t)
      PROVE  [Abstract!Next]_Abstract!vars
  BY <1>2, RemembersStep DEF Abstract!Next
<1>3. pc \in [Threads -> Labels] /\ AtItsCall(pc[t], op[t]) /\ key[t] \in Keys
  BY DEF Typed, Labelled, LocalsTyped
<1>4. ASSUME NEW a, Return(t, a), pc[t] # "idle" PROVE Done(a)
  BY <1>3, <1>4 DEF Return, Goto, Busy
<1>5. ASSUME NEW label, Continue(t, label), label # "idle", pc[t] # "idle"
      PROVE  Busy' = Busy /\ UNCHANGED <<op, key, result>>
  BY <1>3, <1>5 DEF Continue, Goto, Busy
<1>6. ASSUME NEW a, ReturnInsert(t, a), pc[t] # "idle"
      PROVE  \/ op[t] = "insert" /\ Done(a)
             \/ op[t] = "index" /\ Busy' = Busy /\ UNCHANGED <<op, key, result>>
  <2>1. CASE op[t] = "insert"
    BY <1>4, <1>6, <2>1 DEF ReturnInsert
  <2>2. CASE op[t] = "index"
    BY <1>3, <1>6, <2>2 DEF ReturnInsert, Goto, Busy
  <2>. QED
    BY <1>6, <2>1, <2>2 DEF ReturnInsert
<1>. DEFINE Here == key[t] \in Present
<1>7. ASSUME op[t] = "insert", Done(~Here), Present' = Present \cup {key[t]} PROVE Abstract!Insert(t)
  BY <1>7 DEF Abstract!Insert, Abstract!Mine, Abstract!Absent, Abstract!Add, Abstract!Answer, Busy
<1>8. ASSUME op[t] = "remove",
             ~Here, Present' = Present, Done(FALSE)
      PROVE  Abstract!Remove(t)
  BY <1>8 DEF Abstract!Remove, Abstract!Mine, Abstract!Absent, Abstract!Answer, Busy
<1>9. ASSUME op[t] = "exists", Present' = Present, Done(Here) PROVE Abstract!Exists(t)
  BY <1>9 DEF Abstract!Exists, Abstract!Mine, Abstract!Absent, Abstract!Answer, Busy
<1>10. ASSUME op[t] = "index",
              \/ /\ Present' = Present \cup {key[t]} /\ Busy[t] /\ Busy' = Busy
                 /\ UNCHANGED <<op, key, result>>
              \/ Present' = Present \cup {key[t]} /\ Done(TRUE)
       PROVE  Abstract!Index(t)
  BY <1>10 DEF Abstract!Index, Abstract!Mine, Abstract!Add, Abstract!Answer, Busy
<1>11. /\ Keeps(t) \/ Makes(t) \/ Drops(t) => Present' = Present
       /\ Links(t) => ~Here /\ Present' = Present \cup {key[t]}
       /\ Drops(t) => Here
       /\ Deletes(t) => Here /\ Present' = Present \ {key[t]}
  BY PresentEffect DEF UnracedInv
<1>12. Here <=> Held[key[t]] # Null
  BY <1>3 DEF Present
<1>13. Busy[t] <=> pc[t] # "idle"
  BY DEF Busy
\* The root.
<1>14. CASE Call(t)
  <2>1. Present' = Present /\ ~Busy[t]
    BY <1>11, <1>13, <1>14, RootKeeps DEF Call
  <2>2. Busy' = [Busy EXCEPT ![t] = TRUE]
    BY <1>3, <1>14, OperationsAssumption DEF Call, Goto, Busy
  <2>. QED
    BY <1>2, <1>14, <2>1, <2>2 DEF Call, Abstract!Call, Busy
<1>15. CASE PublishBucket(t) /\ MyBucket(t) = Null
  <2>1. Present' = Present
    BY <1>11, <1>15, RootKeeps DEF Keeps
  <2>. QED
    BY <1>1, <1>5, <1>15, <2>1 DEF PublishBucket
<1>16. ASSUME InsertRoot(t) \/ RemoveRoot(t) \/ ExistsRoot(t) \/ IndexRoot(t) \/ IndexReload(t)
       PROVE  Present' = Present
  BY <1>11, <1>16, RootKeeps
<1>17. ASSUME NEW label, FoundBucket(t, label), label # "idle", pc[t] # "idle", Present' = Present
       PROVE  [Abstract!Next]_Abstract!vars
  BY <1>1, <1>5, <1>17 DEF FoundBucket
<1>18. CASE InsertRoot(t)
  BY <1>1, <1>5, <1>16, <1>17, <1>18 DEF InsertRoot
<1>19. CASE IndexRoot(t) \/ IndexReload(t)
  BY <1>1, <1>5, <1>16, <1>17, <1>19 DEF IndexRoot, IndexReload
<1>20. CASE RemoveRoot(t)
  <2>1. pc[t] = "remove" /\ op[t] = "remove"
    BY <1>3, <1>20 DEF RemoveRoot, FindRoot, AtItsCall, InRemove
  <2>2. CASE MyBucket(t) = Null /\ Return(t, FALSE)
    <3>1. ~Here
      BY <1>3, <1>12, <2>2 DEF Held, MyBucket
    <3>. QED
      BY <1>2, <1>4, <1>8, <1>16, <1>20, <2>1, <2>2, <3>1
  <2>. QED
    BY <1>16, <1>17, <1>20, <2>1, <2>2 DEF RemoveRoot, FindRoot
<1>21. CASE ExistsRoot(t)
  <2>1. pc[t] = "exists" /\ op[t] = "exists"
    BY <1>3, <1>21 DEF ExistsRoot, FindRoot, AtItsCall, InExists
  <2>2. CASE MyBucket(t) = Null /\ Return(t, FALSE)
    <3>1. Here = FALSE
      BY <1>3, <1>12, <2>2 DEF Held, MyBucket
    <3>. QED
      BY <1>2, <1>4, <1>9, <1>16, <1>21, <2>1, <2>2, <3>1
  <2>. QED
    BY <1>16, <1>17, <1>21, <2>1, <2>2 DEF ExistsRoot, FindRoot
\* The leaf.
<1>22. ASSUME InLeaf(t) PROVE Loads(t) = {Held[key[t]]} /\ pc[t] # "idle"
  BY <1>22, LoadsHeld DEF InLeaf
<1>23. ASSUME bucket' = bucket, place' = place PROVE Present' = Present
  BY <1>23, HeldStays DEF Present
<1>24. ASSUME UNCHANGED heap PROVE Present' = Present
  BY <1>23, <1>24 DEF heap
<1>25. ASSUME NEW label, NewValue(t, label), label # "idle", InLeaf(t)
       PROVE  [Abstract!Next]_Abstract!vars
  BY <1>1, <1>5, <1>22, <1>23, <1>25 DEF NewValue
<1>26. CASE LeafInsert(t)
  <2>1. InLeaf(t) /\ pc[t] = "leaf_insert"
    BY <1>26 DEF LeafInsert, InLeaf
  <2>2. CASE NewValue(t, "leaf_insert_cas")
    BY <1>25, <2>1, <2>2
  <2>3. CASE Held[key[t]] # Null /\ ReturnInsert(t, FALSE) /\ UNCHANGED heap
    <3>1. Present' = Present /\ Here = TRUE
      BY <1>12, <1>24, <2>3
    <3>2. Present' = Present \cup {key[t]}
      BY <3>1
    <3>. QED
      BY <1>1, <1>2, <1>6, <1>7, <2>1, <2>3, <3>1, <3>2
  <2>. QED
    BY <1>22, <1>26, <2>1, <2>2, <2>3 DEF LeafInsert
<1>27. CASE LeafInsertCas(t)
  <2>1. InLeaf(t) /\ pc[t] = "leaf_insert_cas" /\ t \in Makers
    BY <1>27 DEF LeafInsertCas, InLeaf, Makers
  <2>2. Links(t) \/ Drops(t)
    BY <1>27, <2>1, LeafEffect, NullAssumption
       DEF LeafInsertCas, Keeps, Makes, Deletes, ReturnInsert, Return, Goto, Makers, Typed, Labelled
  <2>3. CASE LinkValue(t) /\ ReturnInsert(t, TRUE)
    <3>1. Here = FALSE /\ Present' = Present \cup {key[t]}
      BY <1>11, <1>12, <1>22, <2>1, <2>2, <2>3 DEF LinkValue, Drops
    <3>. QED
      BY <1>2, <1>6, <1>7, <1>10, <1>13, <2>1, <2>3, <3>1
  <2>4. CASE DropValue(t) /\ ReturnInsert(t, FALSE)
    <3>1. Here = TRUE /\ Present' = Present
      BY <1>11, <1>12, <1>22, <2>1, <2>2, <2>4 DEF DropValue, Links
    <3>2. Present' = Present \cup {key[t]}
      BY <3>1
    <3>. QED
      BY <1>1, <1>2, <1>6, <1>7, <2>1, <2>4, <3>1, <3>2
  <2>. QED
    BY <1>27, <2>3, <2>4 DEF LeafInsertCas
<1>28. CASE LeafRemove(t)
  <2>1. InLeaf(t) /\ pc[t] = "leaf_remove" /\ op[t] = "remove" /\ Present' = Present
    BY <1>3, <1>24, <1>28 DEF LeafRemove, InLeaf, AtItsCall, InRemove
  <2>2. CASE Held[key[t]] = Null /\ Return(t, FALSE)
    BY <1>2, <1>4, <1>8, <1>12, <2>1, <2>2
  <2>3. CASE Continue(t, "leaf_remove_cas")
    BY <1>1, <1>5, <2>1, <2>3
  <2>. QED
    BY <1>22, <1>28, <2>1, <2>2, <2>3 DEF LeafRemove
<1>29. ~LeafRemoveCas(t)
  BY DEF LeafRemoveCas
<1>30. CASE LeafExists(t)
  <2>1. InLeaf(t) /\ pc[t] = "leaf_exists" /\ op[t] = "exists" /\ Present' = Present
    BY <1>3, <1>24, <1>30 DEF LeafExists, InLeaf, AtItsCall, InExists
  <2>2. Return(t, Held[key[t]] # Null)
    BY <1>22, <1>30, <2>1 DEF LeafExists
  <2>3. Done(Held[key[t]] # Null)
    BY <1>4, <2>1, <2>2
  <2>4. (Held[key[t]] # Null) = Here
    BY <1>12
  <2>. QED
    BY <1>2, <1>9, <2>1, <2>3, <2>4
<1>31. CASE LeafIndexReload(t)
  <2>1. InLeaf(t) /\ pc[t] = "leaf_index_reload" /\ op[t] = "index" /\ Present' = Present
    BY <1>3, <1>24, <1>31 DEF LeafIndexReload, InLeaf, AtItsCall, InIndex
  <2>2. CASE Held[key[t]] # Null /\ Return(t, TRUE)
    <3>1. Present' = Present \cup {key[t]}
      BY <1>12, <2>1, <2>2
    <3>. QED
      BY <1>2, <1>4, <1>10, <2>1, <2>2, <3>1
  <2>3. CASE Continue(t, "asserted")
    BY <1>1, <1>5, <2>1, <2>3
  <2>. QED
    BY <1>22, <1>31, <2>1, <2>2, <2>3 DEF LeafIndexReload
<1>32. CASE LeafIndex(t)
  <2>1. InLeaf(t) /\ pc[t] = "leaf_index" /\ op[t] = "index"
    BY <1>3, <1>32 DEF LeafIndex, InLeaf, AtItsCall, InIndex
  <2>2. CASE NewValue(t, "leaf_index_cas")
    BY <1>25, <2>1, <2>2
  <2>3. CASE Held[key[t]] # Null /\ Return(t, TRUE) /\ UNCHANGED heap
    <3>1. Present' = Present /\ Here = TRUE
      BY <1>12, <1>24, <2>3
    <3>. QED
      BY <1>2, <1>4, <1>10, <2>1, <2>3, <3>1
  <2>. QED
    BY <1>22, <1>32, <2>1, <2>2, <2>3 DEF LeafIndex
<1>33. CASE LeafIndexCas(t)
  <2>1. InLeaf(t) /\ pc[t] = "leaf_index_cas" /\ op[t] = "index" /\ t \in Makers
    BY <1>3, <1>33 DEF LeafIndexCas, InLeaf, Makers, AtItsCall, InIndex
  <2>2. Links(t) \/ Drops(t)
    BY <1>33, <2>1, LeafEffect, NullAssumption
       DEF LeafIndexCas, Keeps, Makes, Deletes, Return, Continue, Goto, Makers, Typed, Labelled
  <2>3. CASE LinkValue(t) /\ Return(t, TRUE)
    <3>1. Present' = Present \cup {key[t]}
      BY <1>11, <1>12, <1>22, <2>1, <2>2, <2>3 DEF LinkValue, Drops
    <3>. QED
      BY <1>2, <1>4, <1>10, <2>1, <2>3, <3>1
  <2>4. CASE DropValue(t) /\ Continue(t, "leaf_index_reload")
    <3>1. Present' = Present
      BY <1>11, <1>12, <1>22, <2>1, <2>2, <2>4 DEF DropValue, Links
    <3>. QED
      BY <1>1, <1>5, <2>1, <2>4, <3>1
  <2>. QED
    BY <1>33, <2>3, <2>4 DEF LeafIndexCas
<1>. QED
  BY <1>14, <1>15, <1>18, <1>19, <1>20, <1>21, <1>26, <1>27, <1>28, <1>29, <1>30, <1>31,
     <1>32, <1>33 DEF Running

LEMMA RefineStep == MapInv /\ MapInv' /\ [Next]_vars => [Abstract!Next]_Abstract!vars
<1>. SUFFICES ASSUME MapInv, MapInv', [Next]_vars PROVE [Abstract!Next]_Abstract!vars
  OBVIOUS
<1>1. raced \in BOOLEAN /\ raced' \in BOOLEAN /\ Typed /\ Typed' /\ Buckets
  BY DEF MapInv, Typed, LocalsTyped
<1>2. CASE raced' = TRUE
  BY <1>2 DEF Abstract!Next
<1>3. CASE raced' = FALSE
  <2>1. raced = FALSE
    BY <1>1, <1>3, Zenon DEF Next, Destroy, PublishBucket, vars
  <2>2. UnracedInv
    BY <2>1 DEF MapInv
  <2>3. CASE UNCHANGED vars
    <3>1. Present' = Present /\ Missed' = Missed
      BY <2>3 DEF vars, heap, Present, Missed, Held
    <3>. QED
      BY <2>3, <3>1 DEF vars, Abstract!vars
  <2>4. CASE Destroy
    <3>1. Present' = {}
      BY <2>4 DEF Destroy, Present, Held, Keys
    <3>2. Abstract!Clear
      BY <2>4, <3>1 DEF Destroy, Abstract!Clear
    <3>3. Abstract!Remember
      BY <2>4 DEF Destroy, Abstract!Remember, Missed
    <3>. QED
      BY <1>3, <2>1, <3>2, <3>3 DEF Abstract!Next
  <2>5. ASSUME NEW t \in Threads, PublishBucket(t) PROVE MyBucket(t) = Null
    BY <1>3, <2>5 DEF PublishBucket
  <2>6. ASSUME NEW t \in Threads, LeafRemoveCas(t) PROVE [Abstract!Next]_Abstract!vars
    BY <1>1, <1>3, <2>1, <2>2, <2>6, RefineRemoveCas
  <2>7. ASSUME NEW t \in Threads, pc[t] = "leaf_remove_cas",
               Call(t) \/ (PublishBucket(t) /\ MyBucket(t) = Null) \/ Running(t)
        PROVE  LeafRemoveCas(t)
    BY <2>7 DEF Running, Call, PublishBucket, InsertRoot, RemoveRoot, ExistsRoot, FindRoot,
                IndexRoot, IndexReload, LeafInsert, LeafInsertCas, LeafRemove, LeafExists,
                LeafIndex, LeafIndexCas, LeafIndexReload
  <2>. QED
    BY <1>1, <1>3, <2>1, <2>2, <2>3, <2>4, <2>5, <2>6, <2>7, RefineThread DEF Next
<1>. QED
  BY <1>1, <1>2, <1>3

\* Until a race to publish is lost, every call that returns takes effect as one
\* of the store of keys does, with its answer: no remove answers FALSE unless
\* its key was absent at some moment of the call, and no operator[] returns
\* without a value.  That operator[] returns at all where a remove runs beside
\* it is not said, and not so: the run HashMap_index shows its assertion fail.
THEOREM MapRefinement == Spec => ImplementsKeyStore
BY RefineInit, RefineStep, MapInvariance, PTL DEF Spec, ImplementsKeyStore, Abstract!Spec

=============================================================================
