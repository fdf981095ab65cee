------------------------------- MODULE HashMap -------------------------------
(***************************************************************************)
(* xtd::concurrent::hash_map (hash_map.hpp): a trie of buckets indexed by  *)
(* the nibbles of the key, with an atomic pointer in every place.  Two     *)
(* levels are modelled, the root and its leaf buckets; the levels between  *)
(* run the root's code.  A key is a pair: the nibble that selects the      *)
(* root's bucket and the nibble that selects the place in the leaf.        *)
(*                                                                         *)
(* Leaf buckets and values are heap objects, known by address.  Addresses  *)
(* of values are reused freely.  The address of a leaf bucket that was     *)
(* deleted is not given out again while a thread still uses it, so that    *)
(* such a use can be told; what it reads there is undefined.               *)
(***************************************************************************)
EXTENDS Naturals, FiniteSets

CONSTANTS
  Threads,
  Nibbles,       \* 0..15 in the code
  Leaves,        \* addresses of leaf buckets
  Values,        \* addresses of values
  Null,
  Operations     \* the calls the threads make

ASSUME OperationsAssumption == Operations \subseteq {"insert", "remove", "exists", "index"}
ASSUME NullAssumption == Null \notin Leaves \cup Values
ASSUME NibblesAssumption == Nibbles # {}

Keys == Nibbles \X Nibbles

VARIABLES
  bucket,       \* the root's _Buckets
  place,        \* _Values of every leaf bucket
  liveLeaves,   \* leaf buckets that are allocated
  liveValues,   \* values that are allocated
  pc,           \* the next step of each thread
  op, key,      \* the last call of each thread and its argument
  pChild,       \* the leaf bucket it works on
  pValue,       \* the value it has made (insert, index) or found (remove)
  result,       \* what its last call returned, TRUE for operator[]
  raced         \* whether a thread has lost the race to publish a bucket (a
                \* history variable: the code keeps no such thing)

heap == <<bucket, place, liveLeaves, liveValues>>
vars == <<heap, pc, op, key, pChild, pValue, result, raced>>

Init ==
  /\ bucket = [i \in Nibbles |-> Null]
  /\ liveLeaves = {}
  /\ place = [leaf \in Leaves |-> [i \in Nibbles |-> Null]]
  /\ liveValues = {}
  /\ pc = [t \in Threads |-> "idle"]
  /\ op = [t \in Threads |-> "none"]
  /\ key \in [Threads -> {CHOOSE k \in Keys : TRUE}]
  /\ pChild = [t \in Threads |-> Null]
  /\ pValue = [t \in Threads |-> Null]
  /\ result = [t \in Threads |-> FALSE]
  /\ raced = FALSE

Goto(t, label) == pc' = [pc EXCEPT ![t] = label]
SetChild(t, leaf) == pChild' = [pChild EXCEPT ![t] = leaf]
SetValue(t, v) == pValue' = [pValue EXCEPT ![t] = v]

\* A call returns to its caller: its locals go out of scope.
Return(t, r) ==
  /\ Goto(t, "idle")
  /\ result' = [result EXCEPT ![t] = r]
  /\ SetChild(t, Null)
  /\ SetValue(t, Null)
  /\ UNCHANGED <<op, key>>

\* insert returns r, to the client or to the operator[] that called it.
ReturnInsert(t, r) ==
  \/ op[t] = "insert" /\ Return(t, r)
  \/ /\ op[t] = "index"
     /\ Goto(t, "index_reload")
     /\ SetChild(t, Null)
     /\ SetValue(t, Null)
     /\ UNCHANGED <<op, key, result>>

\* The thread goes on to another step of the same call.
Continue(t, label) == Goto(t, label) /\ UNCHANGED <<op, key, result>>

-----------------------------------------------------------------------------
(* The root *)

Call(t) ==
  /\ pc[t] = "idle"
  /\ \E o \in Operations, k \in Keys :
       /\ op' = [op EXCEPT ![t] = o]
       /\ key' = [key EXCEPT ![t] = k]
       /\ Goto(t, o)
  /\ result' = [result EXCEPT ![t] = FALSE]
  /\ UNCHANGED <<heap, pChild, pValue>>

MyBucket(t) == bucket[key[t][1]]

FoundBucket(t, label) ==
  /\ MyBucket(t) # Null
  /\ SetChild(t, MyBucket(t))
  /\ Continue(t, label)
  /\ UNCHANGED pValue

\* insert makes the bucket it does not find.
InsertRoot(t) ==
  /\ pc[t] \in {"insert", "index_insert"}
  /\ \/ FoundBucket(t, "leaf_insert") /\ UNCHANGED heap
     \/ /\ MyBucket(t) = Null
        /\ \E leaf \in Leaves \ (liveLeaves \cup {pChild[u] : u \in Threads}) :
             /\ SetChild(t, leaf)
             /\ liveLeaves' = liveLeaves \cup {leaf}
             /\ place' = [place EXCEPT ![leaf] = [i \in Nibbles |-> Null]]
        /\ Continue(t, "publish")
        /\ UNCHANGED <<bucket, liveValues, pValue>>

\* Mutant: the loser keeps its bucket allocated.
PublishBucketLeaks(t) ==
  /\ pc[t] = "publish"
  /\ \/ /\ MyBucket(t) = Null
        /\ bucket' = [bucket EXCEPT ![key[t][1]] = pChild[t]]
        /\ UNCHANGED raced
     \/ MyBucket(t) # Null /\ raced' = TRUE /\ UNCHANGED bucket
  /\ Continue(t, "leaf_insert")
  /\ UNCHANGED <<place, liveLeaves, liveValues, pChild, pValue>>

\* The compare-exchange that publishes the new bucket.  The loser deletes its
\* own bucket, and goes on to insert into it.
PublishBucket(t) ==
  /\ pc[t] = "publish"
  /\ \/ /\ MyBucket(t) = Null
        /\ bucket' = [bucket EXCEPT ![key[t][1]] = pChild[t]]
        /\ UNCHANGED <<liveLeaves, raced>>
     \/ /\ MyBucket(t) # Null
        /\ liveLeaves' = liveLeaves \ {pChild[t]}
        /\ raced' = TRUE
        /\ UNCHANGED bucket
  /\ Continue(t, "leaf_insert")
  /\ UNCHANGED <<place, liveValues, pChild, pValue>>

\* remove and exists give up when there is no bucket.
FindRoot(t, name, label) ==
  /\ pc[t] = name
  /\ \/ FoundBucket(t, label)
     \/ MyBucket(t) = Null /\ Return(t, FALSE)
  /\ UNCHANGED heap

RemoveRoot(t) == FindRoot(t, "remove", "leaf_remove")
ExistsRoot(t) == FindRoot(t, "exists", "leaf_exists")

\* operator[] inserts a default value when there is no bucket, then loads the
\* bucket again.
IndexRoot(t) ==
  /\ pc[t] = "index"
  /\ \/ FoundBucket(t, "leaf_index")
     \/ MyBucket(t) = Null /\ Continue(t, "index_insert") /\ UNCHANGED <<pChild, pValue>>
  /\ UNCHANGED heap

IndexReload(t) ==
  /\ pc[t] = "index_reload"
  /\ FoundBucket(t, "leaf_index")
  /\ UNCHANGED heap

-----------------------------------------------------------------------------
(* The leaf *)

\* What a load of the place may give: its value, or anything at all once the
\* bucket has been deleted.
Loads(t) ==
  IF pChild[t] \in liveLeaves THEN {place[pChild[t]][key[t][2]]} ELSE Values \cup {Null}

Store(t, v) == place' = [place EXCEPT ![pChild[t]][key[t][2]] = v]

\* new value_type, kept in a local until a compare-exchange links it.
NewValue(t, label) ==
  /\ \E v \in Values \ liveValues :
       SetValue(t, v) /\ liveValues' = liveValues \cup {v}
  /\ Continue(t, label)
  /\ UNCHANGED <<bucket, place, liveLeaves, pChild>>

LeafInsert(t) ==
  /\ pc[t] = "leaf_insert"
  /\ \E v \in Loads(t) :
       \/ v # Null /\ ReturnInsert(t, FALSE) /\ UNCHANGED heap
       \/ v = Null /\ NewValue(t, "leaf_insert_cas")

\* Mutant: a store where the code compares and exchanges.
LinkValueBlindly(t) ==
  /\ Store(t, pValue[t])
  /\ UNCHANGED <<bucket, liveLeaves, liveValues>>

LinkValue(t) ==
  /\ Null \in Loads(t)
  /\ Store(t, pValue[t])
  /\ UNCHANGED <<bucket, liveLeaves, liveValues>>

\* Mutant: the value that was not linked is not deleted.
DropValueLeaks(t) == Loads(t) # {Null} /\ UNCHANGED heap

DropValue(t) ==
  /\ Loads(t) # {Null}
  /\ liveValues' = liveValues \ {pValue[t]}
  /\ UNCHANGED <<bucket, place, liveLeaves>>

LeafInsertCas(t) ==
  /\ pc[t] = "leaf_insert_cas"
  /\ \/ LinkValue(t) /\ ReturnInsert(t, TRUE)
     \/ DropValue(t) /\ ReturnInsert(t, FALSE)

LeafRemove(t) ==
  /\ pc[t] = "leaf_remove"
  /\ \E v \in Loads(t) :
       \/ v = Null /\ Return(t, FALSE)
       \/ v # Null /\ SetValue(t, v) /\ Continue(t, "leaf_remove_cas") /\ UNCHANGED pChild
  /\ UNCHANGED heap

\* The place may meanwhile hold another value, or another one at the same
\* address: the compare-exchange tells addresses only.
LeafRemoveCas(t) ==
  /\ pc[t] = "leaf_remove_cas"
  /\ \/ /\ pValue[t] \in Loads(t)
        /\ Store(t, Null)
        /\ liveValues' = liveValues \ {pValue[t]}
        /\ UNCHANGED <<bucket, liveLeaves>>
        /\ Return(t, TRUE)
     \/ Loads(t) # {pValue[t]} /\ Return(t, FALSE) /\ UNCHANGED heap

LeafExists(t) ==
  /\ pc[t] = "leaf_exists"
  /\ \E v \in Loads(t) : Return(t, v # Null)
  /\ UNCHANGED heap

LeafIndex(t) ==
  /\ pc[t] = "leaf_index"
  /\ \E v \in Loads(t) :
       \/ v # Null /\ Return(t, TRUE) /\ UNCHANGED heap
       \/ v = Null /\ NewValue(t, "leaf_index_cas")

LeafIndexCas(t) ==
  /\ pc[t] = "leaf_index_cas"
  /\ \/ LinkValue(t) /\ Return(t, TRUE)
     \/ /\ DropValue(t)
        /\ SetValue(t, Null)
        /\ Continue(t, "leaf_index_reload")
        /\ UNCHANGED pChild

\* After losing, operator[] refers to whatever it loads now.  Without a value
\* its assertion fails: the program ends there, or goes on with a reference to
\* nothing where assertions are compiled out.  The call never returns here.
LeafIndexReload(t) ==
  /\ pc[t] = "leaf_index_reload"
  /\ \E v \in Loads(t) :
       \/ v # Null /\ Return(t, TRUE)
       \/ v = Null /\ Continue(t, "asserted") /\ UNCHANGED <<pChild, pValue>>
  /\ UNCHANGED heap

\* ~hash_map deletes every bucket and every value; the emptied map stands for
\* a new one.  Nobody is inside a call.
Reachable == {bucket[i] : i \in Nibbles} \ {Null}
Linked == {place[leaf][i] : leaf \in Reachable, i \in Nibbles} \ {Null}

Destroy ==
  /\ \A t \in Threads : pc[t] = "idle"
  /\ Reachable # {}
  /\ bucket' = [i \in Nibbles |-> Null]
  /\ place' = [leaf \in Leaves |-> [i \in Nibbles |-> Null]]
  /\ liveLeaves' = liveLeaves \ Reachable
  /\ liveValues' = liveValues \ Linked
  /\ UNCHANGED <<pc, op, key, pChild, pValue, result, raced>>

-----------------------------------------------------------------------------

Running(t) ==
  \/ InsertRoot(t) \/ RemoveRoot(t) \/ ExistsRoot(t) \/ IndexRoot(t) \/ IndexReload(t)
  \/ LeafInsert(t) \/ LeafInsertCas(t) \/ LeafRemove(t) \/ LeafRemoveCas(t)
  \/ LeafExists(t) \/ LeafIndex(t) \/ LeafIndexCas(t) \/ LeafIndexReload(t)

Next ==
  \/ Destroy
  \/ \E t \in Threads :
       \/ PublishBucket(t)
       \/ (Call(t) \/ Running(t)) /\ UNCHANGED raced

Spec == Init /\ [][Next]_vars

-----------------------------------------------------------------------------
(* Properties *)

\* The type invariant.
TypeOK ==
  /\ bucket \in [Nibbles -> Leaves \cup {Null}]
  /\ place \in [Leaves -> [Nibbles -> Values \cup {Null}]]
  /\ liveLeaves \subseteq Leaves /\ liveValues \subseteq Values
  /\ op \in [Threads -> Operations \cup {"none"}]
  /\ key \in [Threads -> Keys]
  /\ pChild \in [Threads -> Leaves \cup {Null}]
  /\ pValue \in [Threads -> Values \cup {Null}]
  /\ result \in [Threads -> BOOLEAN] /\ raced \in BOOLEAN

InLeaf(t) == pc[t] \in {"leaf_insert", "leaf_insert_cas", "leaf_remove", "leaf_remove_cas",
                        "leaf_exists", "leaf_index", "leaf_index_cas", "leaf_index_reload"}

\* Nobody works in a bucket that has been deleted: "insertion and removal from
\* multiple threads is safe" (hash_map.hpp:120).
NoUseOfDeletedBucket ==
  \A t \in Threads : InLeaf(t) => pChild[t] \in liveLeaves

\* Losing the race to publish leaks no bucket and frees no published one.
BucketsAccounted ==
  liveLeaves = Reachable \cup {pChild[t] : t \in {u \in Threads : pc[u] = "publish"}}

\* Until a thread loses that race, no value leaks, none is deleted while it is
\* linked, and no two places share one: a value is linked in one place or is
\* still its maker's.
Makers == {t \in Threads : pc[t] \in {"leaf_insert_cas", "leaf_index_cas"}}
ValuesAccounted ==
  ~raced =>
    /\ liveValues = Linked \cup {pValue[t] : t \in Makers}
    /\ \A t \in Makers : pValue[t] \notin Linked
    /\ \A t, u \in Makers : pValue[t] = pValue[u] => t = u
    /\ \A i, j, m, n \in Nibbles :
         bucket[i] # Null /\ bucket[m] # Null /\ <<i, j>> # <<m, n>>
           => \/ place[bucket[i]][j] # place[bucket[m]][n]
              \/ place[bucket[i]][j] = Null

\* The value of each key, and the keys that are in the map.
Held == [k \in Keys |-> IF bucket[k[1]] = Null THEN Null ELSE place[bucket[k[1]]][k[2]]]
Present == {k \in Keys : Held[k] # Null}

\* A remove that loaded a value which its place holds no more: the value has
\* been removed since.
Missed == [t \in Threads |-> pc[t] = "leaf_remove_cas" /\ Held[key[t]] # pValue[t]]

\* operator[] has a value when it returns: XTD_ASSERT(pRet) (hash_map.hpp:378).
IndexHasAValue == \A t \in Threads : pc[t] # "asserted"

\* Until that race is lost, the map implements the abstract key store: every
\* call that returns takes effect at one moment between its beginning and its
\* end, and its answer is true of the map there.  In particular a remove that
\* answers FALSE has seen, or been overtaken by, the key's absence, and no
\* operator[] returns without a value.
Abstract == INSTANCE KeyStore
  WITH present <- Present, busy <- [t \in Threads |-> pc[t] # "idle"], missed <- Missed,
       failed <- raced
ImplementsKeyStore == Abstract!Spec
==============================================================================
