-------------------------------- MODULE BTree --------------------------------
(***************************************************************************)
(* xtd::btree (btree.hpp): a B+ tree on the pages of a memory-mapped file. *)
(*                                                                         *)
(* The whole file is one value, the store: the header of page 0, the pages *)
(* and the length of the file.  An operation of the class is one action,   *)
(* whose effect is the translation of the code as a function from stores   *)
(* to stores; the recursion of the code is recursion here.                 *)
(*                                                                         *)
(* Only the appending of a page can fail.  A call may append `budget' pages*)
(* and throws when it needs one more; what it has written by then stays,   *)
(* for the pages are mapped.                                               *)
(***************************************************************************)
EXTENDS Integers, Sequences, FiniteSets, SequencesExt

CONSTANTS
  Keys,       \* a set of integers
  Values,
  Default,    \* mapped_type{}
  Absent,     \* what a lookup of an absent key finds
  Order,      \* order: the most records of a leaf and keys of a branch
  Pairs,      \* the keys and values that the clients pass together
  MaxSince    \* bound: how many calls are made from the first that throws on

ASSUME KeysAssumption == Keys \subseteq Int /\ IsFiniteSet(Keys)
ASSUME ValuesAssumption == Default \in Values /\ Absent \notin Values
ASSUME PairsAssumption == Pairs \subseteq Keys \X Values
ASSUME OrderAssumption == Order \in Nat /\ Order >= 2 /\ MaxSince \in Nat

VARIABLES
  store,    \* the file
  answer,   \* what the last operation returned
  since     \* calls made since one threw, that one included; 0 while none has

vars == <<store, answer, since>>

\* No insertion appends more pages than this (bound: one per level, and keys
\* are few); a call with this budget does not fail.
Plenty == Cardinality(Keys) + 1

\* The constructor on a new file: page 0 is the header.
Init ==
  /\ store = [root |-> 0, first |-> 0, count |-> 0, height |-> 0,
              freeHead |-> 0, freeCount |-> 0,
              page |-> <<>>,       \* page number -> node, for pages 1 and up
              file |-> 1,          \* pages in the file
              budget |-> 0]
  /\ answer = Absent
  /\ since = 0

Leaf(recs, next, prev) == [type |-> "leaf", recs |-> recs, next |-> next, prev |-> prev]
Branch(keys, children) == [type |-> "branch", keys |-> keys, children |-> children]
FreePage(next) == [type |-> "free", next |-> next]

IsLeaf(s, idx) == s.page[idx].type = "leaf"
IsBranch(s, idx) == s.page[idx].type = "branch"

Write(s, idx, node) == [s EXCEPT !.page = (idx :> node) @@ @]

-----------------------------------------------------------------------------
(* Pages: allocate_raw, the append of mapped_file, free_page_at. *)

\* mapped_file::append (the Windows one) numbers the new page
\* (size + page_size) / page_size, one past the first page after the end.
Alloc(s) ==
  IF s.freeHead # 0
  THEN [ok |-> TRUE, idx |-> s.freeHead,
        s |-> [s EXCEPT !.freeHead = s.page[s.freeHead].next, !.freeCount = @ - 1]]
  ELSE IF s.budget > 0
  THEN [ok |-> TRUE, idx |-> s.file + 1,
        s |-> [s EXCEPT !.file = s.file + 2, !.budget = @ - 1]]
  ELSE [ok |-> FALSE, idx |-> 0, s |-> s]

FreePageAt(s, idx) ==
  [Write(s, idx, FreePage(s.freeHead)) EXCEPT !.freeHead = idx, !.freeCount = @ + 1]

-----------------------------------------------------------------------------
(* Search.  Positions are 0-based as in the code. *)

KeysOf(recs) == [i \in 1 .. Len(recs) |-> recs[i].key]

\* Mutant: the first record whose key is greater than k.
UpperBound(keys, k) == Cardinality({i \in DOMAIN keys : keys[i] <= k})

\* The binary search of lower_bound_leaf: the first record whose key is not
\* less than k.
LowerBound(keys, k) ==
  LET n == Len(keys)
      search[lo \in 0 .. n, hi \in 0 .. n] ==
        IF lo >= hi THEN lo
        ELSE LET mid == lo + (hi - lo) \div 2 IN
               IF keys[mid + 1] < k THEN search[mid + 1, hi] ELSE search[lo, mid]
  IN search[0, n]

\* Mutant: a key equal to a separator is looked for on its left.
ChildIndexLeft(keys, k) == Cardinality({i \in DOMAIN keys : keys[i] < k})

\* The binary search of child_index: the child whose subtree must hold k.
ChildIndex(keys, k) ==
  LET n == Len(keys)
      search[lo \in 0 .. n, hi \in 0 .. n] ==
        IF lo >= hi THEN lo
        ELSE LET mid == lo + (hi - lo) \div 2 IN
               IF k < keys[mid + 1] THEN search[lo, mid] ELSE search[mid + 1, hi]
  IN search[0, n]

Holds(recs, pos, k) == pos < Len(recs) /\ recs[pos + 1].key = k

\* find_leaf: the leaf that would hold k, or 0.
FindLeaf(s, k) ==
  LET down[idx \in DOMAIN s.page \cup {0}] ==
        IF idx # 0 /\ IsBranch(s, idx)
        THEN down[s.page[idx].children[ChildIndex(s.page[idx].keys, k) + 1]]
        ELSE idx
  IN down[s.root]

\* find_value (and find, at, contains, which look in the same place).
FindValue(s, k) ==
  LET idx == FindLeaf(s, k) IN
    IF idx = 0 THEN Absent
    ELSE LET recs == s.page[idx].recs
             pos == LowerBound(KeysOf(recs), k)
         IN IF Holds(recs, pos, k) THEN recs[pos + 1].value ELSE Absent

-----------------------------------------------------------------------------
(* Insertion.  A visit of a node gives the new store and the insert_result; *)
(* `ok' is FALSE when it throws.                                            *)

Visited(s, inserted) ==
  [s |-> s, ok |-> TRUE, inserted |-> inserted, split |-> FALSE, promo |-> 0, right |-> 0]
HasSplit(s, promo, right) ==
  [s |-> s, ok |-> TRUE, inserted |-> TRUE, split |-> TRUE, promo |-> promo, right |-> right]
Thrown(s) == [Visited(s, FALSE) EXCEPT !.ok = FALSE]

LeafInsertAt(recs, rec) == InsertAt(recs, LowerBound(KeysOf(recs), rec.key) + 1, rec)

\* Mutant: the leaf is cut before the right sibling is allocated.
SplitLeafCutFirst(s, idx, rec) ==
  LET leaf == s.page[idx]
      mid == Order \div 2
      low == SubSeq(leaf.recs, 1, mid)
      a == Alloc([s EXCEPT !.page[idx].recs = low])
      right == LeafInsertAt(SubSeq(leaf.recs, mid + 1, Order), rec)
      linked == Write(Write(a.s, idx, Leaf(low, a.idx, leaf.prev)),
                      a.idx, Leaf(right, leaf.next, idx))
  IN IF a.ok THEN HasSplit(linked, right[1].key, a.idx) ELSE Thrown(a.s)

\* The right sibling is allocated before anything is written.
SplitLeaf(s, idx, rec) ==
  LET leaf == s.page[idx]
      mid == Order \div 2
      low == SubSeq(leaf.recs, 1, mid)
      high == SubSeq(leaf.recs, mid + 1, Order)
      goesLow == rec.key < high[1].key
      left == IF goesLow THEN LeafInsertAt(low, rec) ELSE low
      right == IF goesLow THEN high ELSE LeafInsertAt(high, rec)
      a == Alloc(s)
      linked == Write(Write(a.s, idx, Leaf(left, a.idx, leaf.prev)),
                      a.idx, Leaf(right, leaf.next, idx))
      relinked == IF leaf.next = 0 THEN linked
                  ELSE [linked EXCEPT !.page[leaf.next].prev = a.idx]
  IN IF a.ok THEN HasSplit(relinked, right[1].key, a.idx) ELSE Thrown(s)

InsertLeaf(s, idx, rec) ==
  LET recs == s.page[idx].recs
      pos == LowerBound(KeysOf(recs), rec.key)
  IN IF Holds(recs, pos, rec.key) THEN Visited(s, FALSE)
     ELSE IF Len(recs) < Order
     THEN Visited([s EXCEPT !.page[idx].recs = InsertAt(@, pos + 1, rec)], TRUE)
     ELSE SplitLeaf(s, idx, rec)

\* A full branch is cut down to its left half before the right one is
\* allocated.
SplitBranch(s, idx, keys, children) ==
  LET mid == (Order + 1) \div 2
      cut == Write(s, idx, Branch(SubSeq(keys, 1, mid), SubSeq(children, 1, mid + 1)))
      a == Alloc(cut)
      right == Branch(SubSeq(keys, mid + 2, Order + 1), SubSeq(children, mid + 2, Order + 2))
  IN IF a.ok THEN HasSplit(Write(a.s, a.idx, right), keys[mid + 1], a.idx) ELSE Thrown(cut)

\* A branch whose child has split takes the promoted key and the new child.
AdoptChild(s, idx, ci, promo, right) ==
  LET b == s.page[idx]
      keys == InsertAt(b.keys, ci + 1, promo)
      children == InsertAt(b.children, ci + 2, right)
  IN IF Len(b.keys) < Order
     THEN Visited(Write(s, idx, Branch(keys, children)), TRUE)
     ELSE SplitBranch(s, idx, keys, children)

RECURSIVE InsertRec(_, _, _)
InsertRec(s, idx, rec) ==
  IF IsLeaf(s, idx) THEN InsertLeaf(s, idx, rec)
  ELSE LET b == s.page[idx]
           ci == ChildIndex(b.keys, rec.key)
           res == InsertRec(s, b.children[ci + 1], rec)
       IN IF res.split THEN AdoptChild(res.s, idx, ci, res.promo, res.right) ELSE res

\* The first record makes a root leaf.
InsertFirst(s, rec) ==
  LET a == Alloc(s) IN
    IF a.ok
    THEN Visited([Write(a.s, a.idx, Leaf(<<rec>>, 0, 0)) EXCEPT
                    !.root = a.idx, !.first = a.idx, !.height = 1, !.count = 1], TRUE)
    ELSE Thrown(s)

\* Mutant: the header's height is forgotten.
GrowRootKeepsHeight(res) ==
  LET a == Alloc(res.s) IN
    IF a.ok
    THEN Visited([Write(a.s, a.idx, Branch(<<res.promo>>, <<res.s.root, res.right>>)) EXCEPT
                    !.root = a.idx], TRUE)
    ELSE Thrown(res.s)

\* A root that has split gets a new root above it.
GrowRoot(res) ==
  LET a == Alloc(res.s) IN
    IF a.ok
    THEN Visited([Write(a.s, a.idx, Branch(<<res.promo>>, <<res.s.root, res.right>>)) EXCEPT
                    !.root = a.idx, !.height = @ + 1], TRUE)
    ELSE Thrown(res.s)

InsertRecord(s, rec) ==
  IF s.root = 0 THEN InsertFirst(s, rec)
  ELSE LET res == InsertRec(s, s.root, rec)
           top == IF res.split THEN GrowRoot(res) ELSE res
       IN IF top.ok /\ top.inserted THEN [top EXCEPT !.s.count = @ + 1] ELSE top

-----------------------------------------------------------------------------
(* Erasure *)

\* Mutant: the header still names the first leaf.
UnlinkKeepsFirst(s, idx) ==
  LET leaf == s.page[idx]
      before == IF leaf.prev = 0 THEN s ELSE [s EXCEPT !.page[leaf.prev].next = leaf.next]
  IN IF leaf.next = 0 THEN before ELSE [before EXCEPT !.page[leaf.next].prev = leaf.prev]

\* remove_child: unlinks a leaf from the chain, frees the child's page and
\* drops it and a separator from the branch.
Unlink(s, idx) ==
  LET leaf == s.page[idx]
      before == IF leaf.prev = 0 THEN s ELSE [s EXCEPT !.page[leaf.prev].next = leaf.next]
      after == IF leaf.next = 0 THEN before
               ELSE [before EXCEPT !.page[leaf.next].prev = leaf.prev]
  IN IF s.first = idx THEN [after EXCEPT !.first = leaf.next] ELSE after

RemoveChild(s, bidx, ci) ==
  LET b == s.page[bidx]
      child == b.children[ci + 1]
      unlinked == IF IsLeaf(s, child) THEN Unlink(s, child) ELSE s
      n == Len(b.keys)
      rest == IF n = 0 THEN b
              ELSE IF ci = n THEN Branch(SubSeq(b.keys, 1, n - 1), SubSeq(b.children, 1, n))
              ELSE Branch(RemoveAt(b.keys, ci + 1), RemoveAt(b.children, ci + 1))
  IN Write(FreePageAt(unlinked, child), bidx, rest)

RECURSIVE EraseRec(_, _, _)
EraseRec(s, idx, k) ==
  IF IsLeaf(s, idx)
  THEN LET recs == s.page[idx].recs
           pos == LowerBound(KeysOf(recs), k)
       IN IF Holds(recs, pos, k)
          THEN [s |-> [s EXCEPT !.page[idx].recs = RemoveAt(@, pos + 1)],
                erased |-> TRUE, empty |-> Len(recs) = 1]
          ELSE [s |-> s, erased |-> FALSE, empty |-> FALSE]
  ELSE LET b == s.page[idx]
           ci == ChildIndex(b.keys, k)
           res == EraseRec(s, b.children[ci + 1], k)
       IN IF res.erased /\ res.empty
          THEN [s |-> RemoveChild(res.s, idx, ci), erased |-> TRUE, empty |-> b.keys = <<>>]
          ELSE res

\* Mutant: the page of the old root is not freed.
CollapseRootLeaks(s) ==
  IF IsBranch(s, s.root) /\ s.page[s.root].keys = <<>>
  THEN [s EXCEPT !.root = s.page[s.root].children[1], !.height = @ - 1]
  ELSE s

\* A root branch with a single child gives way to it, again and again.
RECURSIVE CollapseRoot(_)
CollapseRoot(s) ==
  IF IsBranch(s, s.root) /\ s.page[s.root].keys = <<>>
  THEN CollapseRoot([FreePageAt(s, s.root) EXCEPT
                       !.root = s.page[s.root].children[1], !.height = @ - 1])
  ELSE s

EraseKey(s, k) ==
  IF s.root = 0 THEN [s |-> s, erased |-> FALSE]
  ELSE LET res == EraseRec(s, s.root, k)
           counted == [res.s EXCEPT !.count = @ - 1]
       IN IF ~res.erased THEN [s |-> s, erased |-> FALSE]
          ELSE IF res.empty
          THEN [s |-> [FreePageAt(counted, s.root) EXCEPT !.root = 0, !.first = 0, !.height = 0],
                erased |-> TRUE]
          ELSE [s |-> CollapseRoot(counted), erased |-> TRUE]

\* free_subtree: the children from left to right, then the node itself.
RECURSIVE FreeSubtree(_, _)
FreeSubtree(s, idx) ==
  IF IsBranch(s, idx)
  THEN FreePageAt(FoldLeft(FreeSubtree, s, s.page[idx].children), idx)
  ELSE FreePageAt(s, idx)

-----------------------------------------------------------------------------
(* The operations of the class *)

Done(s, a) ==
  /\ store' = s
  /\ answer' = a
  /\ since' = IF since = 0 THEN 0 ELSE since + 1

\* A call of insert ends with its answer, or in the exception of an append
\* that failed, which leaves the caller without one.
Outcomes(rec) ==
  {[InsertRecord([store EXCEPT !.budget = b], rec) EXCEPT !.s.budget = 0] : b \in 0 .. Plenty}

DoInsert(rec, a) ==
  \E res \in Outcomes(rec) :
    \/ res.ok /\ Done(res.s, a[res.inserted])
    \/ /\ ~res.ok
       /\ store' = res.s
       /\ answer' = Absent
       /\ since' = since + 1

Bool == [b \in BOOLEAN |-> b]
Found(k) == FindValue(store, k) # Absent

Insert(k, v) == DoInsert([key |-> k, value |-> v], Bool)

Overwrite(k, v) ==
  LET idx == FindLeaf(store, k)
      pos == LowerBound(KeysOf(store.page[idx].recs), k)
  IN Done([store EXCEPT !.page[idx].recs[pos + 1].value = v], TRUE)

Update(k, v) ==
  \/ Found(k) /\ Overwrite(k, v)
  \/ ~Found(k) /\ Done(store, FALSE)

InsertOrAssign(k, v) ==
  \/ Found(k) /\ Overwrite(k, v)
  \/ ~Found(k) /\ DoInsert([key |-> k, value |-> v], [b \in BOOLEAN |-> TRUE])

\* Reading through operator[] inserts the default for an absent key.
Subscript(k) ==
  \/ Found(k) /\ Done(store, FindValue(store, k))
  \/ ~Found(k) /\ DoInsert([key |-> k, value |-> Default], [b \in BOOLEAN |-> Default])

Erase(k) == LET res == EraseKey(store, k) IN Done(res.s, res.erased)

Clear ==
  LET freed == IF store.root = 0 THEN store ELSE FreeSubtree(store, store.root)
  IN Done([freed EXCEPT !.root = 0, !.first = 0, !.count = 0, !.height = 0], TRUE)

Next ==
  /\ since < MaxSince
  /\ \/ \E p \in Pairs : Insert(p[1], p[2]) \/ Update(p[1], p[2]) \/ InsertOrAssign(p[1], p[2])
     \/ \E k \in Keys : Subscript(k) \/ Erase(k)
     \/ Clear

Spec == Init /\ [][Next]_vars

-----------------------------------------------------------------------------
(* Iteration: const_iterator.  An iterator is a leaf and a position in it; *)
(* leaf 0 is end().                                                        *)

End == [leaf |-> 0, pos |-> 0]

\* skip_to_nonempty, from the start of a leaf.  A chain longer than the file
\* has come round; `fuel' ends it.
RECURSIVE StartOf(_, _, _)
StartOf(s, idx, fuel) ==
  IF idx = 0 \/ fuel = 0 THEN End
  ELSE IF s.page[idx].recs # <<>> THEN [leaf |-> idx, pos |-> 0]
  ELSE StartOf(s, s.page[idx].next, fuel - 1)

Begin(s) == IF s.count = 0 \/ s.first = 0 THEN End ELSE StartOf(s, s.first, s.file)

Advance(s, it) ==
  IF it.pos + 1 < Len(s.page[it.leaf].recs) THEN [it EXCEPT !.pos = @ + 1]
  ELSE StartOf(s, s.page[it.leaf].next, s.file)

\* The records an iteration meets.  (`fuel' again: more than every record.)
RECURSIVE ScanFrom(_, _, _)
ScanFrom(s, it, fuel) ==
  IF it = End \/ fuel = 0 THEN <<>>
  ELSE <<s.page[it.leaf].recs[it.pos + 1]>> \o ScanFrom(s, Advance(s, it), fuel - 1)

Scan(s) == ScanFrom(s, Begin(s), s.file * Order)

-----------------------------------------------------------------------------
(* Properties *)

RECURSIVE PagesOf(_, _)
PagesOf(s, idx) ==
  IF IsBranch(s, idx)
  THEN <<idx>> \o FlattenSeq([i \in DOMAIN s.page[idx].children |->
                               PagesOf(s, s.page[idx].children[i])])
  ELSE <<idx>>

TreePages(s) == IF s.root = 0 THEN <<>> ELSE PagesOf(s, s.root)
LeavesOf(s) == SelectSeq(TreePages(s), LAMBDA idx : IsLeaf(s, idx))

RECURSIVE FreeFrom(_, _, _)
FreeFrom(s, idx, fuel) ==
  IF idx = 0 \/ fuel = 0 THEN <<>> ELSE <<idx>> \o FreeFrom(s, s.page[idx].next, fuel - 1)

FreePages(s) == FreeFrom(s, s.freeHead, s.file)

RECURSIVE Depths(_, _)
Depths(s, idx) ==
  IF IsBranch(s, idx)
  THEN {d + 1 : d \in UNION {Depths(s, c) : c \in ToSet(s.page[idx].children)}}
  ELSE {1}

\* The state is well formed, and no node has outgrown the arrays of its page.
TypeOK ==
  /\ {store.root, store.first, store.freeHead} \subseteq DOMAIN store.page \cup {0}
  /\ {store.count, store.height, store.freeCount} \subseteq Nat
  /\ \A idx \in DOMAIN store.page :
       LET p == store.page[idx] IN
         \/ p.type = "free"
         \/ p.type = "leaf" /\ Len(p.recs) <= Order
         \/ p.type = "branch" /\ Len(p.keys) <= Order /\ Len(p.children) = Len(p.keys) + 1
  /\ since \in 0 .. MaxSince

\* Until a call throws, every page ever taken from the file is in the tree or
\* on the free list, once: splits, removals, collapses and clear() neither leak
\* a page nor free one twice, and the length of the free list is right.
PagesAccounted ==
  since = 0 => LET all == TreePages(store) \o FreePages(store) IN
    /\ IsInjective(all)
    /\ ToSet(all) = DOMAIN store.page
    /\ store.freeCount = Len(FreePages(store))

\* Until a call throws, the tree is as high everywhere as the header says, it
\* has no empty leaf, and its root has more than one child unless it is a leaf.
Balanced ==
  since = 0 =>
  /\ (store.root = 0) <=> (store.height = 0)
  /\ store.root # 0 => Depths(store, store.root) = {store.height}
  /\ \A idx \in ToSet(LeavesOf(store)) : store.page[idx].recs # <<>>
  /\ store.root # 0 /\ IsBranch(store, store.root) => store.page[store.root].keys # <<>>

\* Until a call throws, the list of leaves that the iterators walk, kept by
\* every split and removal, is the list of leaves of the tree, from left to right, and can be
\* followed backwards too.
ChainIsInOrder ==
  since = 0 => LET leaves == LeavesOf(store)
      n == Len(leaves)
  IN /\ store.first = IF n = 0 THEN 0 ELSE leaves[1]
     /\ \A i \in 1 .. n :
          /\ store.page[leaves[i]].prev = IF i = 1 THEN 0 ELSE leaves[i - 1]
          /\ store.page[leaves[i]].next = IF i = n THEN 0 ELSE leaves[i + 1]

\* Until a call throws, an iteration from begin() to end() meets the keys in ascending order, each
\* with the value a search finds, and misses none.
ScanAgreesWithSearch ==
  since = 0 => LET recs == Scan(store) IN
    /\ \A i \in 2 .. Len(recs) : recs[i - 1].key < recs[i].key
    /\ \A i \in DOMAIN recs : FindValue(store, recs[i].key) = recs[i].value
    /\ {k \in Keys : Found(k)} \subseteq {recs[i].key : i \in DOMAIN recs}
    /\ Len(recs) = store.count

\* No iteration meets a key twice, whatever has failed: the container is a
\* unique-key map.
UniqueKeys ==
  LET recs == Scan(store) IN
    \A i, j \in DOMAIN recs : recs[i].key = recs[j].key => i = j

\* The first call that throws takes no record from the chain of leaves: what was
\* there is still met by an iteration.
ThrowKeepsRecords ==
  [][since = 0 /\ since' = 1 => ToSet(Scan(store)) \subseteq ToSet(Scan(store'))]_vars

Map == INSTANCE KeyValueMap
  WITH map <- [k \in Keys |-> FindValue(store, k)], size <- store.count,
       failed <- since > 0

\* Until a call throws, the tree answers every call as a map of keys to values
\* does, and counts its elements right.
ImplementsMap == Map!Spec
==============================================================================
