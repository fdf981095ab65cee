-------------------------------- MODULE Pages --------------------------------
(***************************************************************************)
(* Pages of a memory mapped file: mapped_file (mapped_file.hpp) on Unix    *)
(* and on Windows, the lru_cache that keeps the pages in use               *)
(* (lru_cache.hpp), and its two clients: mapped_vector (mapped_vector.hpp) *)
(* and the page cache of btree (btree.hpp), each on a file of its own.     *)
(*                                                                         *)
(* Every system call that can fail may fail, and then throws.  What is     *)
(* written to a mapped page is in the file.                                *)
(***************************************************************************)
EXTENDS Naturals, Sequences

CONSTANTS
  PageSize,      \* memory::page_size(), in bytes
  CacheSize,     \* 3 for mapped_vector, 64 for btree
  ItemsPerPage,  \* data_page::items_per_page(), 5 in the code
  Items,         \* the values that are pushed
  MaxPushes,     \* bound: how many
  MaxPage        \* bound: the pages that the tree asks for and appends

ASSUME PagesAssumption ==
  PageSize \in Nat \ {0} /\ CacheSize \in Nat \ {0} /\ ItemsPerPage \in Nat \ {0}

VARIABLES
  system,  \* "unix" or "windows"
  client,  \* "vector" or "tree"
  store,   \* the size of the file, _hMap, and the pages cached, newest first
  count,   \* _count in page 0
  slots,   \* what has been written where: <<page, place>> -> item
  pushed   \* history: what push_back returned from

pagesVars == <<system, client, store, count, slots, pushed>>

\* The constructor: Windows maps at least one page, which sizes the file.
Opened(size) ==
  [size |-> IF system = "windows" /\ size < PageSize THEN PageSize ELSE size,
   map |-> "open", cache |-> <<>>]

PagesInit ==
  /\ system \in {"unix", "windows"}
  /\ client \in {"vector", "tree"}
  /\ store = Opened(0)
  /\ count = 0
  /\ slots = <<>>
  /\ pushed = <<>>

-----------------------------------------------------------------------------
(* mapped_file: what get and append may leave, and whether they return *)

Returns(s) == [ok |-> TRUE, store |-> s]
Throws(s) == [ok |-> FALSE, store |-> s]

PageEnd(n) == n * PageSize + PageSize

\* Mutant: the file grows to where the page begins.
GetUnixShort(s, n) ==
  LET grown == IF s.size < n * PageSize THEN [s EXCEPT !.size = n * PageSize + 1] ELSE s
  IN  {Returns(grown), Throws(grown), Throws(s)}

\* The byte that lengthens the file is written behind the page, and then the
\* page is mapped.
GetUnix(s, n) ==
  LET grown == IF s.size < PageEnd(n) THEN [s EXCEPT !.size = PageEnd(n) + 1] ELSE s
  IN  {Returns(grown), Throws(grown), Throws(s)}

\* The mapping is closed before a larger one is created; when that fails
\* _hMap names a closed handle, which can be neither mapped nor closed.
GetWindows(s, n) ==
  IF s.map = "closed" THEN {Throws(s)}
  ELSE IF s.size < PageEnd(n)
       THEN LET grown == [s EXCEPT !.size = PageEnd(n)]
            IN  {Returns(grown), Throws(grown), Throws([s EXCEPT !.map = "closed"])}
       ELSE {Returns(s), Throws(s)}

Get(s, n) == IF system = "unix" THEN GetUnix(s, n) ELSE GetWindows(s, n)

\* append on Unix maps at the old end of the file, which mmap refuses unless
\* it is a multiple of the page: the file has grown all the same.
AppendUnix(s) ==
  LET grown == [s EXCEPT !.size = s.size + PageSize + 1]
      at == {n \in 0 .. s.size : n * PageSize = s.size}
  IN  {[ok |-> TRUE, store |-> grown, page |-> n] : n \in at}
        \cup {[ok |-> FALSE, store |-> t, page |-> 0] : t \in {s, grown}}

\* append on Windows numbers the new page one further than the end.
AppendWindows(s) ==
  LET n == (s.size + PageSize) \div PageSize
  IN  {[ok |-> o.ok, store |-> o.store, page |-> n] : o \in GetWindows(s, n)}

AppendPage(s) == IF system = "unix" THEN AppendUnix(s) ELSE AppendWindows(s)

-----------------------------------------------------------------------------
(* lru_cache *)

Cached(s, n) == \E i \in 1 .. Len(s.cache) : s.cache[i] = n

MoveToFront(c, i) ==
  [j \in 1 .. Len(c) |-> IF j = 1 THEN c[i] ELSE IF j <= i THEN c[j - 1] ELSE c[j]]

PushFront(c, n) == [j \in 1 .. Len(c) + 1 |-> IF j = 1 THEN n ELSE c[j - 1]]

\* The oldest page makes room before the loader is called.
Evict(s) ==
  IF Len(s.cache) >= CacheSize
  THEN [s EXCEPT !.cache = [j \in 1 .. Len(s.cache) - 1 |-> s.cache[j]]] ELSE s

Insert(s, n) == [s EXCEPT !.cache = PushFront(s.cache, n)]

\* operator[]
Touch(s, n) ==
  IF Cached(s, n)
  THEN {Returns([s EXCEPT !.cache = MoveToFront(s.cache, i)]) :
          i \in {j \in 1 .. Len(s.cache) : s.cache[j] = n}}
  ELSE {IF o.ok THEN Returns(Insert(o.store, n)) ELSE o : o \in Get(Evict(s), n)}

-----------------------------------------------------------------------------
(* mapped_vector *)

PageOf(i) == 1 + i \div ItemsPerPage
PlaceOf(i) == <<PageOf(i), i % ItemsPerPage>>

\* Mutant: the element is counted before its page is there.
PushBackCountsFirst(v) ==
  /\ client = "vector" /\ Len(pushed) < MaxPushes
  /\ \E root \in Touch(store, 0) :
       \/ ~root.ok /\ store' = root.store /\ UNCHANGED <<count, slots, pushed>>
       \/ /\ root.ok /\ count' = count + 1
          /\ \E page \in Touch(root.store, PageOf(count)) :
               /\ store' = page.store
               /\ \/ ~page.ok /\ UNCHANGED <<slots, pushed>>
                  \/ /\ page.ok
                     /\ slots' = [p \in DOMAIN slots \cup {PlaceOf(count)} |->
                                    IF p = PlaceOf(count) THEN v ELSE slots[p]]
                     /\ pushed' = Append(pushed, v)
  /\ UNCHANGED <<system, client>>

PushBack(v) ==
  /\ client = "vector" /\ Len(pushed) < MaxPushes
  /\ \E root \in Touch(store, 0) :
       \/ ~root.ok /\ store' = root.store /\ UNCHANGED <<count, slots, pushed>>
       \/ /\ root.ok
          /\ \E page \in Touch(root.store, PageOf(count)) :
               /\ store' = page.store
               /\ \/ ~page.ok /\ UNCHANGED <<count, slots, pushed>>
                  \/ /\ page.ok
                     /\ slots' = [p \in DOMAIN slots \cup {PlaceOf(count)} |->
                                    IF p = PlaceOf(count) THEN v ELSE slots[p]]
                     /\ count' = count + 1
                     /\ pushed' = Append(pushed, v)
  /\ UNCHANGED <<system, client>>

\* size(), begin() and end() load page 0.
Size ==
  /\ client = "vector"
  /\ \E root \in Touch(store, 0) : store' = root.store
  /\ UNCHANGED <<system, client, count, slots, pushed>>

\* iterator::get() at an element.
GetItem(i) ==
  /\ client = "vector" /\ i < count
  /\ \E page \in Touch(store, PageOf(i)) : store' = page.store
  /\ UNCHANGED <<system, client, count, slots, pushed>>

\* Destroyed and constructed again on the same file.
Reopen ==
  /\ store' = Opened(store.size)
  /\ UNCHANGED <<system, client, count, slots, pushed>>

-----------------------------------------------------------------------------
(* The page cache of btree *)

GetPage(n) ==
  /\ client = "tree"
  /\ \E o \in Touch(store, n) : store' = o.store
  /\ UNCHANGED <<system, client, count, slots, pushed>>

\* append makes room as operator[] does, and caches the page it appended.
TreeAppend ==
  /\ client = "tree" /\ store.size <= PageEnd(MaxPage)
  /\ \E o \in AppendPage(Evict(store)) :
       store' = IF o.ok THEN Insert(o.store, o.page) ELSE o.store
  /\ UNCHANGED <<system, client, count, slots, pushed>>

PagesNext ==
  \/ \E v \in Items : PushBack(v)
  \/ Size
  \/ \E i \in 0 .. MaxPushes - 1 : GetItem(i)
  \/ \E n \in 0 .. MaxPage : GetPage(n)
  \/ TreeAppend
  \/ Reopen

PagesSpec == PagesInit /\ [][PagesNext]_pagesVars

-----------------------------------------------------------------------------
(* Properties *)

\* Whatever a call has loaded and is still cached lies within the file (an
\* access behind its end is a bus error), is cached once, and the cache never
\* outgrows its size, whichever calls failed before.
CachedPagesAreBacked ==
  /\ Len(store.cache) <= CacheSize
  /\ \A i \in 1 .. Len(store.cache) : PageEnd(store.cache[i]) <= store.size
  /\ \A i, j \in 1 .. Len(store.cache) : store.cache[i] = store.cache[j] => i = j

\* The vector holds exactly what push_back has returned from, in order: one
\* that throws, at page 0 or at the item's page, leaves no element behind, and
\* closing the file or evicting a page loses none.
VectorIsWhatWasPushed ==
  /\ count = Len(pushed)
  /\ \A i \in 0 .. count - 1 :
       PlaceOf(i) \in DOMAIN slots /\ slots[PlaceOf(i)] = pushed[i + 1]
==============================================================================
