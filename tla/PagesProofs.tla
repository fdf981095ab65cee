----------------------------- MODULE PagesProofs -----------------------------
(***************************************************************************)
(* Theorems about Pages, for every size of a page, of the cache and of a   *)
(* data page, and for any pages that the clients ask for.                  *)
(***************************************************************************)
EXTENDS Pages, TLAPS

Store == [size : Nat, map : {"open", "closed"}, cache : Seq(Nat)]

\* What CachedPagesAreBacked says, of any store.
Sound(s) ==
  /\ s \in Store
  /\ Len(s.cache) <= CacheSize
  /\ \A i \in 1 .. Len(s.cache) : PageEnd(s.cache[i]) <= s.size
  /\ \A i, j \in 1 .. Len(s.cache) : s.cache[i] = s.cache[j] => i = j

\* The end of a page is a number.
LEMMA PageEndIsNat == ASSUME NEW n \in Nat PROVE PageEnd(n) \in Nat
BY PagesAssumption DEF PageEnd

\* get leaves the cache alone and never shortens the file, and the page that
\* it returns lies within the file.
LEMMA GetGrows ==
  ASSUME NEW s \in Store, NEW n \in Nat, NEW o \in Get(s, n)
  PROVE  /\ o.store \in Store
         /\ o.store.cache = s.cache
         /\ s.size <= o.store.size
         /\ o.ok \in BOOLEAN
         /\ o.ok => PageEnd(n) <= o.store.size
<1>. DEFINE e == PageEnd(n)
<1>1. e \in Nat
  BY PageEndIsNat
<1>. HIDE DEF e
<1>2. CASE system = "unix"
  <2>1. o \in GetUnix(s, n)
    BY <1>2 DEF Get
  <2>2. PICK grown : /\ grown = IF s.size < e THEN [s EXCEPT !.size = e + 1] ELSE s
                     /\ o \in {Returns(grown), Throws(grown), Throws(s)}
    BY <2>1 DEF GetUnix, e
  <2>3. /\ grown \in Store /\ grown.cache = s.cache
        /\ s.size <= grown.size /\ e <= grown.size
    BY <1>1, <2>2 DEF Store
  <2>4. s \in Store /\ s.size \in Nat /\ grown.size \in Nat
    BY <2>3 DEF Store
  <2>5. CASE o = Returns(grown)
    BY <1>1, <2>3, <2>4, <2>5 DEF Returns, e
  <2>6. CASE o = Throws(grown)
    BY <1>1, <2>3, <2>4, <2>6 DEF Throws
  <2>7. CASE o = Throws(s)
    BY <2>4, <2>7 DEF Throws
  <2>. QED
    BY <2>2, <2>5, <2>6, <2>7
<1>3. CASE system # "unix"
  <2>1. o \in GetWindows(s, n)
    BY <1>3 DEF Get
  <2>. DEFINE grown == [s EXCEPT !.size = e]
              lost == [s EXCEPT !.map = "closed"]
  <2>2. grown \in Store /\ grown.cache = s.cache /\ grown.size = e
    BY <1>1 DEF Store
  <2>3. lost \in Store /\ lost.cache = s.cache /\ lost.size = s.size
    BY DEF Store
  <2>4. \/ o = Throws(s)
        \/ s.size < e /\ o \in {Returns(grown), Throws(grown), Throws(lost)}
        \/ ~(s.size < e) /\ o \in {Returns(s), Throws(s)}
    BY <2>1 DEF GetWindows, e
  <2>. HIDE DEF grown, lost
  <2>5. s \in Store /\ s.size \in Nat
    BY DEF Store
  <2>6. CASE o = Throws(s)
    BY <2>5, <2>6 DEF Throws
  <2>7. CASE s.size < e /\ o \in {Returns(grown), Throws(grown), Throws(lost)}
    <3>1. CASE o = Returns(grown)
      BY <1>1, <2>2, <2>5, <2>7, <3>1 DEF Returns, e
    <3>2. CASE o = Throws(grown)
      BY <1>1, <2>2, <2>5, <2>7, <3>2 DEF Throws
    <3>3. CASE o = Throws(lost)
      BY <2>3, <2>5, <3>3 DEF Throws
    <3>. QED
      BY <2>7, <3>1, <3>2, <3>3
  <2>8. CASE ~(s.size < e) /\ o \in {Returns(s), Throws(s)}
    <3>1. e <= s.size
      BY <1>1, <2>5, <2>8
    <3>2. CASE o = Returns(s)
      BY <2>5, <3>1, <3>2 DEF Returns, e
    <3>3. CASE o = Throws(s)
      BY <2>5, <3>3 DEF Throws
    <3>. QED
      BY <2>8, <3>2, <3>3
  <2>. QED
    BY <2>4, <2>6, <2>7, <2>8
<1>. QED
  BY <1>2, <1>3

\* Making room keeps the cache sound, and there is room afterwards.
LEMMA EvictMakesRoom ==
  ASSUME NEW s, Sound(s)
  PROVE  /\ Sound(Evict(s)) /\ Len(Evict(s).cache) < CacheSize
         /\ Evict(s).size = s.size /\ Evict(s).map = s.map
         /\ \A n : ~Cached(s, n) => ~Cached(Evict(s), n)
<1>. USE PagesAssumption
<1>1. CASE Len(s.cache) >= CacheSize
  <2>. DEFINE c == [j \in 1 .. Len(s.cache) - 1 |-> s.cache[j]]
  <2>1. Evict(s) = [s EXCEPT !.cache = c]
    BY <1>1 DEF Evict
  <2>2. Len(s.cache) \in Nat /\ Len(s.cache) - 1 \in Nat
    BY <1>1 DEF Sound, Store
  <2>3. c \in Seq(Nat) /\ Len(c) = Len(s.cache) - 1
        /\ \A j \in 1 .. Len(c) : c[j] = s.cache[j] /\ j \in 1 .. Len(s.cache)
    BY <2>2 DEF Sound, Store
  <2>. HIDE DEF c
  <2>4. Evict(s) \in Store /\ Evict(s).cache = c /\ Evict(s).size = s.size
        /\ Evict(s).map = s.map
    BY <2>1, <2>3 DEF Sound, Store
  <2>5. Len(c) < CacheSize
    BY <1>1, <2>2, <2>3 DEF Sound
  <2>6. \A j \in 1 .. Len(c) : PageEnd(c[j]) <= s.size
    BY <2>3 DEF Sound
  <2>7. \A j, k \in 1 .. Len(c) : c[j] = c[k] => j = k
    BY <2>3 DEF Sound
  <2>8. \A n : ~Cached(s, n) => ~Cached(Evict(s), n)
    BY <2>3, <2>4 DEF Cached
  <2>9. Sound(Evict(s))
    <3>1. Len(c) <= CacheSize
      BY <2>2, <2>3, <2>5
    <3>. QED
      BY <2>4, <2>6, <2>7, <3>1 DEF Sound
  <2>. QED
    BY <2>4, <2>5, <2>8, <2>9
<1>2. CASE ~(Len(s.cache) >= CacheSize)
  BY <1>2 DEF Evict, Sound, Store
<1>. QED
  BY <1>1, <1>2

\* A page that is new to the cache and lies within the file may be cached.
LEMMA InsertIsSound ==
  ASSUME NEW s, Sound(s), NEW n \in Nat,
         Len(s.cache) < CacheSize, ~Cached(s, n), PageEnd(n) <= s.size
  PROVE  Sound(Insert(s, n))
<1>. DEFINE c == PushFront(s.cache, n)
<1>1. Len(s.cache) \in Nat /\ CacheSize \in Nat
  BY PagesAssumption DEF Sound, Store
<1>2. /\ c \in Seq(Nat) /\ Len(c) = Len(s.cache) + 1 /\ c[1] = n
      /\ \A j \in 2 .. Len(c) : c[j] = s.cache[j - 1] /\ j - 1 \in 1 .. Len(s.cache)
  BY <1>1 DEF PushFront, Sound, Store
<1>. HIDE DEF c
<1>3. Insert(s, n) = [s EXCEPT !.cache = c]
  BY DEF Insert, c
<1>4. Insert(s, n) \in Store /\ Insert(s, n).cache = c /\ Insert(s, n).size = s.size
  BY <1>2, <1>3 DEF Sound, Store
<1>5. \A i \in 1 .. Len(c) : PageEnd(c[i]) <= s.size
  BY <1>1, <1>2 DEF Sound
<1>6. \A i, j \in 1 .. Len(c) : c[i] = c[j] => i = j
  <2>1. \A j \in 2 .. Len(c) : c[j] # c[1]
    BY <1>2 DEF Cached
  <2>2. \A i, j \in 2 .. Len(c) : c[i] = c[j] => i - 1 = j - 1
    BY <1>2 DEF Sound
  <2>. SUFFICES ASSUME NEW i \in 1 .. Len(c), NEW j \in 1 .. Len(c), c[i] = c[j]
                PROVE  i = j
    OBVIOUS
  <2>3. Len(c) \in Nat
    BY <1>1, <1>2
  <2>4. CASE i = 1 \/ j = 1
    BY <2>1, <2>3, <2>4
  <2>5. CASE i # 1 /\ j # 1
    BY <2>2, <2>3, <2>5
  <2>. QED
    BY <2>4, <2>5
<1>7. Len(c) <= CacheSize
  BY <1>1, <1>2
<1>. QED
  BY <1>4, <1>5, <1>6, <1>7 DEF Sound

\* A hit only changes the order.
LEMMA MoveIsSound ==
  ASSUME NEW s, Sound(s), NEW i \in 1 .. Len(s.cache)
  PROVE  Sound([s EXCEPT !.cache = MoveToFront(s.cache, i)])
<1>. DEFINE c == MoveToFront(s.cache, i)
            from(j) == IF j = 1 THEN i ELSE IF j <= i THEN j - 1 ELSE j
<1>1. Len(s.cache) \in Nat
  BY DEF Sound, Store
<1>2. /\ c \in Seq(Nat) /\ Len(c) = Len(s.cache)
      /\ \A j \in 1 .. Len(c) : c[j] = s.cache[from(j)] /\ from(j) \in 1 .. Len(s.cache)
  BY <1>1 DEF MoveToFront, Sound, Store
<1>3. \A j, k \in 1 .. Len(c) : from(j) = from(k) => j = k
  BY <1>1, <1>2
<1>. HIDE DEF c, from
<1>4. [s EXCEPT !.cache = c] \in Store /\ [s EXCEPT !.cache = c].cache = c
      /\ [s EXCEPT !.cache = c].size = s.size
  BY <1>2 DEF Sound, Store
<1>5. \A j \in 1 .. Len(c) : PageEnd(c[j]) <= s.size
  BY <1>2 DEF Sound
<1>6. \A j, k \in 1 .. Len(c) : c[j] = c[k] => j = k
  <2>1. \A j, k \in 1 .. Len(c) : c[j] = c[k] => from(j) = from(k)
    BY <1>2 DEF Sound
  <2>. QED
    BY <1>3, <2>1
<1>. QED
  BY <1>2, <1>4, <1>5, <1>6 DEF Sound, c

\* What get leaves of a sound store is sound, with no page cached that was not.
LEMMA GrownIsSound ==
  ASSUME NEW s, Sound(s), NEW n \in Nat, NEW o \in Get(s, n)
  PROVE  /\ Sound(o.store) /\ o.store.cache = s.cache
         /\ \A m : Cached(o.store, m) <=> Cached(s, m)
         /\ o.ok => PageEnd(n) <= o.store.size
<1>1. s \in Store
  BY DEF Sound
<1>2. /\ o.store \in Store /\ o.store.cache = s.cache
      /\ s.size <= o.store.size
      /\ o.ok => PageEnd(n) <= o.store.size
  BY <1>1, GetGrows
<1>3. \A i \in 1 .. Len(s.cache) : PageEnd(s.cache[i]) \in Nat
  <2>1. \A i \in 1 .. Len(s.cache) : s.cache[i] \in Nat
    BY <1>1 DEF Store
  <2>. QED
    BY <2>1, PageEndIsNat
<1>4. \A i \in 1 .. Len(s.cache) : PageEnd(s.cache[i]) <= o.store.size
  BY <1>1, <1>2, <1>3 DEF Sound, Store
<1>5. Sound(o.store)
  BY <1>2, <1>4 DEF Sound
<1>. QED
  BY <1>2, <1>5 DEF Cached

\* operator[] leaves the cache sound, whether it returns or throws.
LEMMA TouchIsSound ==
  ASSUME NEW s, Sound(s), NEW n \in Nat, NEW o \in Touch(s, n)
  PROVE  Sound(o.store)
<1>1. CASE Cached(s, n)
  <2>1. PICK i \in 1 .. Len(s.cache) :
               o = Returns([s EXCEPT !.cache = MoveToFront(s.cache, i)])
    BY <1>1 DEF Touch
  <2>2. Sound([s EXCEPT !.cache = MoveToFront(s.cache, i)])
    BY MoveIsSound
  <2>. QED
    BY <2>1, <2>2 DEF Returns
<1>2. CASE ~Cached(s, n)
  <2>. DEFINE t == Evict(s)
  <2>1. /\ Sound(t) /\ Len(t.cache) < CacheSize
        /\ ~Cached(t, n)
    BY <1>2, EvictMakesRoom
  <2>2. PICK g \in Get(t, n) : o = IF g.ok THEN Returns(Insert(g.store, n)) ELSE g
    BY <1>2 DEF Touch
  <2>. HIDE DEF t
  <2>3. Sound(g.store) /\ Len(g.store.cache) < CacheSize /\ ~Cached(g.store, n)
        /\ (g.ok => PageEnd(n) <= g.store.size)
    BY <2>1, GrownIsSound
  <2>4. CASE g.ok
    <3>1. Sound(Insert(g.store, n))
      BY <2>3, <2>4, InsertIsSound
    <3>. QED
      BY <2>2, <2>4, <3>1 DEF Returns
  <2>5. CASE ~g.ok
    BY <2>2, <2>3, <2>5
  <2>. QED
    BY <2>4, <2>5
<1>. QED
  BY <1>1, <1>2

\* Whole pages and the rest: what \div means.
LEMMA WholePages ==
  ASSUME NEW a \in Nat, NEW d \in Nat \ {0}
  PROVE  a \div d \in Nat /\ a < (a \div d) * d + d
OBVIOUS

\* append, into a cache that has room, caches a page that was not cached.
LEMMA AppendIsSound ==
  ASSUME NEW s, Sound(s), Len(s.cache) < CacheSize, NEW o \in AppendPage(s)
  PROVE  Sound(IF o.ok THEN Insert(o.store, o.page) ELSE o.store)
<1>. USE PagesAssumption
<1>1. /\ s \in Store /\ s.size \in Nat
      /\ \A n \in Nat : s.size < PageEnd(n) => ~Cached(s, n)
  <2>1. s \in Store /\ s.size \in Nat
    BY DEF Sound, Store
  <2>2. ASSUME NEW n \in Nat, s.size < PageEnd(n), Cached(s, n) PROVE FALSE
    <3>1. PageEnd(n) \in Nat /\ PageEnd(n) <= s.size
      BY <2>2, PageEndIsNat DEF Cached, Sound
    <3>. QED
      BY <2>1, <2>2, <3>1
  <2>. QED
    BY <2>1, <2>2
<1>2. CASE system = "unix"
  <2>. DEFINE grown == [s EXCEPT !.size = s.size + PageSize + 1]
  <2>1. /\ grown \in Store /\ grown.cache = s.cache
        /\ grown.size = s.size + PageSize + 1
    BY <1>1 DEF Store
  <2>2. \/ \E n \in 0 .. s.size : n * PageSize = s.size
                                  /\ o = [ok |-> TRUE, store |-> grown, page |-> n]
        \/ \E t \in {s, grown} : o = [ok |-> FALSE, store |-> t, page |-> 0]
    BY <1>2 DEF AppendPage, AppendUnix
  <2>. HIDE DEF grown
  <2>3. Sound(grown)
    <3>1. \A i \in 1 .. Len(s.cache) : PageEnd(s.cache[i]) <= grown.size
      <4>1. \A i \in 1 .. Len(s.cache) : s.cache[i] \in Nat
        BY <1>1 DEF Store
      <4>2. \A i \in 1 .. Len(s.cache) : PageEnd(s.cache[i]) \in Nat
        BY <4>1, PageEndIsNat
      <4>. QED
        BY <1>1, <2>1, <4>2 DEF Sound
    <3>. QED
      BY <2>1, <3>1 DEF Sound
  <2>4. CASE \E n \in 0 .. s.size : n * PageSize = s.size
                                    /\ o = [ok |-> TRUE, store |-> grown, page |-> n]
    <3>1. PICK n \in 0 .. s.size : n * PageSize = s.size
                                   /\ o = [ok |-> TRUE, store |-> grown, page |-> n]
      BY <2>4
    <3>. n \in Nat
      BY <1>1
    <3>2. PageEnd(n) = s.size + PageSize
      BY <3>1 DEF PageEnd
    <3>3. ~Cached(s, n)
      BY <1>1, <3>2
    <3>4. Sound(Insert(grown, n))
      <4>1. ~Cached(grown, n) /\ Len(grown.cache) < CacheSize
            /\ PageEnd(n) <= grown.size
        BY <1>1, <2>1, <3>2, <3>3 DEF Cached
      <4>. QED
        BY <2>3, <4>1, InsertIsSound
    <3>. QED
      BY <3>1, <3>4
  <2>5. CASE \E t \in {s, grown} : o = [ok |-> FALSE, store |-> t, page |-> 0]
    BY <2>3, <2>5
  <2>. QED
    BY <2>2, <2>4, <2>5
<1>3. CASE system # "unix"
  <2>. DEFINE n == (s.size + PageSize) \div PageSize
  <2>1. n \in Nat /\ s.size + PageSize < PageEnd(n)
    <3>1. s.size + PageSize \in Nat
      BY <1>1
    <3>2. n \in Nat /\ s.size + PageSize < n * PageSize + PageSize
      BY <3>1, WholePages
    <3>. QED
      BY <3>2 DEF PageEnd
  <2>2. PICK g \in GetWindows(s, n) : o = [ok |-> g.ok, store |-> g.store, page |-> n]
    BY <1>3 DEF AppendPage, AppendWindows
  <2>. HIDE DEF n
  <2>3. ~Cached(s, n)
    <3>1. s.size < PageEnd(n)
      BY <1>1, <2>1, PageEndIsNat
    <3>. QED
      BY <1>1, <2>1, <3>1
  <2>4. /\ Sound(g.store) /\ Len(g.store.cache) < CacheSize /\ ~Cached(g.store, n)
        /\ (g.ok => PageEnd(n) <= g.store.size)
    <3>1. g \in Get(s, n)
      BY <1>3, <2>2 DEF Get
    <3>. QED
      BY <2>1, <2>3, <3>1, GrownIsSound
  <2>5. CASE g.ok
    <3>1. Sound(Insert(g.store, n))
      BY <2>1, <2>4, <2>5, InsertIsSound
    <3>. QED
      BY <2>2, <2>5, <3>1
  <2>6. CASE ~g.ok
    BY <2>2, <2>4, <2>6
  <2>. QED
    BY <2>5, <2>6
<1>. QED
  BY <1>2, <1>3

-----------------------------------------------------------------------------
(* The invariant *)

PagesInv == Sound(store) /\ count \in Nat

\* A call that only loads a page.
LEMMA LoadKeepsInv ==
  ASSUME PagesInv, NEW n \in Nat, NEW o \in Touch(store, n), store' = o.store,
         UNCHANGED count
  PROVE  PagesInv'
BY TouchIsSound DEF PagesInv, Sound

\* The page of an element is a number.
LEMMA PageOfIsNat == ASSUME NEW i \in Nat PROVE PageOf(i) \in Nat
<1>1. i \div ItemsPerPage \in Nat
  BY PagesAssumption, WholePages
<1>. QED
  BY <1>1 DEF PageOf

\* push_back, which touches two pages.
LEMMA PushBackKeepsInv ==
  ASSUME PagesInv, NEW v \in Items, PushBack(v)
  PROVE  PagesInv'
<1>1. count \in Nat /\ PageOf(count) \in Nat /\ Sound(store)
  BY PageOfIsNat DEF PagesInv
<1>2. PICK root \in Touch(store, 0) :
        \/ ~root.ok /\ store' = root.store /\ UNCHANGED count
        \/ \E page \in Touch(root.store, PageOf(count)) :
             store' = page.store /\ count' \in {count, count + 1}
  BY DEF PushBack
<1>3. Sound(root.store)
  BY <1>1, TouchIsSound
<1>4. \A page \in Touch(root.store, PageOf(count)) : Sound(page.store)
  BY <1>1, <1>3, TouchIsSound
<1>5. Sound(store') /\ count' \in Nat
  BY <1>1, <1>2, <1>3, <1>4
<1>. QED
  BY <1>5 DEF PagesInv, Sound

\* Every cached page lies within the file, once, in a cache of bounded size:
\* for mapped_file on either system, whatever system call fails.
THEOREM CacheIsSound == PagesSpec => []CachedPagesAreBacked
<1>1. PagesInit => PagesInv
  <2>. SUFFICES ASSUME PagesInit PROVE PagesInv
    OBVIOUS
  <2>1. store \in Store /\ store.cache = <<>> /\ count = 0
    BY PagesAssumption DEF PagesInit, Opened, Store
  <2>. QED
    BY <2>1, PagesAssumption DEF PagesInv, Sound
<1>2. PagesInv /\ [PagesNext]_pagesVars => PagesInv'
  <2>. SUFFICES ASSUME PagesInv, [PagesNext]_pagesVars PROVE PagesInv'
    OBVIOUS
  <2>1. ASSUME NEW v \in Items, PushBack(v) PROVE PagesInv'
    BY <2>1, PushBackKeepsInv
  <2>2. CASE Size
    BY <2>2, LoadKeepsInv DEF Size
  <2>3. ASSUME NEW i \in 0 .. MaxPushes - 1, GetItem(i) PROVE PagesInv'
    <3>1. PageOf(i) \in Nat
      BY PageOfIsNat
    <3>. QED
      BY <2>3, <3>1, LoadKeepsInv DEF GetItem
  <2>4. ASSUME NEW n \in 0 .. MaxPage, GetPage(n) PROVE PagesInv'
    BY <2>4, LoadKeepsInv DEF GetPage
  <2>5. CASE TreeAppend
    <3>. DEFINE s == Evict(store)
    <3>1. Sound(s) /\ Len(s.cache) < CacheSize
      BY EvictMakesRoom DEF PagesInv
    <3>2. PICK o \in AppendPage(s) :
                 store' = IF o.ok THEN Insert(o.store, o.page) ELSE o.store
      BY <2>5 DEF TreeAppend
    <3>. HIDE DEF s
    <3>3. Sound(IF o.ok THEN Insert(o.store, o.page) ELSE o.store)
      BY <3>1, AppendIsSound
    <3>4. Sound(store') /\ count' \in Nat
      BY <2>5, <3>2, <3>3 DEF TreeAppend, PagesInv
    <3>. QED
      BY <3>4 DEF PagesInv, Sound
  <2>6. CASE Reopen
    <3>1. store' \in Store /\ store'.cache = <<>>
      BY <2>6, PagesAssumption DEF Reopen, Opened, PagesInv, Sound, Store
    <3>. QED
      BY <2>6, <3>1, PagesAssumption DEF Reopen, PagesInv, Sound
  <2>7. CASE UNCHANGED pagesVars
    BY <2>7 DEF pagesVars, PagesInv, Sound
  <2>. QED
    BY <2>1, <2>2, <2>3, <2>4, <2>5, <2>6, <2>7 DEF PagesNext
<1>3. PagesInv => CachedPagesAreBacked
  BY DEF PagesInv, Sound, CachedPagesAreBacked
<1>. QED
  BY <1>1, <1>2, <1>3, PTL DEF PagesSpec

\* Two elements never share a place: division with remainder.
LEMMA PlacesDiffer ==
  ASSUME NEW i \in Nat, NEW j \in Nat, PlaceOf(i) = PlaceOf(j)
  PROVE  i = j
<1>1. ASSUME NEW k \in Nat \ {0}, i \div k = j \div k, i % k = j % k
      PROVE  i = j
  <2>1. i = (i \div k) * k + (i % k) /\ j = (j \div k) * k + (j % k)
    OBVIOUS
  <2>. QED
    BY <1>1, <2>1
<1>2. i \div ItemsPerPage = j \div ItemsPerPage /\ i % ItemsPerPage = j % ItemsPerPage
  <2>1. i \div ItemsPerPage \in Nat /\ j \div ItemsPerPage \in Nat
    BY PagesAssumption
  <2>. QED
    BY <2>1 DEF PlaceOf, PageOf
<1>. QED
  BY <1>1, <1>2, PagesAssumption

\* What is proved by induction: the property, of a history that is a sequence.
VectorInv ==
  /\ pushed \in Seq(Items)
  /\ VectorIsWhatWasPushed

LEMMA PushKeepsVector ==
  ASSUME VectorInv, NEW v \in Items, PushBack(v)
  PROVE  VectorInv'
<1>1. CASE UNCHANGED <<count, slots, pushed>>
  BY <1>1 DEF VectorInv, VectorIsWhatWasPushed
<1>2. CASE /\ slots' = [p \in DOMAIN slots \cup {PlaceOf(count)} |->
                          IF p = PlaceOf(count) THEN v ELSE slots[p]]
           /\ count' = count + 1
           /\ pushed' = Append(pushed, v)
  <2>1. count = Len(pushed) /\ count \in Nat
    BY DEF VectorInv, VectorIsWhatWasPushed
  <2>2. /\ pushed' \in Seq(Items) /\ count' = Len(pushed')
        /\ pushed'[count + 1] = v
        /\ \A i \in 0 .. count - 1 : pushed'[i + 1] = pushed[i + 1]
    BY <1>2, <2>1 DEF VectorInv
  <2>3. ASSUME NEW i \in 0 .. count' - 1
        PROVE  PlaceOf(i) \in DOMAIN slots' /\ slots'[PlaceOf(i)] = pushed'[i + 1]
    <3>1. CASE i = count
      BY <1>2, <2>2, <3>1
    <3>2. CASE i # count
      <4>1. i \in 0 .. count - 1
        BY <1>2, <2>1, <3>2
      <4>2. PlaceOf(i) # PlaceOf(count)
        BY <2>1, <3>2, <4>1, PlacesDiffer
      <4>3. PlaceOf(i) \in DOMAIN slots /\ slots[PlaceOf(i)] = pushed[i + 1]
        BY <4>1 DEF VectorInv, VectorIsWhatWasPushed
      <4>. QED
        BY <1>2, <2>2, <4>1, <4>2, <4>3
    <3>. QED
      BY <3>1, <3>2
  <2>. QED
    BY <2>2, <2>3 DEF VectorInv, VectorIsWhatWasPushed
<1>. QED
  BY <1>1, <1>2 DEF PushBack

\* The vector holds exactly the values that push_back has returned from, in
\* their order, for every size of a data page and whichever calls fail
\* (mapped_vector.hpp:127).
THEOREM VectorReadsBack == PagesSpec => []VectorIsWhatWasPushed
<1>1. PagesInit => VectorInv
  BY DEF PagesInit, VectorInv, VectorIsWhatWasPushed
<1>2. ASSUME VectorInv, [PagesNext]_pagesVars
      PROVE  VectorInv'
  <2>1. CASE UNCHANGED <<count, slots, pushed>>
    BY <1>2, <2>1 DEF VectorInv, VectorIsWhatWasPushed
  <2>2. ASSUME NEW v \in Items, PushBack(v) PROVE VectorInv'
    BY <1>2, <2>2, PushKeepsVector
  <2>. QED
    BY <1>2, <2>1, <2>2
       DEF PagesNext, pagesVars, Size, GetItem, GetPage, TreeAppend, Reopen
<1>3. VectorInv => VectorIsWhatWasPushed
  BY DEF VectorInv
<1>. QED
  BY <1>1, <1>2, <1>3, PTL DEF PagesSpec
==============================================================================
