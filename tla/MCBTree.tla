------------------------------- MODULE MCBTree -------------------------------
(* Small instances of BTree. *)
EXTENDS BTree

CONSTANTS u, w   \* two values

FiveKeys == 1 .. 5
\* Keys 2 and 4 are given two values, the others one.
SomePairs == (FiveKeys \X {u}) \cup ({2, 4} \X {w})

\* Nothing depends on which number a page has, only on which pages are the
\* same: stores that differ by a renaming of their pages are one store.  Pages
\* are renamed to their place in the tree, then on the free list, then among
\* the pages that are on neither.
Renamed ==
  LET known == TreePages(store) \o FreePages(store)
      lost == SelectSeq([i \in 1 .. store.file |-> i],
                        LAMBDA i : i \in DOMAIN store.page \ ToSet(known))
      order == known \o lost
      Name(idx) == IF idx = 0 THEN 0
                   ELSE CHOOSE i \in DOMAIN order : order[i] = idx
      NameIn(p) ==
        CASE p.type = "leaf" -> [p EXCEPT !.next = Name(@), !.prev = Name(@)]
          [] p.type = "branch" -> [p EXCEPT !.children = [i \in DOMAIN @ |-> Name(@[i])]]
          [] OTHER -> [p EXCEPT !.next = Name(@)]
  IN [store EXCEPT !.root = Name(@), !.first = Name(@), !.freeHead = Name(@),
                   !.page = [i \in DOMAIN order |-> NameIn(store.page[order[i]])]]

View == <<Renamed, answer, since>>
==============================================================================
