---------------------------- MODULE WrapperProofs ----------------------------
(***************************************************************************)
(* Theorems about two wrappers of what others implement: the SQLite        *)
(* transaction and the COM pointers and objects.                           *)
(***************************************************************************)
EXTENDS Transaction, Com, FiniteSetTheorems, TLAPS

-----------------------------------------------------------------------------
(***************************************************************************)
(* TransactionIsAllOrNothing, for any number of transaction objects and of *)
(* statements.                                                             *)
(***************************************************************************)

Undisturbed == "ended by SQLite" \notin mishaps

\* Statements are numbered in the order in which they succeed.
Numbered ==
  /\ executed \in Nat
  /\ pending \subseteq Nat /\ durable \subseteq Nat
  /\ \A n \in pending \cup durable : n < executed

TransactionObjects ==
  /\ finished \in [Transactions -> {"unmade", "FALSE", "TRUE", "gone"}]
  /\ outcome \in [Transactions -> {"none", "committed", "rolled back"}]
  /\ during \in [Transactions -> SUBSET Nat]
  /\ \A t \in Transactions : \A n \in during[t] : n < executed
  /\ \A t \in Transactions : finished[t] = "unmade" => outcome[t] = "none" /\ during[t] = {}

\* What is pending belongs to the transaction that is open.
PendingIsOpen ==
  /\ pending # {} => inTransaction
  /\ pending \cap durable = {}

\* There is one unfinished object at most, it has the transaction that is open,
\* and the statements of its life are the pending ones.
OneHasIt ==
  \A t \in Unfinished :
    /\ inTransaction /\ outcome[t] = "none" /\ during[t] \subseteq pending
    /\ \A u \in Unfinished : u = t

\* Nobody else's statements are pending while somebody may commit them.
OthersAreOver ==
  \A t \in Transactions \ Unfinished :
    /\ outcome[t] = "committed" => during[t] \subseteq durable
    /\ outcome[t] # "committed" =>
         /\ during[t] \cap durable = {}
         /\ Unfinished # {} => during[t] \cap pending = {}

OpenHasItsObject ==
  inTransaction => Unfinished # {} \/ "rollback failed" \in mishaps

TransactionInv ==
  /\ Numbered /\ TransactionObjects
  /\ Undisturbed => PendingIsOpen /\ OneHasIt /\ OthersAreOver /\ OpenHasItsObject

-----------------------------------------------------------------------------

LEMMA InvImpliesProperty == TransactionInv => TransactionIsAllOrNothing
<1>. SUFFICES ASSUME TransactionInv, Undisturbed PROVE TransactionIsAllOrNothing
  BY DEF TransactionIsAllOrNothing, Undisturbed
<1>1. ASSUME NEW t \in Transactions
      PROVE  /\ outcome[t] = "committed" => during[t] \subseteq durable
             /\ outcome[t] # "committed" => during[t] \cap durable = {}
  <2>1. CASE t \in Unfinished
    BY <2>1 DEF TransactionInv, OneHasIt, PendingIsOpen
  <2>2. CASE t \notin Unfinished
    BY <2>2 DEF TransactionInv, OthersAreOver
  <2>. QED BY <2>1, <2>2
<1>. QED
  BY <1>1 DEF TransactionIsAllOrNothing, TransactionInv, OpenHasItsObject

\* The invariant holds when nothing of it changes.
LEMMA StutterKeepsInv ==
  ASSUME TransactionInv, UNCHANGED transactionVars
  PROVE  TransactionInv'
<1>1. Unfinished' = Unfinished
  BY DEF transactionVars, Unfinished
<1>2. Numbered' /\ TransactionObjects'
  BY DEF transactionVars, TransactionInv, Numbered, TransactionObjects
<1>. QED
  BY <1>1, <1>2 DEF transactionVars, TransactionInv, Undisturbed, PendingIsOpen, OneHasIt,
                    OthersAreOver, OpenHasItsObject

\* A statement that fails, in whatever call.
LEMMA FailureKeepsInv ==
  ASSUME TransactionInv, FailingStatement,
         executed' = executed, finished' = finished, outcome' = outcome, during' = during
  PROVE  TransactionInv'
<1>1. CASE UNCHANGED <<inTransaction, pending, durable, mishaps>>
  BY <1>1, StutterKeepsInv DEF transactionVars
<1>2. CASE "ended by SQLite" \in mishaps' /\ pending' = {} /\ UNCHANGED durable
  BY <1>2 DEF TransactionInv, Numbered, TransactionObjects, Undisturbed
<1>. QED
  BY <1>1, <1>2 DEF FailingStatement

LEMMA BeginKeepsInv ==
  ASSUME TransactionInv, NEW t \in Transactions, BeginTransaction(t)
  PROVE  TransactionInv'
<1>. USE DEF TransactionInv
<1>1. Numbered' /\ TransactionObjects' /\ (Undisturbed' => Undisturbed)
  BY DEF BeginTransaction, Numbered, TransactionObjects, Undisturbed
<1>. SUFFICES ASSUME Undisturbed
              PROVE  (PendingIsOpen /\ OneHasIt /\ OthersAreOver /\ OpenHasItsObject)'
  BY <1>1
<1>2. CASE /\ ~inTransaction /\ inTransaction' = TRUE
           /\ finished' = [finished EXCEPT ![t] = "FALSE"]
  <2>1. Unfinished = {} /\ Unfinished' = {t} /\ pending = {} /\ outcome[t] = "none" /\ during[t] = {}
    BY <1>2 DEF TransactionObjects, Unfinished, OneHasIt, PendingIsOpen, BeginTransaction
  <2>. QED
    BY <1>2, <2>1 DEF BeginTransaction, TransactionObjects, PendingIsOpen, OneHasIt,
                    OthersAreOver, OpenHasItsObject, Unfinished
<1>3. CASE finished' = [finished EXCEPT ![t] = "gone"] /\ UNCHANGED inTransaction
  <2>1. Unfinished' = Unfinished
    BY <1>3 DEF TransactionObjects, Unfinished, BeginTransaction
  <2>. QED
    BY <1>3, <2>1 DEF BeginTransaction, TransactionObjects, PendingIsOpen, OneHasIt,
                    OthersAreOver, OpenHasItsObject
<1>. QED
  BY <1>2, <1>3 DEF BeginTransaction

LEMMA CommitKeepsInv ==
  ASSUME TransactionInv, NEW t \in Transactions, Commit(t)
  PROVE  TransactionInv'
<1>1. CASE FailingStatement /\ UNCHANGED <<finished, outcome>>
  BY <1>1, FailureKeepsInv DEF Commit
<1>2. CASE CommitStatement /\ Finish(t, "committed")
  <2>1. Numbered' /\ TransactionObjects' /\ (Undisturbed' => Undisturbed)
    BY <1>2 DEF TransactionInv, Commit, CommitStatement, Finish, Numbered, TransactionObjects, Undisturbed
  <2>. SUFFICES ASSUME Undisturbed
                PROVE  (PendingIsOpen /\ OneHasIt /\ OthersAreOver /\ OpenHasItsObject)'
    BY <2>1 DEF TransactionInv
  <2>. t \in Unfinished
    BY DEF Unfinished, Commit
  <2>2. Unfinished = {t} /\ Unfinished' = {}
    BY <1>2 DEF TransactionInv, TransactionObjects, Unfinished, OneHasIt, Finish
  <2>3. during[t] \subseteq pending
    BY <2>2 DEF TransactionInv, OneHasIt
  <2>4. OthersAreOver'
    <3>. SUFFICES ASSUME NEW u \in Transactions
                  PROVE  /\ outcome'[u] = "committed" => during[u] \subseteq durable'
                         /\ outcome'[u] # "committed" => during[u] \cap durable' = {}
      BY <2>2 DEF OthersAreOver, Commit
    <3>1. CASE u = t
      BY <1>2, <2>3, <3>1 DEF CommitStatement, Finish, TransactionInv, TransactionObjects
    <3>2. CASE u # t
      BY <1>2, <2>2, <3>2 DEF CommitStatement, Finish, TransactionInv, TransactionObjects, OthersAreOver
    <3>. QED BY <3>1, <3>2
  <2>. QED
    BY <1>2, <2>2, <2>4 DEF PendingIsOpen, OneHasIt, OpenHasItsObject, CommitStatement
<1>. QED
  BY <1>1, <1>2 DEF Commit

\* The transaction is over and its statements are gone, by rollback() or by the
\* destructor.
LEMMA RollbackKeepsInv ==
  ASSUME TransactionInv, NEW t \in Unfinished, RollbackStatement,
         NEW last \in {"TRUE", "gone"},
         finished' = [finished EXCEPT ![t] = last],
         outcome' = [outcome EXCEPT ![t] = "rolled back"],
         executed' = executed, during' = during
  PROVE  TransactionInv'
<1>1. t \in Transactions
  BY DEF Unfinished
<1>2. Numbered' /\ TransactionObjects' /\ (Undisturbed' => Undisturbed)
  BY <1>1 DEF TransactionInv, RollbackStatement, Numbered, TransactionObjects, Undisturbed
<1>. SUFFICES ASSUME Undisturbed
              PROVE  (PendingIsOpen /\ OneHasIt /\ OthersAreOver /\ OpenHasItsObject)'
  BY <1>2 DEF TransactionInv
<1>3. Unfinished = {t} /\ Unfinished' = {}
  BY <1>1 DEF TransactionInv, TransactionObjects, Unfinished, OneHasIt
<1>4. OthersAreOver'
  <2>. SUFFICES ASSUME NEW u \in Transactions
                PROVE  /\ outcome'[u] = "committed" => during[u] \subseteq durable
                       /\ outcome'[u] # "committed" => during[u] \cap durable = {}
    BY <1>3 DEF OthersAreOver, RollbackStatement
  <2>1. CASE u = t
    BY <1>1, <1>3, <2>1 DEF TransactionInv, TransactionObjects, OneHasIt, PendingIsOpen
  <2>2. CASE u # t
    BY <1>3, <2>2 DEF TransactionInv, TransactionObjects, OthersAreOver
  <2>. QED BY <2>1, <2>2
<1>. QED
  BY <1>3, <1>4 DEF PendingIsOpen, OneHasIt, OpenHasItsObject, RollbackStatement

LEMMA DestructKeepsInv ==
  ASSUME TransactionInv, NEW t \in Transactions, Destruct(t)
  PROVE  TransactionInv'
<1>1. CASE finished[t] = "FALSE" /\ RollbackStatement /\ outcome' = [outcome EXCEPT ![t] = "rolled back"]
  <2>1. t \in Unfinished
    BY <1>1 DEF Unfinished
  <2>. QED
    BY <1>1, <2>1, RollbackKeepsInv DEF Destruct
<1>2. CASE /\ finished[t] = "TRUE"
           /\ UNCHANGED <<inTransaction, pending, durable, outcome, mishaps>>
  <2>1. Unfinished' = Unfinished
    BY <1>2 DEF TransactionInv, TransactionObjects, Unfinished, Destruct
  <2>2. Numbered' /\ TransactionObjects'
    BY <1>2 DEF TransactionInv, Numbered, TransactionObjects, Destruct
  <2>. QED
    BY <1>2, <2>1, <2>2 DEF TransactionInv, Destruct, Undisturbed, PendingIsOpen, OneHasIt,
                            OthersAreOver, OpenHasItsObject
<1>3. CASE /\ finished[t] = "FALSE"
           /\ outcome' = [outcome EXCEPT ![t] = "rolled back"]
           /\ mishaps' = mishaps \cup {"rollback failed"}
           /\ UNCHANGED <<inTransaction, pending, durable>>
  <2>1. Numbered' /\ TransactionObjects' /\ (Undisturbed' => Undisturbed)
    BY <1>3 DEF TransactionInv, Destruct, Numbered, TransactionObjects, Undisturbed
  <2>. SUFFICES ASSUME Undisturbed
                PROVE  (PendingIsOpen /\ OneHasIt /\ OthersAreOver /\ OpenHasItsObject)'
    BY <2>1 DEF TransactionInv
  <2>. t \in Unfinished
    BY <1>3 DEF Unfinished
  <2>2. Unfinished = {t} /\ Unfinished' = {}
    <3>1. Unfinished = {t}
      BY DEF TransactionInv, OneHasIt
    <3>2. finished' = [finished EXCEPT ![t] = "gone"] /\ DOMAIN finished = Transactions
      BY DEF TransactionInv, TransactionObjects, Destruct
    <3>. QED
      BY <3>1, <3>2 DEF Unfinished
  <2>3. OthersAreOver'
    <3>. SUFFICES ASSUME NEW u \in Transactions
                  PROVE  /\ outcome'[u] = "committed" => during[u] \subseteq durable
                         /\ outcome'[u] # "committed" => during[u] \cap durable = {}
      BY <1>3, <2>2 DEF OthersAreOver, Destruct
    <3>1. CASE u = t
      BY <1>3, <2>2, <3>1 DEF TransactionInv, TransactionObjects, OneHasIt, PendingIsOpen
    <3>2. CASE u # t
      BY <1>3, <2>2, <3>2 DEF TransactionInv, TransactionObjects, OthersAreOver
    <3>. QED BY <3>1, <3>2
  <2>. QED
    BY <1>3, <2>2, <2>3 DEF TransactionInv, PendingIsOpen, OneHasIt, OpenHasItsObject
<1>. QED
  BY <1>1, <1>2, <1>3 DEF Destruct

LEMMA ExecuteKeepsInv ==
  ASSUME TransactionInv, Execute
  PROVE  TransactionInv'
<1>1. CASE FailingStatement /\ UNCHANGED <<executed, during>>
  BY <1>1, FailureKeepsInv DEF Execute
<1>2. CASE /\ executed' = executed + 1
           /\ during' = [t \in Transactions |->
                           IF t \in Unfinished THEN during[t] \cup {executed} ELSE during[t]]
           /\ IF inTransaction
              THEN pending' = pending \cup {executed} /\ UNCHANGED durable
              ELSE durable' = durable \cup {executed} /\ UNCHANGED pending
           /\ UNCHANGED <<inTransaction, mishaps>>
  <2>. executed \in Nat
    BY DEF TransactionInv, Numbered
  <2>1. /\ executed \notin pending /\ executed \notin durable
        /\ \A t \in Transactions : executed \notin during[t]
    <3>1. \A n \in pending \cup durable : n < executed
      BY DEF TransactionInv, Numbered
    <3>2. \A t \in Transactions : \A n \in during[t] : n < executed
      BY DEF TransactionInv, TransactionObjects
    <3>. QED
      BY <3>1, <3>2
  <2>2. Unfinished' = Unfinished /\ finished' = finished /\ outcome' = outcome
    BY DEF Execute, Unfinished
  <2>3. Numbered'
    <3>1. pending' \cup durable' = pending \cup durable \cup {executed}
      BY <1>2
    <3>2. \A n \in pending' \cup durable' : n \in Nat /\ n < executed + 1
      <4>1. \A n \in pending \cup durable : n \in Nat /\ n < executed
        BY DEF TransactionInv, Numbered
      <4>2. \A n \in Nat : n < executed => n < executed + 1
        OBVIOUS
      <4>. QED
        BY <3>1, <4>1, <4>2
    <3>. QED
      BY <1>2, <3>2 DEF Numbered
  <2>4. TransactionObjects'
    <3>1. \A t \in Transactions : \A n \in during'[t] : n \in Nat /\ n < executed + 1
      <4>1. \A t \in Transactions : \A n \in during[t] : n \in Nat /\ n < executed
        BY DEF TransactionInv, TransactionObjects
      <4>2. \A n \in Nat : n < executed => n < executed + 1
        OBVIOUS
      <4>3. \A t \in Transactions : during'[t] \subseteq during[t] \cup {executed}
        BY <1>2
      <4>. QED
        BY <4>1, <4>2, <4>3
    <3>2. during' \in [Transactions -> SUBSET Nat]
      BY <1>2, <3>1
    <3>3. \A t \in Transactions : finished[t] = "unmade" => during'[t] = during[t]
      BY <1>2 DEF Unfinished
    <3>. QED
      BY <1>2, <2>2, <3>1, <3>2, <3>3 DEF TransactionInv, TransactionObjects
  <2>. SUFFICES ASSUME Undisturbed
                PROVE  (PendingIsOpen /\ OneHasIt /\ OthersAreOver /\ OpenHasItsObject)'
    BY <1>2, <2>3, <2>4 DEF TransactionInv, Undisturbed
  <2>5. PendingIsOpen'
    BY <1>2, <2>1 DEF TransactionInv, PendingIsOpen
  <2>6. OneHasIt'
    BY <1>2, <2>2 DEF TransactionInv, OneHasIt, Unfinished
  <2>7. OthersAreOver'
    <3>. SUFFICES ASSUME NEW t \in Transactions \ Unfinished
                  PROVE  /\ outcome[t] = "committed" => during[t] \subseteq durable'
                         /\ outcome[t] # "committed" =>
                              /\ during[t] \cap durable' = {}
                              /\ Unfinished # {} => during[t] \cap pending' = {}
      BY <1>2, <2>2 DEF OthersAreOver
    <3>. QED
      BY <1>2, <2>1 DEF TransactionInv, OthersAreOver
  <2>8. OpenHasItsObject'
    BY <1>2, <2>2 DEF TransactionInv, OpenHasItsObject
  <2>. QED
    BY <2>5, <2>6, <2>7, <2>8
<1>. QED
  BY <1>1, <1>2 DEF Execute

\* What commit has returned for is durable, what went without is not, and no
\* transaction is left open, whichever statements fail: for any number of
\* transaction objects and statements.
THEOREM AllOrNothing == TransactionSpec => []TransactionIsAllOrNothing
<1>1. TransactionInit => TransactionInv
  BY DEF TransactionInit, TransactionInv, Numbered, TransactionObjects, PendingIsOpen, OneHasIt,
         OthersAreOver, OpenHasItsObject, Unfinished
<1>2. TransactionInv /\ [TransactionNext]_transactionVars => TransactionInv'
  <2>. SUFFICES ASSUME TransactionInv, [TransactionNext]_transactionVars PROVE TransactionInv'
    OBVIOUS
  <2>1. ASSUME NEW t \in Transactions, BeginTransaction(t) PROVE TransactionInv'
    BY <2>1, BeginKeepsInv
  <2>2. ASSUME NEW t \in Transactions, Commit(t) PROVE TransactionInv'
    BY <2>2, CommitKeepsInv
  <2>3. ASSUME NEW t \in Transactions, Rollback(t) PROVE TransactionInv'
    <3>1. CASE FailingStatement /\ UNCHANGED <<finished, outcome>>
      BY <2>3, <3>1, FailureKeepsInv DEF Rollback
    <3>2. CASE RollbackStatement /\ Finish(t, "rolled back")
      <4>1. t \in Unfinished
        BY <2>3 DEF Rollback, Unfinished
      <4>. QED
        BY <2>3, <3>2, <4>1, RollbackKeepsInv DEF Rollback, Finish
    <3>. QED
      BY <2>3, <3>1, <3>2 DEF Rollback
  <2>4. ASSUME NEW t \in Transactions, Destruct(t) PROVE TransactionInv'
    BY <2>4, DestructKeepsInv
  <2>5. CASE Execute
    BY <2>5, ExecuteKeepsInv
  <2>6. CASE UNCHANGED transactionVars
    BY <2>6, StutterKeepsInv
  <2>. QED
    BY <2>1, <2>2, <2>3, <2>4, <2>5, <2>6 DEF TransactionNext
<1>3. TransactionInv => TransactionIsAllOrNothing
  BY InvImpliesProperty
<1>. QED
  BY <1>1, <1>2, <1>3, PTL DEF TransactionSpec

-----------------------------------------------------------------------------
(***************************************************************************)
(* ObjectsLiveWhileHeld, for any finite sets of pointers, of objects and   *)
(* of factories and any bound on the references that no pointer holds.     *)
(*                                                                         *)
(* The count of an object is the number of the pointers that hold it, of   *)
(* the references the client holds by hand and of those that were lost;    *)
(* each operation is one of a few changes of the pointers, whose effect on *)
(* the number of holders is a lemma of its own.                            *)
(***************************************************************************)
Holders(o) == {p \in Pointers : pointer[p] = o}

ComTyped ==
  /\ refCount \in [Objects -> Nat] /\ alive \subseteq Objects
  /\ dllLock \in Nat /\ serverLocks \in Nat
  /\ pointer \in [Pointers -> Objects \cup {Null}]
  /\ raw \in [Objects -> Nat] /\ leaked \in [Objects -> Nat]

\* Each reference is counted once, and the count decides who is alive.
Counted ==
  \A o \in Objects :
    /\ refCount[o] = Cardinality(Holders(o)) + raw[o] + leaked[o]
    /\ o \in alive <=> refCount[o] > 0

\* Each object holds the DLL, and so does each LockServer.
DllCounted == dllLock = Cardinality(alive) + serverLocks

ComInv == ComTyped /\ Counted /\ DllCounted

-----------------------------------------------------------------------------
LEMMA HoldersFinite ==
  ASSUME NEW o
  PROVE  IsFiniteSet(Holders(o)) /\ Cardinality(Holders(o)) \in Nat
<1>1. Holders(o) \in SUBSET Pointers
  BY DEF Holders
<1>. QED
  BY <1>1, PlacesAssumption, FS_Subset, FS_CardinalityType

LEMMA AliveFinite ==
  ASSUME ComTyped
  PROVE  IsFiniteSet(alive) /\ Cardinality(alive) \in Nat /\ (Cardinality(alive) = 0 <=> alive = {})
BY PlacesAssumption, FS_Subset, FS_CardinalityType, FS_EmptySet DEF ComTyped

\* A pointer that is set to x holds x instead of what it held.
LEMMA Repoint ==
  ASSUME ComTyped, NEW p \in Pointers, NEW x \in Objects \cup {Null},
         pointer' = [pointer EXCEPT ![p] = x], NEW o \in Objects
  PROVE  Cardinality(Holders(o)') = Cardinality(Holders(o)) + (IF o = x THEN 1 ELSE 0)
                                                      - (IF o = pointer[p] THEN 1 ELSE 0)
<1>1. \A q \in Pointers : pointer'[q] = IF q = p THEN x ELSE pointer[q]
  BY DEF ComTyped
<1>. DEFINE rest == Holders(o) \ {p}
<1>2. IsFiniteSet(Holders(o)) /\ Cardinality(Holders(o)) \in Nat
  BY HoldersFinite
<1>3. p \in Holders(o) <=> o = pointer[p]
  BY DEF Holders
<1>4. IsFiniteSet(rest)
      /\ Cardinality(rest) = Cardinality(Holders(o)) - (IF o = pointer[p] THEN 1 ELSE 0)
  BY <1>2, <1>3, FS_RemoveElement
<1>5. CASE o = x
  <2>1. Holders(o)' = rest \cup {p} /\ p \notin rest
    BY <1>1, <1>5 DEF Holders
  <2>2. Cardinality(rest \cup {p}) = Cardinality(rest) + 1
    BY <1>4, <2>1, FS_AddElement
  <2>. QED
    BY <1>2, <1>4, <1>5, <2>1, <2>2
<1>6. CASE o # x
  <2>1. Holders(o)' = rest
    BY <1>1, <1>6 DEF Holders
  <2>. QED
    BY <1>2, <1>4, <1>6, <2>1
<1>. QED
  BY <1>5, <1>6

LEMMA EmptyPointer ==
  ASSUME ComTyped, NEW p \in Pointers, pointer' = [pointer EXCEPT ![p] = Null], NEW o \in Objects
  PROVE  Cardinality(Holders(o)') = Cardinality(Holders(o)) - (IF o = pointer[p] THEN 1 ELSE 0)
<1>1. o # Null /\ Null \in Objects \cup {Null} /\ Cardinality(Holders(o)) \in Nat
  BY PlacesAssumption, HoldersFinite
<1>2. Cardinality(Holders(o)') = Cardinality(Holders(o)) + (IF o = Null THEN 1 ELSE 0)
                                                      - (IF o = pointer[p] THEN 1 ELSE 0)
  BY <1>1, Repoint, ZenonT(60)
<1>. QED
  BY <1>1, <1>2

LEMMA FillPointer ==
  ASSUME ComTyped, NEW p \in Pointers, pointer[p] = Null, NEW x \in Objects,
         pointer' = [pointer EXCEPT ![p] = x], NEW o \in Objects
  PROVE  Cardinality(Holders(o)') = Cardinality(Holders(o)) + (IF o = x THEN 1 ELSE 0)
<1>1. o # Null /\ x \in Objects \cup {Null} /\ Cardinality(Holders(o)) \in Nat
  BY PlacesAssumption, HoldersFinite
<1>2. Cardinality(Holders(o)') = Cardinality(Holders(o)) + (IF o = x THEN 1 ELSE 0)
                                                      - (IF o = pointer[p] THEN 1 ELSE 0)
  BY <1>1, Repoint, ZenonT(60)
<1>. QED
  BY <1>1, <1>2

\* A pointer that takes over what another held, which then holds nothing.
LEMMA MoveHolders ==
  ASSUME ComTyped, NEW p \in Pointers, NEW q \in Pointers, p # q,
         pointer' = [pointer EXCEPT ![p] = pointer[q], ![q] = Null], NEW o \in Objects
  PROVE  Cardinality(Holders(o)') = Cardinality(Holders(o)) - (IF o = pointer[p] THEN 1 ELSE 0)
<1>1. \A u \in Pointers :
        pointer'[u] = IF u = q THEN Null ELSE IF u = p THEN pointer[q] ELSE pointer[u]
  BY DEF ComTyped
<1>. DEFINE rest == Holders(o) \ {p}
<1>2. IsFiniteSet(Holders(o)) /\ Cardinality(Holders(o)) \in Nat
  BY HoldersFinite
<1>3. p \in Holders(o) <=> o = pointer[p]
  BY DEF Holders
<1>4. IsFiniteSet(rest)
      /\ Cardinality(rest) = Cardinality(Holders(o)) - (IF o = pointer[p] THEN 1 ELSE 0)
  BY <1>2, <1>3, FS_RemoveElement
<1>5. CASE pointer[q] = o
  <2>1. Holders(o)' = (rest \ {q}) \cup {p} /\ q \in rest /\ p \notin rest \ {q}
    BY <1>1, <1>5, PlacesAssumption DEF Holders
  <2>2. IsFiniteSet(rest \ {q}) /\ Cardinality(rest \ {q}) = Cardinality(rest) - 1
    BY <1>4, <2>1, FS_RemoveElement
  <2>3. Cardinality((rest \ {q}) \cup {p}) = Cardinality(rest \ {q}) + 1
    BY <2>1, <2>2, FS_AddElement
  <2>4. Cardinality(rest) \in Nat
    BY <1>4, FS_CardinalityType
  <2>. QED
    BY <1>4, <2>1, <2>2, <2>3, <2>4
<1>6. CASE pointer[q] # o
  <2>1. Holders(o)' = rest
    BY <1>1, <1>6, PlacesAssumption DEF Holders
  <2>. QED
    BY <1>4, <2>1
<1>. QED
  BY <1>5, <1>6

LEMMA ComInvInit == ComInit => ComInv
<1>. SUFFICES ASSUME ComInit PROVE ComInv
  OBVIOUS
<1>1. \A o \in Objects : Holders(o) = {}
  BY PlacesAssumption DEF ComInit, Holders
<1>2. Cardinality({}) = 0
  BY FS_EmptySet
<1>. QED
  BY <1>1, <1>2 DEF ComInit, ComInv, ComTyped, Counted, DllCounted

\* Whom a pointer holds is alive.
LEMMA HeldIsCounted ==
  ASSUME ComInv, NEW p \in Pointers, pointer[p] # Null
  PROVE  pointer[p] \in Objects /\ refCount[pointer[p]] >= 1
<1>1. pointer[p] \in Objects
  BY DEF ComInv, ComTyped
<1>. DEFINE o == pointer[p]
<1>2. IsFiniteSet(Holders(o)) /\ Cardinality(Holders(o)) \in Nat /\ Holders(o) # {}
  BY HoldersFinite DEF Holders
<1>3. Cardinality(Holders(o)) # 0
  BY <1>2, FS_EmptySet
<1>4. raw[o] \in Nat /\ leaked[o] \in Nat /\ refCount[o] = Cardinality(Holders(o)) + raw[o] + leaked[o]
  BY <1>1 DEF ComInv, ComTyped, Counted
<1>. QED
  BY <1>1, <1>2, <1>3, <1>4

\* What a step may make of the counts: they change by d[o], and the objects
\* that are alive and the DLL's lock follow.
Recounts(d) ==
  /\ refCount' \in [Objects -> Nat] /\ alive' \subseteq Objects /\ dllLock' \in Nat
  /\ \A o \in Objects : refCount'[o] = refCount[o] + d[o] /\ (o \in alive' <=> refCount'[o] > 0)
  /\ dllLock' - dllLock = Cardinality(alive') - Cardinality(alive)

LEMMA NothingRecounted ==
  ASSUME ComInv, UNCHANGED <<refCount, alive, dllLock>>
  PROVE  Recounts([o \in Objects |-> 0])
<1>1. Cardinality(alive) \in Nat
  BY AliveFinite DEF ComInv
<1>. QED
  BY <1>1 DEF Recounts, ComInv, ComTyped, Counted

LEMMA AddRefRecounts ==
  ASSUME ComInv, NEW x \in Objects, refCount[x] >= 1, AddRef(x)
  PROVE  Recounts([o \in Objects |-> IF o = x THEN 1 ELSE 0])
<1>1. Cardinality(alive) \in Nat
  BY AliveFinite DEF ComInv
<1>. QED
  BY <1>1 DEF Recounts, ComInv, ComTyped, Counted, AddRef

LEMMA NewObjectRecounts ==
  ASSUME ComInv, NEW x \in Objects, NEW found \in BOOLEAN, NewObject(x, found)
  PROVE  Recounts([o \in Objects |-> IF o = x /\ found THEN 1 ELSE 0])
<1>1. IsFiniteSet(alive) /\ Cardinality(alive) \in Nat
  BY AliveFinite DEF ComInv
<1>2. CASE found = TRUE
  <2>1. refCount[x] = 0 /\ x \notin alive
    BY DEF NewObject, ComInv, ComTyped, Counted
  <2>2. alive' = alive \cup {x} /\ dllLock' = dllLock + 1 /\ refCount' = [refCount EXCEPT ![x] = 1]
    BY <1>2 DEF NewObject
  <2>3. Cardinality(alive') = Cardinality(alive) + 1
    BY <1>1, <2>1, <2>2, FS_AddElement
  <2>. QED
    BY <1>1, <1>2, <2>1, <2>2, <2>3 DEF Recounts, ComInv, ComTyped, Counted
<1>3. CASE found = FALSE
  <2>1. UNCHANGED <<refCount, alive, dllLock>>
    BY <1>3 DEF NewObject
  <2>. QED
    BY <1>3, <2>1, NothingRecounted
<1>. QED
  BY <1>2, <1>3

\* One that is released with the last reference to it releases the DLL.
LEMMA ReleaseRecounts ==
  ASSUME ComInv, NEW x \in Objects, refCount[x] >= 1, ReleaseObject(x)
  PROVE  Recounts([o \in Objects |-> IF o = x THEN -1 ELSE 0])
<1>1. IsFiniteSet(alive) /\ Cardinality(alive) \in Nat /\ x \in alive
  BY AliveFinite DEF ComInv, ComTyped, Counted
<1>2. CASE refCount[x] = 1
  <2>1. alive' = alive \ {x} /\ dllLock' = dllLock - 1 /\ refCount' = [refCount EXCEPT ![x] = refCount[x] - 1]
    BY <1>2 DEF ReleaseObject
  <2>2. Cardinality(alive') = Cardinality(alive) - 1 /\ Cardinality(alive') \in Nat
    BY <1>1, <2>1, FS_RemoveElement, FS_CardinalityType
  <2>3. dllLock' \in Nat
    BY <1>1, <2>1, <2>2 DEF ComInv, ComTyped, DllCounted
  <2>. QED
    BY <1>1, <1>2, <2>1, <2>2, <2>3 DEF Recounts, ComInv, ComTyped, Counted
<1>3. CASE refCount[x] # 1
  BY <1>1, <1>3 DEF Recounts, ComInv, ComTyped, Counted, ReleaseObject
<1>. QED
  BY <1>2, <1>3

\* The invariant holds again when what the pointers and the others hold of each
\* object has changed by as much as its count.
LEMMA Recounted ==
  ASSUME ComInv, NEW d, Recounts(d), serverLocks' = serverLocks,
         pointer' \in [Pointers -> Objects \cup {Null}],
         raw' \in [Objects -> Nat], leaked' \in [Objects -> Nat],
         \A o \in Objects :
           refCount[o] + d[o] = Cardinality(Holders(o)') + raw'[o] + leaked'[o]
  PROVE  ComInv'
<1>1. Counted' /\ ComTyped'
  BY DEF Recounts, Counted, ComInv, ComTyped
<1>2. Cardinality(alive) \in Nat /\ Cardinality(alive') \in Nat
  <2>1. alive' \in SUBSET Objects
    BY DEF Recounts
  <2>. QED
    BY <2>1, AliveFinite, PlacesAssumption, FS_Subset, FS_CardinalityType DEF ComInv
<1>3. DllCounted'
  BY <1>2 DEF Recounts, DllCounted, ComInv, ComTyped
<1>. QED
  BY <1>1, <1>3 DEF ComInv

LEMMA OverwriteHolds ==
  ASSUME ComInv, NEW p \in Pointers, NEW x \in Objects \cup {Null}, Overwrite(p, x)
  PROVE  /\ pointer' \in [Pointers -> Objects \cup {Null}] /\ leaked' \in [Objects -> Nat]
         /\ \A o \in Objects :
              Cardinality(Holders(o)') + leaked'[o]
                = Cardinality(Holders(o)) + leaked[o] + (IF o = x THEN 1 ELSE 0)
<1>1. /\ pointer' = [pointer EXCEPT ![p] = x] /\ pointer[p] \in Objects \cup {Null}
      /\ pointer \in [Pointers -> Objects \cup {Null}] /\ leaked \in [Objects -> Nat] /\ ComTyped
  BY DEF Overwrite, ComInv, ComTyped
<1>2. /\ leaked' \in [Objects -> Nat]
      /\ \A o \in Objects : leaked'[o] = leaked[o] + (IF o = pointer[p] THEN 1 ELSE 0)
  BY <1>1, PlacesAssumption DEF Overwrite
<1>3. \A o \in Objects : /\ Cardinality(Holders(o)) \in Nat
                        /\ Cardinality(Holders(o)') = Cardinality(Holders(o)) + (IF o = x THEN 1 ELSE 0)
                                                        - (IF o = pointer[p] THEN 1 ELSE 0)
  <2>1. ASSUME NEW o \in Objects
        PROVE  Cardinality(Holders(o)') = Cardinality(Holders(o)) + (IF o = x THEN 1 ELSE 0)
                                                            - (IF o = pointer[p] THEN 1 ELSE 0)
    BY <1>1, Repoint, ZenonT(60)
  <2>. QED
    BY <2>1, HoldersFinite
<1>. QED
  BY <1>1, <1>2, <1>3

-----------------------------------------------------------------------------
LEMMA ComInvStep == ComInv /\ [ComNext]_comVars => ComInv'
<1>. SUFFICES ASSUME ComInv, [ComNext]_comVars PROVE ComInv'
  OBVIOUS
<1>1. /\ pointer \in [Pointers -> Objects \cup {Null}]
      /\ raw \in [Objects -> Nat] /\ leaked \in [Objects -> Nat] /\ refCount \in [Objects -> Nat]
      /\ serverLocks \in Nat /\ dllLock \in Nat /\ ComTyped
  BY DEF ComInv, ComTyped
<1>2. \A o \in Objects : /\ Cardinality(Holders(o)) \in Nat
                        /\ refCount[o] = Cardinality(Holders(o)) + raw[o] + leaked[o]
  BY HoldersFinite DEF ComInv, Counted
\* What a pointer is given counts as a reference of its own.
<1>3. ASSUME NEW q \in Pointers, NEW x \in Objects \cup {Null}, NEW d, Recounts(d), Overwrite(q, x),
             \A o \in Objects : d[o] = IF o = x THEN 1 ELSE 0,
             UNCHANGED <<serverLocks, raw>>
      PROVE  ComInv'
  <2>1. /\ pointer' \in [Pointers -> Objects \cup {Null}] /\ leaked' \in [Objects -> Nat]
        /\ \A o \in Objects : Cardinality(Holders(o)') + leaked'[o]
                                 = Cardinality(Holders(o)) + leaked[o] + d[o]
    BY <1>3, OverwriteHolds
  <2>2. \A o \in Objects : IsFiniteSet(Holders(o)') /\ Cardinality(Holders(o)') \in Nat
    <3>1. \A o \in Objects : Holders(o)' \in SUBSET Pointers
      BY DEF Holders
    <3>. QED
      BY <3>1, PlacesAssumption, FS_Subset, FS_CardinalityType
  <2>3. \A o \in Objects : refCount[o] + d[o] = Cardinality(Holders(o)') + raw'[o] + leaked'[o]
    <3>. SUFFICES ASSUME NEW o \in Objects
                  PROVE  refCount[o] + d[o] = Cardinality(Holders(o)') + raw[o] + leaked'[o]
      BY <1>3
    <3>1. Cardinality(Holders(o)') + leaked'[o] = Cardinality(Holders(o)) + leaked[o] + d[o]
      BY <2>1
    <3>2. /\ raw[o] \in Nat /\ leaked[o] \in Nat /\ leaked'[o] \in Nat /\ d[o] \in Nat
          /\ Cardinality(Holders(o)) \in Nat /\ Cardinality(Holders(o)') \in Nat
      BY <1>1, <1>2, <1>3, <2>1, <2>2
    <3>3. refCount[o] = Cardinality(Holders(o)) + raw[o] + leaked[o]
      BY <1>2
    <3>. QED
      BY <3>1, <3>2, <3>3
  <2>. QED
    BY <1>1, <1>3, <2>1, <2>3, Recounted
<1>4. ASSUME NEW q \in Pointers, NEW x \in Objects, NEW found \in BOOLEAN,
             NewObject(x, found), Overwrite(q, IF found THEN x ELSE Null),
             UNCHANGED <<serverLocks, raw>>
      PROVE  ComInv'
  <2>1. Recounts([o \in Objects |-> IF o = x /\ found THEN 1 ELSE 0])
    BY <1>4, NewObjectRecounts
  <2>. QED
    BY <1>3, <1>4, <2>1, PlacesAssumption
<1>5. ASSUME NEW p \in Pointers, GetClassObject(p) PROVE ComInv'
  BY <1>4, <1>5, PlacesAssumption DEF GetClassObject
<1>6. ASSUME NEW p \in Pointers, NEW q \in Pointers, CreateInstance(p, q) PROVE ComInv'
  BY <1>4, <1>6 DEF CreateInstance
<1>7. ASSUME NEW p \in Pointers, LockServer(p) PROVE ComInv'
  <2>1. ComTyped' /\ Counted'
    BY <1>1, <1>7, AliveFinite DEF LockServer, ComInv, ComTyped, Counted, DllCounted, Holders
  <2>2. DllCounted'
    BY <1>1, <1>7, AliveFinite DEF LockServer, ComInv, DllCounted
  <2>. QED
    BY <2>1, <2>2 DEF ComInv
<1>8. ASSUME NEW p \in Pointers, Release(p) PROVE ComInv'
  <2>. DEFINE x == pointer[p]
  <2>1. x \in Objects /\ refCount[x] >= 1
    BY <1>8, HeldIsCounted DEF Release
  <2>2. Recounts([o \in Objects |-> IF o = x THEN -1 ELSE 0])
    BY <1>8, <2>1, ReleaseRecounts DEF Release
  <2>3. \A o \in Objects : Cardinality(Holders(o)') = Cardinality(Holders(o)) - (IF o = x THEN 1 ELSE 0)
    BY <1>1, <1>8, EmptyPointer DEF Release
  <2>. QED
    BY <1>1, <1>2, <1>8, <2>1, <2>2, <2>3, Recounted DEF Release
<1>9. ASSUME NEW p \in Pointers, Detach(p) PROVE ComInv'
  <2>. DEFINE x == pointer[p]
  <2>1. x \in Objects
    BY <1>9, HeldIsCounted DEF Detach
  <2>2. Recounts([o \in Objects |-> 0])
    BY <1>9, NothingRecounted DEF Detach
  <2>3. \A o \in Objects : Cardinality(Holders(o)') = Cardinality(Holders(o)) - (IF o = x THEN 1 ELSE 0)
    BY <1>1, <1>9, EmptyPointer DEF Detach
  <2>4. raw' \in [Objects -> Nat] /\ \A o \in Objects : raw'[o] = raw[o] + (IF o = x THEN 1 ELSE 0)
    BY <1>1, <1>9, <2>1 DEF Detach
  <2>. QED
    BY <1>1, <1>2, <1>9, <2>2, <2>3, <2>4, Recounted DEF Detach
<1>10. ASSUME NEW p \in Pointers, NEW x \in Objects, Attach(p, x) PROVE ComInv'
  <2>1. Recounts([o \in Objects |-> 0])
    BY <1>10, NothingRecounted DEF Attach
  <2>2. \A o \in Objects : Cardinality(Holders(o)') = Cardinality(Holders(o)) + (IF o = x THEN 1 ELSE 0)
    BY <1>1, <1>10, FillPointer DEF Attach
  <2>3. raw' \in [Objects -> Nat] /\ \A o \in Objects : raw'[o] = raw[o] - (IF o = x THEN 1 ELSE 0)
    BY <1>1, <1>10 DEF Attach
  <2>. QED
    BY <1>1, <1>2, <1>10, <2>1, <2>2, <2>3, Recounted DEF Attach
<1>11. ASSUME NEW p \in Pointers, NEW q \in Pointers, Copy(p, q) PROVE ComInv'
  <2>. DEFINE x == pointer[q]
  <2>1. x \in Objects /\ refCount[x] >= 1
    BY <1>11, HeldIsCounted DEF Copy
  <2>2. Recounts([o \in Objects |-> IF o = x THEN 1 ELSE 0])
    BY <1>11, <2>1, AddRefRecounts DEF Copy
  <2>3. \A o \in Objects : Cardinality(Holders(o)') = Cardinality(Holders(o)) + (IF o = x THEN 1 ELSE 0)
    BY <1>1, <1>11, <2>1, FillPointer DEF Copy
  <2>. QED
    BY <1>1, <1>2, <1>11, <2>1, <2>2, <2>3, Recounted DEF Copy
<1>12. ASSUME NEW p \in Pointers, NEW q \in Pointers, Move(p, q) PROVE ComInv'
  <2>. DEFINE x == pointer[p]
  <2>1. \A o \in Objects : Cardinality(Holders(o)') = Cardinality(Holders(o)) - (IF o = x THEN 1 ELSE 0)
    BY <1>1, <1>12, MoveHolders DEF Move
  <2>2. pointer' \in [Pointers -> Objects \cup {Null}]
    BY <1>1, <1>12 DEF Move
  <2>3. CASE x = Null
    <3>1. Recounts([o \in Objects |-> 0])
      BY <1>12, <2>3, NothingRecounted DEF Move
    <3>2. \A o \in Objects : Cardinality(Holders(o)') = Cardinality(Holders(o))
      BY <1>2, <2>1, <2>3, PlacesAssumption
    <3>3. \A o \in Objects : refCount[o] + 0 = Cardinality(Holders(o)') + raw'[o] + leaked'[o]
      BY <1>1, <1>2, <1>12, <3>2 DEF Move
    <3>. QED
      BY <3>3, <1>1, <1>12, <2>2, <3>1, Recounted DEF Move
  <2>4. CASE x # Null
    <3>1. x \in Objects /\ refCount[x] >= 1 /\ ReleaseObject(x)
      BY <1>12, <2>4, HeldIsCounted DEF Move
    <3>2. Recounts([o \in Objects |-> IF o = x THEN -1 ELSE 0])
      BY <3>1, ReleaseRecounts
    <3>. QED
      BY <1>1, <1>2, <1>12, <2>1, <2>2, <3>1, <3>2, Recounted DEF Move
  <2>. QED
    BY <2>3, <2>4
<1>13. ASSUME NEW p \in Pointers, NEW q \in Pointers, QueryInterface(p, q) PROVE ComInv'
  <2>1. pointer[p] \in Objects /\ refCount[pointer[p]] >= 1
    BY <1>13, HeldIsCounted DEF QueryInterface
  <2>2. CASE AddRef(pointer[p]) /\ Overwrite(q, pointer[p])
    <3>1. Recounts([o \in Objects |-> IF o = pointer[p] THEN 1 ELSE 0])
      BY <2>1, <2>2, AddRefRecounts
    <3>. QED
      BY <1>3, <1>13, <2>1, <2>2, <3>1 DEF QueryInterface
  <2>3. CASE Overwrite(q, Null) /\ UNCHANGED <<refCount, alive, dllLock>>
    <3>1. Recounts([o \in Objects |-> 0])
      BY <2>3, NothingRecounted
    <3>. QED
      BY <1>3, <1>13, <2>3, <3>1, PlacesAssumption DEF QueryInterface
  <2>. QED
    BY <1>13, <2>2, <2>3 DEF QueryInterface
<1>14. ASSUME NEW p \in Pointers, NEW q \in Pointers, Assign(p, q) PROVE ComInv'
  <2>. DEFINE x == pointer[p]
              y == pointer[q]
              d == [o \in Objects |-> (IF o = y THEN 1 ELSE 0) - (IF o = x THEN 1 ELSE 0)]
  <2>1. pointer' \in [Pointers -> Objects \cup {Null}] /\ y \in Objects \cup {Null}
    BY <1>1, <1>14 DEF Assign
  <2>2. \A o \in Objects : Cardinality(Holders(o)') = Cardinality(Holders(o)) + d[o]
    <3>1. pointer' = [pointer EXCEPT ![p] = y]
      BY <1>14 DEF Assign
    <3>2. ASSUME NEW o \in Objects
          PROVE  Cardinality(Holders(o)') = Cardinality(Holders(o)) + (IF o = y THEN 1 ELSE 0)
                                                              - (IF o = x THEN 1 ELSE 0)
      <4>. HIDE DEF y
      <4>. QED
        BY <1>1, <2>1, <3>1, Repoint, ZenonT(60)
    <3>. QED
      BY <1>2, <3>2
  <2>3. Recounts(d)
    <3>1. CASE x = y
      <4>1. Recounts([o \in Objects |-> 0])
        BY <1>14, <3>1, NothingRecounted DEF Assign
      <4>. QED
        BY <3>1, <4>1
    <3>2. CASE x # y
      <4>1. refCount' = [o \in Objects |-> refCount[o] + (IF o = y THEN 1 ELSE 0)
                                                      - (IF o = x THEN 1 ELSE 0)]
        BY <1>14, <3>2 DEF Assign
      <4>2. x # Null => x \in Objects /\ refCount[x] >= 1
        BY HeldIsCounted
      <4>3. y # Null => y \in Objects /\ refCount[y] >= 1
        BY HeldIsCounted
      <4>4. refCount' \in [Objects -> Nat] /\ \A o \in Objects : refCount'[o] = refCount[o] + d[o]
        BY <1>1, <4>1, <4>2, PlacesAssumption
      <4>5. CASE x # Null /\ refCount[x] = 1
        <5>1. alive' = alive \ {x} /\ dllLock' = dllLock - 1
          BY <1>14, <3>2, <4>5 DEF Assign
        <5>2. IsFiniteSet(alive) /\ Cardinality(alive) \in Nat /\ x \in alive
          BY <4>2, <4>5, AliveFinite DEF ComInv, Counted
        <5>3. Cardinality(alive') = Cardinality(alive) - 1 /\ Cardinality(alive') \in Nat
          BY <5>1, <5>2, FS_RemoveElement, FS_CardinalityType
        <5>4. dllLock' \in Nat
          BY <1>1, <5>1, <5>2, <5>3 DEF ComInv, DllCounted
        <5>5. \A o \in Objects : o \in alive' <=> refCount'[o] > 0
          <6>1. refCount'[x] = 0 /\ x \notin alive'
            BY <1>1, <3>2, <4>1, <4>2, <4>5, <5>1
          <6>2. ASSUME NEW o \in Objects, o # x PROVE o \in alive' <=> refCount'[o] > 0
            <7>1. refCount[o] \in Nat /\ refCount'[o] = refCount[o] + (IF o = y THEN 1 ELSE 0)
              BY <1>1, <4>1, <6>2
            <7>2. o \in alive' <=> refCount[o] > 0
              BY <5>1, <6>2 DEF ComInv, Counted
            <7>3. o = y => refCount[o] >= 1
              BY <4>3, PlacesAssumption
            <7>. QED
              BY <7>1, <7>2, <7>3
          <6>. QED
            BY <6>1, <6>2
        <5>. QED
          BY <1>1, <4>4, <5>1, <5>2, <5>3, <5>4, <5>5 DEF Recounts, ComTyped
      <4>6. CASE ~(x # Null /\ refCount[x] = 1)
        <5>1. alive' = alive /\ dllLock' = dllLock
          BY <1>14, <3>2, <4>6 DEF Assign
        <5>2. \A o \in Objects : o \in alive' <=> refCount'[o] > 0
          BY <1>1, <3>2, <4>1, <4>2, <4>3, <4>6, <5>1, PlacesAssumption DEF ComInv, Counted
        <5>3. Cardinality(alive) \in Nat
          BY <1>1, AliveFinite
        <5>. QED
          BY <1>1, <4>4, <5>1, <5>2, <5>3 DEF Recounts, ComTyped
      <4>. QED
        BY <4>5, <4>6
    <3>. QED
      BY <3>1, <3>2
  <2>4. \A o \in Objects : refCount[o] + d[o] = Cardinality(Holders(o)') + raw'[o] + leaked'[o]
    BY <1>1, <1>2, <1>14, <2>2 DEF Assign
  <2>. QED
    BY <1>1, <1>14, <2>1, <2>3, <2>4, Recounted DEF Assign
<1>15. ASSUME NEW p \in Pointers, NEW x \in Objects, Share(p, x) PROVE ComInv'
  <2>1. refCount[x] >= 1
    BY <1>1, <1>15 DEF Share, ComInv, Counted
  <2>2. Recounts([o \in Objects |-> IF o = x THEN 1 ELSE 0])
    BY <1>15, <2>1, AddRefRecounts DEF Share
  <2>3. \A o \in Objects : Cardinality(Holders(o)') = Cardinality(Holders(o)) + (IF o = x THEN 1 ELSE 0)
    BY <1>1, <1>15, FillPointer DEF Share
  <2>. QED
    BY <1>1, <1>2, <1>15, <2>2, <2>3, Recounted DEF Share
<1>16. ASSUME NEW p \in Pointers, AddReference(p) PROVE ComInv'
  <2>. DEFINE x == pointer[p]
  <2>1. x \in Objects /\ refCount[x] >= 1
    BY <1>16, HeldIsCounted DEF AddReference
  <2>2. Recounts([o \in Objects |-> IF o = x THEN 1 ELSE 0])
    BY <1>16, <2>1, AddRefRecounts DEF AddReference
  <2>3. \A o \in Objects : Holders(o)' = Holders(o)
    BY <1>16 DEF AddReference, Holders
  <2>4. raw' \in [Objects -> Nat] /\ \A o \in Objects : raw'[o] = raw[o] + (IF o = x THEN 1 ELSE 0)
    BY <1>1, <1>16, <2>1 DEF AddReference
  <2>. QED
    BY <1>1, <1>2, <1>16, <2>2, <2>3, <2>4, Recounted DEF AddReference
<1>17. CASE UNCHANGED comVars
  BY <1>17 DEF comVars, ComInv, ComTyped, Counted, DllCounted, Holders
<1>. QED
  BY <1>5, <1>6, <1>7, <1>8, <1>9, <1>10, <1>11, <1>12, <1>13, <1>14, <1>15, <1>16,
     <1>17 DEF ComNext

\* The reference counts are true, and so is the lock count of the DLL.
THEOREM ObjectsLiveExactlyWhileHeld == ComSpec => []ObjectsLiveWhileHeld
<1>1. ComInv => ObjectsLiveWhileHeld
  <2>. SUFFICES ASSUME ComInv PROVE ObjectsLiveWhileHeld
    OBVIOUS
  <2>1. Cardinality(alive) \in Nat /\ (Cardinality(alive) = 0 <=> alive = {}) /\ serverLocks \in Nat
    BY AliveFinite DEF ComInv, ComTyped
  <2>2. DllCanUnloadNow <=> alive = {} /\ serverLocks = 0
    BY <2>1 DEF DllCanUnloadNow, ComInv, DllCounted
  <2>. QED
    BY <2>2 DEF ObjectsLiveWhileHeld, ComInv, Counted, Holders
<1>. QED
  BY <1>1, ComInvInit, ComInvStep, PTL DEF ComSpec

==============================================================================
