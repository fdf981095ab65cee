--------------------------------- MODULE Com ---------------------------------
(***************************************************************************)
(* xtd::com: the reference counts of Object (com_object.hpp), the lock     *)
(* count of the DLL (com.hpp), the class factory and the DLL's entry       *)
(* points (com_class_factory.hpp, com_dll.hpp), and the smart pointer      *)
(* through which a client uses them (com_pointer.hpp).                     *)
(***************************************************************************)
EXTENDS Naturals, FiniteSets

CONSTANTS
  Pointers,       \* the com::pointer objects of the client
  Objects,        \* the places of objects; those of
  FactoryPlaces,  \* these are class factories, the others instances
  MaxRaw,         \* bound: the references to an object that no pointer holds
  Null            \* nullptr

ASSUME PlacesAssumption ==
  /\ IsFiniteSet(Pointers) /\ IsFiniteSet(Objects)
  /\ Null \notin Objects /\ FactoryPlaces \subseteq Objects

VARIABLES
  refCount,  \* _ThisRefCnt of each object, and 0 for a place that is free
  alive,     \* the objects that are constructed
  dllLock,   \* GlobalDLLLock()
  serverLocks,  \* history: the calls LockServer(TRUE) that are not undone
  pointer,   \* _ptr of each pointer
  raw,       \* the references in the hands of the client itself
  leaked     \* history: those whose address was overwritten

comVars == <<refCount, alive, dllLock, serverLocks, pointer, raw, leaked>>

ComInit ==
  /\ refCount = [o \in Objects |-> 0] /\ alive = {} /\ dllLock = 0 /\ serverLocks = 0
  /\ pointer = [p \in Pointers |-> Null]
  /\ raw = [o \in Objects |-> 0] /\ leaked = [o \in Objects |-> 0]

-----------------------------------------------------------------------------
(* Object *)

\* Mutant: a copy of a pointer adds no reference.
HoldWithoutCounting(o) == UNCHANGED <<refCount, alive, dllLock>>

AddRef(o) ==
  /\ refCount' = [refCount EXCEPT ![o] = @ + 1]
  /\ UNCHANGED <<alive, dllLock>>

\* The destructor releases the DLL.
ReleaseObject(o) ==
  /\ refCount' = [refCount EXCEPT ![o] = @ - 1]
  /\ IF refCount[o] = 1
     THEN alive' = alive \ {o} /\ dllLock' = dllLock - 1
     ELSE UNCHANGED <<alive, dllLock>>

\* One that is constructed and found to have the interface (or not, and is
\* deleted) has had as many references as its caller keeps.
NewObject(o, found) ==
  /\ o \notin alive
  /\ IF found
     THEN /\ alive' = alive \cup {o} /\ dllLock' = dllLock + 1
          /\ refCount' = [refCount EXCEPT ![o] = 1]
     ELSE UNCHANGED <<refCount, alive, dllLock>>

\* operator& hands out the address of _ptr, and what it held is forgotten.
Overwrite(p, o) ==
  /\ pointer' = [pointer EXCEPT ![p] = o]
  /\ leaked' = IF pointer[p] = Null THEN leaked
               ELSE [leaked EXCEPT ![pointer[p]] = @ + 1]

Bounded == \A o \in Objects : raw[o] + leaked[o] < MaxRaw

-----------------------------------------------------------------------------
(* The DLL and its factories *)

\* DllGetClassObject: new, AddRef, QueryInterface, Release.
GetClassObject(p) ==
  /\ Bounded
  /\ \E f \in FactoryPlaces, found \in BOOLEAN :
       NewObject(f, found) /\ Overwrite(p, IF found THEN f ELSE Null)
  /\ UNCHANGED <<serverLocks, raw>>

\* CreateInstance of the factory that p holds, into q.
CreateInstance(p, q) ==
  /\ Bounded /\ pointer[p] \in FactoryPlaces
  /\ \E o \in Objects \ FactoryPlaces, found \in BOOLEAN :
       NewObject(o, found) /\ Overwrite(q, IF found THEN o ELSE Null)
  /\ UNCHANGED <<serverLocks, raw>>

LockServer(p) ==
  /\ pointer[p] \in FactoryPlaces
  /\ \/ /\ serverLocks < MaxRaw
        /\ dllLock' = dllLock + 1 /\ serverLocks' = serverLocks + 1
     \/ /\ serverLocks > 0
        /\ dllLock' = dllLock - 1 /\ serverLocks' = serverLocks - 1
  /\ UNCHANGED <<refCount, alive, pointer, raw, leaked>>

DllCanUnloadNow == dllLock = 0

-----------------------------------------------------------------------------
(* pointer *)

\* Assignment goes through a temporary that swaps with p and dies with what p
\* held before; the reference is added first.
Assign(p, q) ==
  /\ pointer' = [pointer EXCEPT ![p] = pointer[q]]
  /\ IF pointer[p] = pointer[q]
     THEN UNCHANGED <<refCount, alive, dllLock>>
     ELSE /\ refCount' = [o \in Objects |->
                            refCount[o] + (IF o = pointer[q] THEN 1 ELSE 0)
                                        - (IF o = pointer[p] THEN 1 ELSE 0)]
          /\ IF pointer[p] # Null /\ refCount[pointer[p]] = 1
             THEN alive' = alive \ {pointer[p]} /\ dllLock' = dllLock - 1
             ELSE UNCHANGED <<alive, dllLock>>
  /\ UNCHANGED <<serverLocks, raw, leaked>>

\* The copy constructor, into a pointer that holds nothing.
Copy(p, q) ==
  /\ pointer[p] = Null /\ pointer[q] # Null
  /\ pointer' = [pointer EXCEPT ![p] = pointer[q]]
  /\ AddRef(pointer[q])
  /\ UNCHANGED <<serverLocks, raw, leaked>>

\* pointer(ptr), and pointer(ptr, true), add a reference to an object that
\* somebody holds.
Share(p, o) ==
  /\ pointer[p] = Null /\ o \in alive
  /\ pointer' = [pointer EXCEPT ![p] = o]
  /\ AddRef(o)
  /\ UNCHANGED <<serverLocks, raw, leaked>>

\* pointer's AddRef(), for a reference that the client keeps.
AddReference(p) ==
  /\ Bounded /\ pointer[p] # Null
  /\ raw' = [raw EXCEPT ![pointer[p]] = @ + 1]
  /\ AddRef(pointer[p])
  /\ UNCHANGED <<serverLocks, pointer, leaked>>

\* The move assignment leaves q empty and releases what p held.
Move(p, q) ==
  /\ p # q
  /\ pointer' = [pointer EXCEPT ![p] = pointer[q], ![q] = Null]
  /\ IF pointer[p] = Null THEN UNCHANGED <<refCount, alive, dllLock>>
     ELSE ReleaseObject(pointer[p])
  /\ UNCHANGED <<serverLocks, raw, leaked>>

\* Release(), and the destructor.
Release(p) ==
  /\ pointer[p] # Null
  /\ pointer' = [pointer EXCEPT ![p] = Null]
  /\ ReleaseObject(pointer[p])
  /\ UNCHANGED <<serverLocks, raw, leaked>>

\* QueryInterface of the object that p holds, into q.
QueryInterface(p, q) ==
  /\ Bounded /\ pointer[p] # Null
  /\ \/ AddRef(pointer[p]) /\ Overwrite(q, pointer[p])
     \/ Overwrite(q, Null) /\ UNCHANGED <<refCount, alive, dllLock>>
  /\ UNCHANGED <<serverLocks, raw>>

Detach(p) ==
  /\ Bounded /\ pointer[p] # Null
  /\ pointer' = [pointer EXCEPT ![p] = Null]
  /\ raw' = [raw EXCEPT ![pointer[p]] = @ + 1]
  /\ UNCHANGED <<refCount, alive, dllLock, serverLocks, leaked>>

\* pointer(ptr, false) takes over a reference of the client's.
Attach(p, o) ==
  /\ pointer[p] = Null /\ raw[o] > 0
  /\ pointer' = [pointer EXCEPT ![p] = o]
  /\ raw' = [raw EXCEPT ![o] = @ - 1]
  /\ UNCHANGED <<refCount, alive, dllLock, serverLocks, leaked>>

ComNext ==
  \E p \in Pointers :
    \/ GetClassObject(p) \/ LockServer(p) \/ Release(p) \/ Detach(p)
    \/ AddReference(p)
    \/ \E q \in Pointers :
         CreateInstance(p, q) \/ Assign(p, q) \/ Copy(p, q) \/ Move(p, q)
         \/ QueryInterface(p, q)
    \/ \E o \in Objects : Attach(p, o) \/ Share(p, o)

ComSpec == ComInit /\ [][ComNext]_comVars

-----------------------------------------------------------------------------
(* Properties *)

\* An object lives exactly as long as a pointer, the client, or an address
\* that was overwritten refers to it, whatever the order in which pointers are
\* copied, moved, detached and handed out; and DllCanUnloadNow says yes only
\* when no object is left and the server is not locked.
ObjectsLiveWhileHeld ==
  /\ \A o \in Objects :
       /\ refCount[o] = Cardinality({p \in Pointers : pointer[p] = o}) + raw[o] + leaked[o]
       /\ o \in alive <=> refCount[o] > 0
  /\ DllCanUnloadNow <=> alive = {} /\ serverLocks = 0
==============================================================================
