# Verification of XTL

XTL (`include/xtd`) is a header library of C++ templates: concurrent containers
and locks, an on-disk B+ tree, a logger, callbacks, RPC, sockets, SQLite and COM
wrappers, parser combinators with grammars of many RFCs, and text processing.
This directory holds TLA+ models of its core, TLC configurations that check
them on small instances, and proofs, for every instance, of the properties that
matter most.

## 1. The system

| Component | State it keeps | Operations | How it meets the others | What makes it correct |
|---|---|---|---|---|
| `concurrent/rw_lock.hpp` | one atomic 32-bit word: a write bit and a reader count | `lock_read`, `try_lock_read`, `lock_write`, `try_lock_write`, `unlock`, `scope_read`, `scope_write` | threads share the word; it keeps no owner | a writer excludes everybody; the count is the readers; calls return |
| `concurrent/spin_lock.hpp`, `scope_locker` | one atomic word | `lock`, `try_lock`, `unlock` | shared word | one owner; the lock keeps being taken |
| `concurrent/recursive_spin_lock.hpp` | an atomic hash of the owner's thread id, a plain counter | `lock`, `try_lock`, `unlock` | shared word; the counter rests on it | one owner at any depth; the counter is never raced and is the depth; the owner never waits for itself |
| `concurrent/stack.hpp` | an atomic head, linked nodes on the heap | `push`, `try_pop`, `pop`, destructor, moves | threads share the list and the allocator | last in, first out; no node used after it is freed, leaked or handed out twice |
| `concurrent/hash_map.hpp` | a trie of buckets, 16 atomic pointers each | `insert`, `remove`, `exists`, `operator[]`, iteration | threads share buckets and values | every call takes effect at one instant; nothing leaks or dangles |
| `btree.hpp` | pages of a mapped file: header, leaves, branches, free list | `insert`, `update`, `insert_or_assign`, `erase`, `clear`, `operator[]`, lookup, iteration | calls `lru_cache`, which loads from `mapped_file` | a unique-key map; chain, tree and free list agree; a failure loses nothing |
| `mapped_file.hpp`, `lru_cache.hpp`, `mapped_vector.hpp` | the file's length, the mapping, the cached pages | `get`, `append`; lookup with eviction; `push_back`, iteration | under `btree` | a page appended is a new page; a cached page is the page asked for |
| `log.hpp` | a deque of callbacks under a mutex, the targets, a thread | `write`, `AddTarget`, `Exit` | writer threads queue, one thread runs | each message reaches each target once and in order; `Exit` returns |
| `callback.hpp` | a vector of receivers | `connect`, invocation | used by `socket`, by clients | every receiver runs once per invocation |
| `rpc.hpp` | a transport (null, pipe or TCP), server thread, client threads | `call`, `invoke`, `start_server`, `stop_server` | marshals over `socket` or `windows/pipe` | a call gets the reply to its own request; a stop ends every thread |
| `socket.hpp` | a descriptor | `connect`, `accept`, `read`, `write`, `select`, `close` | callbacks on events | what was written is what is read |
| `sqlite.hpp` | a handle, statements, the transaction flag | `transaction`, `command`, result sets | the SQLite library | a transaction ends once, committed or rolled back |
| `parse.hpp`, `parse_ast.hpp`, `grammars/` | the position in the input, the tree | `and_`, `or_`, `not_`, repetition | grammars are built of combinators | a failed match consumes no input; results agree with the grammar |
| `com/` | reference counts | `AddRef`, `Release`, `QueryInterface` | objects, pointers, the DLL count | freed exactly when the last reference goes |
| `unique_id.hpp`, `source_location.hpp` | value types | comparison | keys of ordered containers | `operator<` is a strict weak order |
| the rest | `process`, `dynamic_library`, `var`, `string`, `filesystem`, `event_trace`, `windows`, `nlp`, `queue`, ... | wrappers of system calls, conversions, unfinished code | | see section 7 |

The hard behaviours are the interleavings of threads on atomic words (the five
headers of `concurrent/`), memory that is freed while another thread still has
its address, an allocation that throws in the middle of an update of mapped
pages, queues and replies that race with a stop, and grammars whose first
alternative takes what a later one needs. `PROJECT.json` lists each one at its
line, with the properties that are about it.

## 2. The modules

### Concurrent classes

Every atomic load, store and compare-exchange of the concurrent classes is a
step of its own, labelled by the thread's `pc` (`rwPc` in `RwLock`); a local variable that lives
across steps is a function on threads with the code's name. Reads and writes of
memory that no other thread can reach are joined to the step beside them. The
atomics of the code use the default, sequentially consistent order, which is
what interleaving means. `compare_exchange_strong` does not fail spuriously.
Wait policies change no state and have no step. A client follows the RAII
classes of the headers: it releases what it holds, and only that.

* `LockUsers` declares the threads, for the three locks.
* `RwLock` (`rw_lock_base`). `lock` is `_lock`; a thread stands for one holder,
  so `mode` says what that holder has. `iOriginal` is the local of that name,
  kept between a load and its exchange, and across the turns of `lock_write`,
  where the code initialises it once. Only the threads in `BlockingWriters` ever
  call `lock_write`.
* `RwMutex`: what a reader/writer lock promises. `RwLock!ImplementsRwMutex` maps
  the holders to it.
* `SpinLock` (`spin_lock_base`, `scope_locker`) and `RecursiveSpinLock`
  (`recursive_spin_lock_base`), with `Mutex`, the counting mutex that both
  implement (with `MaxDepth` 1 for the former). `Hash` is a constant: the code
  relies on `std::hash` telling thread ids apart and avoiding `size_t(-1)`, which
  the standard does not promise; it is the assumption `HashAssumption`.
* `ConcurrentStack` (`stack`), with `Lifo`. Nodes are addresses; `live` is the
  heap; `operator new` may return an address that was freed; reading a freed
  node gives any pointer. `pop` is `try_pop` repeated: a failed try either
  returns or starts again. The destructor runs when nobody is inside.
* `HashMap` (`hash_map` and its one-nibble specialisation), with `KeyStore`, a
  linearizable set of keys: every call takes effect at one moment between its beginning and its
  end, with the answer that is true there (a `remove` may answer FALSE only if its key was
  absent at some moment of it, which `missed` remembers), and no `operator[]` answers without a
  value. The call whose assertion fails (line 378) stays at `asserted` and never returns: it answers
  nothing, so it does not weaken what the others promise. Two levels are modelled: the root and its leaf
  buckets. The levels between run the root's code. `raced` is a history
  variable: some thread has lost the exchange that publishes a bucket. What a
  load of a place of a deleted bucket returns is anything.

### Pages and the tree on them

* `BTree` (`btree`), with `KeyValueMap`, the unique-key map. The class is
  sequential, so an operation is one action; its effect is the translation of
  the code as a function on the file (`store`), recursion included. A call may
  append a nondeterministic number of pages and throws at the next one; the
  writes made by then stay, because the pages are mapped. `since` counts the
  calls from the first that threw.
* `Pages` (`mapped_file`, `lru_cache`, `mapped_vector`). `store` is the file's
  length, whether the mapping object is open, and the cached pages, most recent
  first. `Get` and `AppendPage` return the set of their outcomes (a page, or an
  exception, each with the store it leaves), on Unix and on Windows; a call that
  needs two pages chains two of them. The client is either the vector
  (`PushBack`, `GetItem`, `Size`, `Reopen`) or the cache used alone as the tree
  does (`GetPage`, `TreeAppend`).

### Threads, queues and peers

* `Log` (`log`). A critical section under `_callback_lock` is a step; the
  notification of `write`, which comes after the lock is released, is another.
  The callback thread pops one callback and walks the targets without the lock;
  `AddTarget` may move the vector's storage meanwhile (`storage` counts the moves). A walk that
  goes on in storage that was given up (`CallStale`) calls any target or none, or ends the
  program, and sets the history variable `dangled`: that is undefined behaviour, and the
  properties speak of the log until then. A target may throw.
* `Rpc` (`rpc_server`, `rpc_client` over `tcp_transport`, with `ipv4_tcp_stream`
  and `select` of `socket.hpp` inlined): `start_server`, `stop_server`, the thread
  that accepts, one worker per connection with its payload and `bResponseReady`,
  the blocking clients. `CloseWakes` says whether closing a listening socket wakes
  the accept on it, which Windows does and Linux does not; accept may fail.
* `RpcPipe` (`anonymous_pipe_transport` over `windows/pipe.hpp`): the client writes
  and polls, the server counts what has arrived, reads, invokes, replies; the
  server is stopped and started again.
* `Transaction` (`sqlite::transaction`, `database::execute`): begin, statements,
  commit, rollback, the destructor. Each statement may fail, and SQLite may end
  the transaction with it. SQLite is the external part.
* `Com` (`com_object`, `com_pointer`, `com_class_factory`, `com_dll`): the
  reference counts, the DLL's lock count, every constructor, assignment, method and
  operator of `pointer` but `CreateInstance` by COM itself, the factory and `DllCanUnloadNow`. `leaked` is a history
  variable for the references whose address `operator&` let be overwritten.

### The parser and its grammars

* `Grammar`: the combinators of `parse.hpp` as terms. A C++ rule is a type; here
  it is a value, and a grammar is a record of named rules. The input is a
  sequence of characters, and `Letters` splits a literal into them.
* `RFC1035`, `RFC3986`, `RFC5234`, `RFC5322`, `RFC5536`, `RFC5646`, `RFC7230` to
  `RFC7232`: the rules of these headers, each named as in the header. `RFC5646` also
  has the one rule of RFC 4647, `RFC7232` those of RFC 7233.
* `Parse`: the recursive descent of `parse.hpp`. A step is one call or return of a
  rule's `parse()`; `stack` holds the frames, `begin` is the iterator that all of
  them share by reference, `reply` what the last call returned.
* `ParseAst`: the parser of `parse_ast.hpp`. Its static functions call each other through
  one recursive function, `Ast`, of a node of the grammar, the operand it is at and a
  position; the result is a node with where it ends, or `Fails`. `Nodes` are the
  nodes of all grammars: a rule, and the way down from it.
* `Recognition`: the reference. The same terms read as ABNF, where any alternative
  and any number of rounds may be taken (`Derivable`).

### Composition

The tree's use of the cache is in `Pages` (`TreeAppend`), the socket is inside `Rpc`
and the pipe inside `RpcPipe`; the parser runs every grammar. The other parts
share no state in the code. `MCLocks` and `MCServices` put such parts side by side:
`subject` says which one a behaviour is of, and the others rest as they are
before their first use. A fair action of a part that rests is never enabled, so
the fairness of one part asks nothing of a behaviour of another.

`MCRwLock`, `MCConcurrentStack`, `MCHashMap`, `MCBTree` and `MCParse` give the other
instances their values, symmetry or view. Definitions introduced as a mutant
("Mutant: ...") are small bugs of the kind the property in question is there
to catch; nothing uses them in the specifications.

## 3. The runs

| Run | Instance | What it shows |
|---|---|---|
| `RwLock_writer` | 2 threads, both call `lock_write` | **violated**: `lock_write` takes the lock from a holder |
| `Locks` | 3 threads on one of the three locks | `rw_lock` with `lock_write`: only its retry makes holders conflict; `spin_lock` and `recursive_spin_lock`: `Mutex` is implemented, the lock keeps being taken, the counter is the depth, reentry does not wait |
| `Stack_poppers` | 2 poppers, 1 pusher, 2 addresses | **violated**: a popper reads a node the other has deleted |
| `HashMap` | 2 threads, 2 by 2 nibbles, 3 buckets, 3 values, all calls | buckets are accounted for always; until the publish race is lost, values too, and `KeyStore` is implemented |
| `HashMap_deleted` | 2 threads, 1 nibble, insert and remove | **violated**: the loser of the race inserts into the bucket it deleted |
| `HashMap_index` | 2 threads, all calls | **violated**: an `operator[]` that lost to an insert finds nothing after a remove, against its assertion |
| `BTree` | 5 keys, order 2, two values on two keys, appends that fail | until a call throws: tree, chain of leaves, free list, scan and counts are right and `KeyValueMap` is implemented; the call that throws takes no record from the chain |
| `BTree_throw` | the same | **violated**: keys are met twice after a call threw |
| `Parse` | rules of 11 grammars on all short words over a few characters each | every reply is the span it consumed, no rule is left-recursive, the two parsers end at the same place with the same characters, nothing underivable is accepted and seven rules argued to be exact refuse nothing derivable, every parse ends |
| `Parse_order` | three rules the header of RFC 5322 calls safe | **violated**: `domain` refuses an input that it derives |
| `Parse_tags` | `langtag` of RFC 5646 on `pt` and subtags | **violated**: `region` takes the beginning of a variant, and the tag is refused |
| `Services` | one small instance each of `RwLock`, `ConcurrentStack`, `Log`, `Rpc`, `RpcPipe`, `Pages`, `Transaction`, `Com` | see below |

What `Services` shows, part by part:

* rw_lock, three threads of which none calls `lock_write`: a writer (by `try_lock_write`)
  excludes everybody (`WriteIsExclusive`), the word is the readers or the write bit
  (`WordCountsHolders`), calls keep returning, a writer's unlock returns, and `RwMutex` is
  implemented.
* stack, two threads that push and one that pops: no use after free, no leak, `Lifo` is implemented,
  and calls keep succeeding (lock-freedom).
* log, until a walk has read storage that was given up: each target is given the messages in the
  order they were queued, none twice and none left out (`InQueueOrder`); when `Exit` returns,
  the backlog is written, and nothing queued behind `Exit` ever is (`ExitWritesTheBacklog`);
  `Exit` returns and no
  message sleeps in the queue (`QueueIsDrained`).
* rpc: a call returns what the server made of this very call although the id in
  the reply is never compared (`ReplyIsForTheCall`); calls and `stop_server` end,
  but for two cases the formula names: an accept that failed strands who waits in
  the backlog, and on Linux a stop waits for an accept nobody wakes
  (`NothingWaitsForEver`).
* pipe: a call gets its own reply, over stops and starts, and waits for ever only
  while the server stays stopped with a request unread (`PipeAnswersEachCall`).
* pages: every cached page lies within the file, none is cached twice, the cache
  keeps its bound (`CachedPagesAreBacked`); the vector reads back what was pushed,
  failures and reopening included (`VectorIsWhatWasPushed`).
* sqlite: `TransactionIsAllOrNothing`.
* com: an object's count is what holds it, it lives exactly while it is held, and the
  DLL may be unloaded exactly when nothing of it is in use (`ObjectsLiveWhileHeld`). A reference
  that `operator&` let be overwritten counts as held for ever (`leaked`): the property shows that the
  bookkeeping is true, and not that nothing leaks.

### Bounds, and why they are enough

* Locks: three threads give a holder, a contender and one that comes between;
  the recursive lock nests to the last count before its counter (`CountMod` 4) would
  wrap. The proofs remove the bounds. With `WriteLockBit` = 4 the word has 3 bits,
  and three threads cannot make the reader count reach the write bit: the code's
  2^31 cannot be reached by real threads either. (The header says the lock
  supports 2^31 readers; the 2^31st would turn the count into the write bit, so
  it is 2^31 - 1. The theorems assume fewer threads than the write bit.)
* Stack: a second pusher interferes with each step of a push and of a pop; three
  pushes on three addresses make an address come back while a popper holds it.
* Hash map: two nibbles at each level give keys that share a bucket and keys
  that do not. Three buckets suffice for two published and one being published;
  three values for one linked and two being made. A deleted bucket's address is
  not reused while a thread has it, so that such a use shows.
* B+ tree: at order 2, the least the class allows, five keys give trees of three
  levels, every case of a split, of an unlinked leaf (first, middle, last), of a
  branch left without a key, and of a chain of root collapses. `MaxSince` ends a
  behaviour one call after the call that threw; nothing more is claimed there.
  The `VIEW` renames pages in the order of the tree, then of the free list, then
  of the lost pages: nothing in the code depends on a page's number except that
  0 means none, and the length of the file stays in the view.
* Log: two writers of two messages, two targets at first and three at most. A
  second writer makes a notification come late; the `AddTarget` may move the storage or not,
  before a walk or in it.
* RPC: two callers with a client each, two calls of one and one of the other: a second
  call on a connection meets what the first left behind, and the other connection is
  in the backlog at a stop. One call has a handler and one does not. The pipe has
  one caller with three calls, and three starts of the server.
* Pages: pages of 2 bytes, a cache of 2, 2 items on a page and 5 pushes: four pages, so
  every call evicts, and the header's page competes with two data pages. `MaxPage` 3
  bounds the pages asked of the cache alone.
* Transactions: two objects (one after the other or nested), three statements.
* COM: three pointers, a factory and an instance, two raw references.
* Parser: for every rule, all words up to a length (1 to 7, by rule) over the two
  to four characters or pieces of text its alternatives turn on, between a prefix and a suffix where
  the rule has one. A piece is spelled into its characters. That a rule is exact is asked
  only of the seven in `ArguedRules`, each with inputs on which its alternatives have a
  prefix in common, and holds for these inputs. Others that the run parses are not exact
  (section 5). White space and ignored case are on for three of the rules. What the theorems
  ask of a grammar (section 4) is evaluated on all 4542 nodes of the 11 grammars whenever
  `MCParse` runs (`GrammarsAssumption`): `AllNodes` lists them, and `GrammarNodes`, the value
  of `Nodes`, is the same set by its definition, in which membership is cheap.
* Threads, addresses and values that are only compared for equality are symmetric
  in `HashMap` and `RwLock_writer`, which have no liveness property; the other runs
  use no symmetry.

`TypeOK` is stated for the concurrent classes and `BTree`. Where a theorem proves
it or another invariant of the run implies it, the run does not list it again.

Deadlock is checked in `Locks`: there is always a call to make. Elsewhere a
behaviour may end: the stack of `Stack_poppers` when its pushes are used up, the map when buckets or
values run out, a tree at `MaxSince`, a parse with its outcome, the services when the
calls are made or an exception ended the program. `CHECK_DEADLOCK` is off there;
that nothing waits for ever is a temporal property of each of them instead.

### Fairness

* A thread inside a call is scheduled again: `WF_vars(Running(t))`, by the name
  of each module's variables. The system's
  scheduler gives no more and the spin loops need no more.
* An owner unlocks: a destructor does it. Weak fairness suffices for `RwLock`,
  whose thread has nothing else to do while it holds the lock. A thread that owns
  a spin lock may call `try_lock` again, and a recursive one may nest, so
  `CallUnlock` is enabled again and again rather than continuously: strong
  fairness, which says that a scope ends whatever is called in it.
* `Call` actions have no fairness: a client need not call.
* The stack's `CallsKeepSucceeding`, and `CallsKeepReturning` and the
  `...KeepsBeingTaken` of the locks, are stated for the system and not for a
  thread: nothing in the code keeps a single thread from starving.
* `LogFairness`: the callback thread runs when it can, a writer that has queued
  notifies, `Exit` joins. Nobody has to write or to call `Exit`.
* `RpcFairness`, `PipeFairness`: the server's threads, the clients inside a call and
  the steps of `stop_server` are scheduled. Nobody has to call, to start or to stop,
  and accept need not fail.
* `Parse`: a thread that parses goes on (`WF_vars(Next)`).

## 4. The proofs

A module of proofs extends the modules it is about: `LockProofs` the three locks,
`StackProofs`, `HashMapProofs`, `LogProofs` and `PagesProofs` one each, `RpcProofs` `Rpc` and
`RpcPipe`, `ParseProofs` `Parse` and `ParseAst`, and `WrapperProofs` `Transaction` and `Com`. The
theorems are for every value of the constants
that satisfies the assumptions named here; the runs check the same properties on small
instances.

* `LockProofs`, `rw_lock`. `TypeCorrect` needs nothing. Exclusion, the truth of the word, the
  owner of the store of 0 and the refinement hold under `SafeClients`: nobody calls
  `lock_write`, and there are finitely many threads, fewer than the write bit. The
  exclusion is not inductive by itself: that an unlock's exchange takes one
  reader off follows only from what the word counts (`WordCountsHolders`), and that
  an expected value is a reader count only from where the thread is. `RwInv` is
  the type invariant, exclusion, the truth of the word, and `Control`, which says of
  each position in the code what the local and the mode may be. The lemmas
  `StartReading` to `StopWriting` say how a step of one thread changes the sets
  of holders and their number; each action then has one step of the proof.
  `OnlyRetriesConflict` is for clients that do call `lock_write`: it uses only
  `Locals`, what is known of the expected values.
* `LockProofs`, `spin_lock`: the word is 0 exactly when there is no owner, and an unlock is
  in progress only for an owner; mutual exclusion and the refinement follow.
* `LockProofs`, `recursive_spin_lock`: the invariant is `CountIsDepth` (while a thread is
  inside, the word is its hash and the counter its depth, and otherwise both are
  free) with what each position says of the depth. Single ownership follows because
  the hash tells threads apart; `CountIsNotRaced` because both touches of the counter
  are inside; the refinement because `Count` is the abstract acquire and `Uncount` the
  abstract release.
* `StackProofs`: `PoppedNodesLive`, `NothingLeaks` and `StackRefinement`, for finitely many
  addresses and clients of which one pops at most (`OnePopper`; with two the run
  `Stack_poppers` refutes the first). None of the three properties is inductive: what a pop
  frees is unreachable only because links have no cycle. The invariant `StackInv` says that some
  sequence is the list (`IsList`: `_root`, then each node's `_next`, without repetition), that
  it and the nodes in somebody's hands are all that is allocated, and that what a `try_pop` has read
  is still linked and its `_next` unchanged, because nobody else unlinks. A step makes of that
  sequence `<<n>> \o s`, `Tail(s)` or `s` (`StepKeepsList`), which is a push, a pop or nothing of
  `Lifo`. The properties speak of `Walk`, a recursive function; that it follows the
  sequence is `WalkFollowsList`, by the least index at which the two would differ.
* `HashMapProofs`, for any set of nibbles that is not empty. `EveryBucketAccounted` holds
  unconditionally. `EveryValueAccounted` and `MapRefinement` speak, as their properties do, of
  behaviours in which no thread has yet lost the race to publish a bucket. That a `remove` answers
  FALSE only for a key that was absent during the call is `MissedStep`, with `Missed` as the
  mapping. `Held` is what each
  key holds through its bucket; the invariant says that values in `Held` and in their makers' hands are
  all that are allocated, each once, that a bucket has one place, is empty until it is
  published, and that a thread in a bucket is in that of its key (`InItsBucket`). A step
  then keeps `Held`, makes a value, links it, drops it or deletes one (`StepEffect`), five cases for
  fifteen actions; the account and the refinement are each shown for these (`AccountedStep`,
  `PresentEffect`).
* `LogProofs`: `TargetsAreGivenInOrder` and `BacklogIsWritten`, for any number of threads, messages
  and targets, until a walk reads storage that an `AddTarget` gave up (`dangled`); `StaleWalk` shows
  that no other step can set it. The invariant says what the deque is at every moment (`QueueIsTheRest`): the
  messages after the first `Popped`, with the callback of `Exit` right behind the backlog while it
  waits and that of the destructor last; that the callback thread works at message `Popped`;
  that target i has been given those before it and, once the walk has passed i, this one; and
  that a target which `AddTarget` adds during a walk lies behind its end (`WalkIsInRange`).
  That nothing is written after `Exit` follows from `Threads`: only `Exit`'s callback sets the
  flag, and the thread does not take another one after that.
* `WrapperProofs`, `com`: `ObjectsLiveExactlyWhileHeld`, for finite sets of pointers and objects.
  The invariant is the property with types and with the number of living objects and
  server locks as the DLL's count (`DllCounted`), from which `DllCanUnloadNow` follows. The proof is
  about cardinalities: `Repoint` says how many pointers hold an object after one is set, and each
  operation changes count, pointers and lost references of each object by equal amounts (`Recounted`).
* `PagesProofs`: `CacheIsSound`, from `PagesAssumption` alone (sizes are positive). A
  call is a chain of `Get`, `AppendPage` and eviction, so the proof goes by their
  outcomes: `Sound`, what the property says of any store, is preserved by a page that
  is got (`GetGrows`: the file never shrinks and the page lies within it), by one
  that is appended, by the move of an entry to the front, by an eviction and by the
  insertion of a page that was not there; every action is a chain of these, wherever it throws.
  `VectorReadsBack`: the elements of two indices never share a place (`PlacesDiffer`, by
  division with remainder), so a `push_back` writes over no element, and a call that
  throws changes none.
* `WrapperProofs`, `sqlite`: `AllOrNothing`. The property speaks of what a finished object
  left, so the invariant must follow the statements before that: while an object
  is unfinished and SQLite has ended nothing, a transaction is open and what was
  executed during the object's life is pending (`OneHasIt`); of the others nothing is
  pending meanwhile (`OthersAreOver`); a statement's number is new; no two objects
  are unfinished at once, since a second `begin` fails.
* `RpcProofs`: `EachReplyIsForItsCall`, provided that each thread has a client of its
  own (`OneThreadEach`). The client takes whatever reply comes next, so the invariant
  `Dialogue` says what may be on its connection: outside a call nothing, but for a
  request to a worker that has ended; inside, the request, or the response in the worker, or the
  reply, and only one of them. `Served` ties a connection to the life of its worker,
  which is what makes `bResponseReady` false when a connection ends. Most steps touch one
  connection or one thread (`OneConnection`, `OneCall`), and the others keep their
  dialogue (`Elsewhere`).
* `RpcProofs`, the pipe: `PipeRepliesMatch`, the safety part of `PipeAnswersEachCall`, for one
  calling thread (`OnePipeCaller`) and any number of calls, stops and starts. The invariant says
  that the call has one message on its way, a request, what the server's thread took or a reply, and
  that outside a call there is none. With two threads it is false, as TLC shows on the model: a
  reply does not say whose call it answers, and a thread takes whatever arrives first.
* `ParseProofs`, for any grammars, samples and inputs. What a theorem needs of the grammars is a
  hypothesis: `AreNodes` (operands and the rules that are called exist; only `and_` may be empty),
  `AreNullable` (`Nullable` has every node that may match nothing), `LiteralsAreSolid` (a
  literal has no white space behind its first character) and `AreRanked` (`Rank` goes down with what
  a node may call before it has consumed anything).
  `RepliesAreSpans` needs the first three. Its invariant `SpanInv` says of each frame that waits that
  its text is the span from its `backup` to where its child was called, and that what it
  has matched in place may match nothing. With white space inside a literal the property would
  be false: the literal's characters are in the leaves and those that were skipped are not.
  `NoRuleCallsItselfInPlace` needs all but the literals: down the stack, `backup` goes back and, where it stays, the rank
  goes up (`OrderInv`).
* `ParseProofs`, the two parsers: `ParsersAgree`, under the same hypotheses as the last. First, the
  recursion of `parse_ast.hpp` ends: a call goes to a later position or, at the same one, down in an
  order (`Before`) made of whether an operand that must consume has been passed, the rank and the
  operands left. Any set of places has a first one in that order (`FirstPlace`), so there is exactly one function that
  satisfies the equations of `parse_ast.hpp` at every place, and it is `Ast` (`OneSolution`, `Together`,
  `AstIsSolved`). Then the machine of `parse.hpp` is compared with it: in `AgreeInv` each frame
  that waits is going to return what the function of its node does, if the child returns what its own
  does (`Owes`), and a reply is the child's value. Each combinator has one lemma (`AndAgrees`, ...): a call splits the
  equation at the child, a return inserts its value.

Model-checked only:

* every liveness property, which is outside the prover's logic: `CallsKeepReturning` and its
  like, `CallsKeepSucceeding`, `QueueIsDrained`, `NothingWaitsForEver`, `ParseEnds`, and
  the second half of `PipeAnswersEachCall`;
* the B+ tree and `Recognition`: their definitions recurse over the tree or the grammar
  as RECURSIVE operators, for which the provers have no rule. (Induction over naturals is within
  reach: the least counterexample exists, as in `LeastElement` and `LeastOf`.) That a rule's order of
  alternatives loses nothing is besides a fact about the one grammar, and false of others (`Parse_order`).

## 5. What the checks found

* `rw_lock.hpp:64`: `lock_write` loops with an expected value that the failed exchange
  has overwritten. It takes the lock on its second attempt, whoever holds it.
* `stack.hpp:52`: `try_pop` reads through a pointer another popper may have deleted.
* `hash_map.hpp:180`: the loser of the publish race inserts into the bucket it deleted.
* `hash_map.hpp:378`: `operator[]` asserts that the place holds a value after it lost the race to
  link one. A `remove` between the lost exchange and the load of line 375 makes it fail, and where
  assertions are compiled out a reference to nothing is returned.
* `btree.hpp:607` and `373`: pages are changed before the allocation that can fail.
* `grammars/RFC5322.hpp:673`: `domain` tries `dot-atom` before `obs-domain`. On `a .a`
  the first matches `a` and its trailing space, and nobody asks for the second, which
  derives the whole; lines 11-13 call this order safe.
* `grammars/RFC5646.hpp:182`: `region` is two letters that no letter follows, so it takes the `ao` of
  `pt-ao1990`, a valid variant, and the tag is refused. `not_alphanum`, which `variant` uses,
  would end it where a subtag ends; lines 13-14 say that the boundaries do so.

What reading the code for the models showed, in places where no run is needed or
where the property names the case as an exception:

* `rpc.hpp:173` and `socket.hpp:309`: `stop_server` closes a socket that nothing opens again, so a
  second `start_server` binds -1 and the exception leaves the server thread, which
  ends the program (`Rpc!RestartServer`). The comment of `rpc.hpp:181` expects the close
  to end accept; on Linux it does not.
* An accept that fails for another reason ends the loop, and who is in the backlog
  then waits for ever.
* `socket.hpp:535`: `tv_usec` is the time in ms divided by 1000, so the 250 ms of the worker
  are 0 and it polls without waiting. Lines 609 and 617 ignore that `send` and `recv`
  may move fewer bytes.
* `log.hpp:310`: the targets are walked without the lock under which `AddTarget` grows them, so a walk
  under way may go on in storage that was freed. Nothing in the source says that `AddTarget` may
  be called then; the model has what can happen and the properties end there.
* Rules that commit to a shorter alternative: `host` tries `IPv4address` before `reg_name`
  (`RFC3986.hpp:240`), so `//1.1.1.1a` is refused; `diag_identity` tries `path_identity` before `IPv4address`
  (`RFC5536.hpp:352`); `zh-min` and `no-bok` match the beginning of `zh-mina` and `no-boka`, which
  `langtag` derives (`RFC5646.hpp:229` and `255`). Their headers claim nothing else of them.
* `RFC5234.hpp:31`: with a signed `char`, `OCTET` is the range from 0 to -1, which holds these two
  and no others. `RFC5234!OCTET` has what the code has.
* `mapped_vector.hpp:43`: a page holds five items whatever their size and the page's.
* `mapped_file.hpp:88`: on Unix `get` leaves the file one byte over a multiple of the page, and
  the next `append` (line 107) maps at an offset that is none. Lines 170-172: on
  Windows a re-mapping that fails leaves the closed handle behind.
* `mapped_vector.hpp:142`: `begin()` of an empty vector differs from `end()`.
* `sqlite.hpp:290`: the move constructor of `transaction` swaps members that are not
  initialised.
* `com.hpp:12`: `GlobalDLLLock` is static, so each translation unit has a count of its own.

Everything else in the table holds.

## 6. What could come next

1. Proofs: that what a parse accepts is derivable (half of `OrderedChoiceIsExact`), with `Prefixes` as a
   function of places like `Ast`.
2. The B+ tree's `PagesAccounted`, if its recursion is stated as a fold over the path.
3. The remaining grammars, if they are moved to the present parser.
4. The iterator of `HashMap` beside a quiescent map.

## 7. What is not modelled

* Items of a `mapped_vector` that overrun their page: `Pages` counts items and not bytes.
* The move constructor of `sqlite::transaction`, and what `_finished` says once SQLite has ended a
  transaction by itself: the latter is modelled, and `TransactionIsAllOrNothing` is about the rest.
* COM: more than one translation unit, each of which has a DLL count of its own.
* Moves of `stack` and of locks, which are not meant to run beside other calls.
* The iterator of `hash_map`, documented as unsafe beside insertion and removal.
* Under `BTree`: a page is its bytes; the cache and the mapping are in `Pages`. The
  append numbers pages as the Windows code does; after a failed append the model
  lets later ones succeed, as they do for a file that is opened again. The
  constructor is modelled on a new file: on an existing one it leaves the header alone.
* `key_type`'s comparison is that of integers; values are opaque.
* Weak memory: no atomic of the code names an order weaker than the default.
* `callback.hpp`: a vector that one thread walks. Its one hard case, a receiver that
  connects another one, is undefined behaviour of `std::vector` on its next step; the
  callbacks of the socket are inlined in `Rpc`.
* `socket.hpp` beyond what the RPC uses: options, datagrams, addresses.
* RPC: the marshalling of arguments and the null transport, which is a function call;
  what a client that is shared by threads without a lock gets (the class requires
  one thread each, and `ReplyIsForTheCall` fails without it).
* What the built-in log targets do with a message.
* SQLite's prepared commands, result sets and field binders: conversions.
* COM registration, `CoCreateInstance` and the data object: Windows calls.
* The parser's regex terminal, its error list, and the editing of AST nodes.
* Grammars: the headers written for a parser that no longer exists (RFC 1123, 2234, 2616,
  3066), stubs and empty ones, and RFC 2229 and ISO 32000-1, which no test parses.
* `nlp`, `string`, `filesystem`, `process`, `dynamic_library`, `event_trace`, `var`,
  `unique_id`, `source_location` and the other Windows wrappers: data, conversions and system calls
  without a protocol of their own. `concurrent/queue.hpp` is compiled out and
  unfinished, `singleton.hpp` does not parse, and `shared_mem_obj.hpp` only declares.
