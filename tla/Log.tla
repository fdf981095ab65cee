--------------------------------- MODULE Log ---------------------------------
(***************************************************************************)
(* xtd::log (log.hpp): threads push what they write on a queue under a     *)
(* mutex, one callback thread pops it and walks the targets, and Exit      *)
(* pushes the callback that ends that thread and joins it.                 *)
(*                                                                         *)
(* A critical section under _callback_lock is one step.  The vector of     *)
(* targets is grown under that lock and walked without it.  A walk whose   *)
(* storage AddTarget has given up reads freed memory: the program ends, or *)
(* the message goes to any one target or to none, and the walk goes on.    *)
(* dangled remembers that this happened.                                   *)
(***************************************************************************)
EXTENDS Naturals, Sequences, FiniteSets, Functions

CONSTANTS
  LogWriters,      \* the threads that write
  MaxWrites,       \* bound: how often each of them does
  InitialTargets,  \* the targets the constructor makes
  MaxTargets,      \* bound: the targets there are after every AddTarget
  TargetsThrow     \* whether a target's operator() may throw

ASSUME LogAssumption == MaxWrites \in Nat /\ InitialTargets \in Nat

Messages == LogWriters \X (1 .. MaxWrites)

\* The callback that Exit pushes, beside the messages' callbacks.
ExitCallback == <<>>

VARIABLES
  callbacks,           \* _callbacks
  callbackThreadExit,  \* _callbackThreadExit
  worker,              \* the callback thread
  targets,             \* _logTargets: what each of them has been given
  storage,             \* how often the vector of targets has moved
  writer,              \* where each thread is in write()
  closing,             \* where the owner of the log is in Exit()
  queued,              \* history: the messages in the order they were pushed
  dangled,             \* history: whether a walk read storage given up
  logRuns              \* FALSE once an exception ended the program

logVars == <<callbacks, callbackThreadExit, worker, targets, storage, writer,
             closing, queued, dangled, logRuns>>

LogInit ==
  /\ callbacks = <<>>
  /\ callbackThreadExit = FALSE
  /\ worker = [at |-> "unborn", callback |-> ExitCallback,
               next |-> 1, last |-> 0, moves |-> 0]
  /\ targets = <<>>
  /\ storage = 0
  /\ writer = [t \in LogWriters |-> [at |-> "idle", wrote |-> 0]]
  /\ closing = [at |-> "unmade", backlog |-> 0]
  /\ queued = <<>>
  /\ dangled = FALSE
  /\ logRuns = TRUE

\* notify_one(): the callback thread is the only one that ever waits.
Woken == IF worker.at = "asleep" THEN [worker EXCEPT !.at = "wait"] ELSE worker

-----------------------------------------------------------------------------
(* write, AddTarget and Exit *)

\* The first call of log::get(): the targets are made, then the callback
\* thread, whose start is awaited.
Construct ==
  /\ closing.at = "unmade"
  /\ closing' = [closing EXCEPT !.at = "open"]
  /\ targets' = [i \in 1 .. InitialTargets |-> <<>>]
  /\ worker' = [worker EXCEPT !.at = "check"]
  /\ UNCHANGED <<callbacks, callbackThreadExit, storage, writer, queued, dangled,
                 logRuns>>

Alive == logRuns /\ closing.at \notin {"unmade", "destroyed"}

\* Mutant: the callback is put before those that wait.
WriteInFront(t) ==
  LET message == <<t, writer[t].wrote + 1>>
  IN  /\ Alive /\ writer[t].at = "idle" /\ writer[t].wrote < MaxWrites
      /\ callbacks' = <<message>> \o callbacks
      /\ queued' = Append(queued, message)
      /\ writer' = [writer EXCEPT ![t] = [at |-> "notify", wrote |-> @.wrote + 1]]
      /\ UNCHANGED <<callbackThreadExit, worker, targets, storage, closing,
                     dangled, logRuns>>

Write(t) ==
  LET message == <<t, writer[t].wrote + 1>>
  IN  /\ Alive /\ writer[t].at = "idle" /\ writer[t].wrote < MaxWrites
      /\ callbacks' = Append(callbacks, message)
      /\ queued' = Append(queued, message)
      /\ writer' = [writer EXCEPT ![t] = [at |-> "notify", wrote |-> @.wrote + 1]]
      /\ UNCHANGED <<callbackThreadExit, worker, targets, storage, closing,
                     dangled, logRuns>>

\* notify_one() comes after the lock is released.
NotifyAfterWrite(t) ==
  /\ logRuns /\ writer[t].at = "notify"
  /\ writer' = [writer EXCEPT ![t].at = "idle"]
  /\ worker' = Woken
  /\ UNCHANGED <<callbacks, callbackThreadExit, targets, storage, closing,
                 queued, dangled, logRuns>>

\* A full vector moves to a larger storage; how many targets fit before it is
\* full is the library's choice.
AddTarget ==
  /\ Alive /\ Len(targets) < MaxTargets
  /\ targets' = Append(targets, <<>>)
  /\ storage' \in {storage, storage + 1}
  /\ UNCHANGED <<callbacks, callbackThreadExit, worker, writer, closing, queued,
                 dangled, logRuns>>

\* The backlog is what the first Exit finds queued.
Closing(after) ==
  [at |-> after,
   backlog |-> IF closing.at = "open" THEN Len(queued) ELSE closing.backlog]

\* Mutant: Exit sets the flag itself.
ExitAtOnce(after) ==
  /\ logRuns
  /\ callbacks' = Append(callbacks, ExitCallback)
  /\ callbackThreadExit' = TRUE
  /\ worker' = Woken
  /\ closing' = Closing(after)
  /\ UNCHANGED <<targets, storage, writer, queued, dangled, logRuns>>

\* Mutant: Exit does not notify.
PushExitSilently(after) ==
  /\ logRuns
  /\ callbacks' = Append(callbacks, ExitCallback)
  /\ closing' = Closing(after)
  /\ UNCHANGED <<callbackThreadExit, worker, targets, storage, writer, queued,
                 dangled, logRuns>>

\* The critical section of Exit pushes and notifies.
PushExit(after) ==
  /\ logRuns
  /\ callbacks' = Append(callbacks, ExitCallback)
  /\ worker' = Woken
  /\ closing' = Closing(after)
  /\ UNCHANGED <<callbackThreadExit, targets, storage, writer, queued, dangled,
                 logRuns>>

Exit == closing.at = "open" /\ PushExit("joining")

\* join() and the future of a thread that has finished.
ExitReturns ==
  /\ logRuns /\ closing.at = "joining" /\ worker.at = "finished"
  /\ closing' = [closing EXCEPT !.at = "closed"]
  /\ UNCHANGED <<callbacks, callbackThreadExit, worker, targets, storage, writer,
                 queued, dangled, logRuns>>

\* The destructor calls Exit again, which finds nothing to join; nobody writes
\* any more.
Destroy ==
  /\ closing.at = "closed" /\ \A t \in LogWriters : writer[t].at = "idle"
  /\ PushExit("destroyed")

-----------------------------------------------------------------------------
(* The callback thread *)

WorkerSteps(label) ==
  /\ worker' = [worker EXCEPT !.at = label]
  /\ UNCHANGED <<callbacks, callbackThreadExit, targets, storage, writer, closing,
                 queued, dangled, logRuns>>

CheckExit ==
  /\ logRuns /\ worker.at = "check"
  /\ WorkerSteps(IF callbackThreadExit THEN "finished" ELSE "wait")

Sleep == logRuns /\ worker.at = "wait" /\ callbacks = <<>> /\ WorkerSteps("asleep")

WakesSpuriously == logRuns /\ worker.at = "asleep" /\ WorkerSteps("wait")

TakeCallback ==
  /\ logRuns /\ worker.at = "wait" /\ callbacks # <<>>
  /\ worker' = [worker EXCEPT !.at = "call", !.callback = Head(callbacks)]
  /\ callbacks' = Tail(callbacks)
  /\ UNCHANGED <<callbackThreadExit, targets, storage, writer, closing, queued,
                 dangled, logRuns>>

CallExit ==
  /\ logRuns /\ worker.at = "call" /\ worker.callback = ExitCallback
  /\ callbackThreadExit' = TRUE
  /\ worker' = [worker EXCEPT !.at = "check"]
  /\ UNCHANGED <<callbacks, targets, storage, writer, closing, queued, dangled,
                 logRuns>>

\* The range-for reads where the vector begins and ends once.  An AddTarget
\* between the two reads leaves what one after both of them leaves: a longer
\* vector, or a walk of storage that was given up.
StartWalk ==
  /\ logRuns /\ worker.at = "call" /\ worker.callback # ExitCallback
  /\ worker' = [worker EXCEPT !.at = "walk", !.next = 1,
                              !.last = Len(targets), !.moves = storage]
  /\ UNCHANGED <<callbacks, callbackThreadExit, targets, storage, writer, closing,
                 queued, dangled, logRuns>>

AtTarget == logRuns /\ worker.at = "walk" /\ worker.next <= worker.last

StorageIsCurrent == worker.moves = storage

CallTarget ==
  /\ AtTarget /\ StorageIsCurrent
  /\ targets' = [targets EXCEPT ![worker.next] = Append(@, worker.callback)]
  /\ worker' = [worker EXCEPT !.next = @ + 1]
  /\ UNCHANGED <<callbacks, callbackThreadExit, storage, writer, closing, queued,
                 dangled, logRuns>>

\* What was in the storage that AddTarget has left may still read as one of
\* the targets, or as anything else.
CallStale ==
  /\ AtTarget /\ ~StorageIsCurrent
  /\ dangled' = TRUE
  /\ \/ logRuns' = FALSE /\ UNCHANGED <<targets, worker>>
     \/ /\ \/ \E i \in DOMAIN targets :
                 targets' = [targets EXCEPT ![i] = Append(@, worker.callback)]
           \/ UNCHANGED targets
        /\ worker' = [worker EXCEPT !.next = @ + 1]
        /\ UNCHANGED logRuns
  /\ UNCHANGED <<callbacks, callbackThreadExit, storage, writer, closing,
                 queued>>

\* An exception of a target leaves the thread function, which terminates the
\* program.
TargetThrows ==
  /\ AtTarget /\ TargetsThrow
  /\ logRuns' = FALSE
  /\ UNCHANGED <<callbacks, callbackThreadExit, worker, targets, storage, writer,
                 closing, queued, dangled>>

EndWalk ==
  /\ logRuns /\ worker.at = "walk" /\ worker.next > worker.last
  /\ WorkerSteps("check")

WorkerStep ==
  \/ CheckExit \/ Sleep \/ TakeCallback \/ CallExit
  \/ StartWalk \/ CallTarget \/ CallStale \/ TargetThrows \/ EndWalk

LogNext ==
  \/ \E t \in LogWriters : Write(t) \/ NotifyAfterWrite(t)
  \/ Construct \/ AddTarget \/ Exit \/ ExitReturns \/ Destroy
  \/ WorkerStep \/ WakesSpuriously

\* The callback thread, a thread inside write and a joining thread are
\* scheduled; nobody has to write, to add a target or to call Exit.
LogFairness ==
  /\ WF_logVars(WorkerStep)
  /\ WF_logVars(ExitReturns)
  /\ \A t \in LogWriters : WF_logVars(NotifyAfterWrite(t))

LogSpec == LogInit /\ [][LogNext]_logVars /\ LogFairness

-----------------------------------------------------------------------------
(* Properties *)

\* How many of the queued messages target i has been offered or was not there
\* for: those off the queue, and the current one if the walk has passed i.
Offered(i) ==
  LET popped == Len(queued)
                - Cardinality({n \in DOMAIN callbacks : callbacks[n] # ExitCallback})
      current == worker.callback # ExitCallback
                 /\ (\/ worker.at = "call"
                     \/ worker.at = "walk" /\ worker.next <= i)
  IN  IF current THEN popped - 1 ELSE popped

\* Every target is given the messages in the order in which write queued them,
\* each one once and none left out since it was added, whatever the threads
\* that write, AddTarget and Exit do in between - until a walk has read storage
\* that AddTarget gave up, after which nothing is known.
InQueueOrder ==
  ~dangled =>
    \A i \in DOMAIN targets :
      /\ targets[i] = SubSeq(queued, Offered(i) - Len(targets[i]) + 1, Offered(i))
      /\ i <= InitialTargets => Len(targets[i]) = Offered(i)

\* When Exit returns, what was queued before it has been written, and nothing
\* that was queued behind its callback ever is, unless a walk has read storage
\* that AddTarget gave up.
ExitWritesTheBacklog ==
  closing.at \in {"closed", "destroyed"} /\ ~dangled =>
    \A i \in 1 .. InitialTargets : targets[i] = SubSeq(queued, 1, closing.backlog)

\* Exit returns, and the callback thread does not sleep through a message:
\* what is written before Exit is given to the targets although write notifies
\* only after it has released the lock.  An exception of a target ends the
\* program before, and a walk of storage that AddTarget gave up voids it.
QueueIsDrained ==
  /\ closing.at = "joining" ~> closing.at # "joining" \/ ~logRuns \/ dangled
  /\ \A m \in Messages :
       closing.at = "open" /\ m \in Range(queued)
         ~> \/ ~logRuns \/ dangled
            \/ \A i \in 1 .. InitialTargets :
                 i \in DOMAIN targets /\ m \in Range(targets[i])
==============================================================================
