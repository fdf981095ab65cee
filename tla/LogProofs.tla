------------------------------ MODULE LogProofs ------------------------------
(***************************************************************************)
(* InQueueOrder and ExitWritesTheBacklog, for any number of threads that   *)
(* write, of messages and of targets, that may throw or not.               *)
(*                                                                         *)
(* The inductive invariant says what the queue is: the messages after the  *)
(* Popped first ones, with the callback of Exit right behind the backlog   *)
(* while it waits, and that of the destructor at the end.  The message at  *)
(* which the callback thread works is the last one that left the queue,    *)
(* and each target has been given the messages before it and, once the     *)
(* walk has passed the target, this one - all that about targets as long   *)
(* as no walk has read storage that AddTarget gave up.                     *)
(***************************************************************************)
EXTENDS Log, FiniteSetTheorems, SequenceTheorems, TLAPS

Callbacks == Messages \cup {ExitCallback}

WorkerStates ==
  [at : {"unborn", "check", "wait", "asleep", "call", "walk", "finished"},
   callback : Callbacks, next : Nat, last : Nat, moves : Nat]

LogTyped ==
  /\ callbacks \in Seq(Callbacks) /\ queued \in Seq(Messages)
  /\ callbackThreadExit \in BOOLEAN
  /\ worker \in WorkerStates
  /\ targets \in Seq(Seq(Messages))
  /\ writer \in [LogWriters -> [at : {"idle", "notify"}, wrote : 0 .. MaxWrites]]
  /\ closing \in [at : {"unmade", "open", "joining", "closed", "destroyed"}, backlog : Nat]
  /\ storage \in Nat
  /\ dangled \in BOOLEAN

\* Where the callback thread and the owner of the log are in relation to each
\* other.
Threads ==
  /\ worker.at = "unborn" <=> closing.at = "unmade"
  /\ callbackThreadExit => /\ worker.at \in {"check", "finished"}
                           /\ closing.at \in {"joining", "closed", "destroyed"}
  /\ worker.at = "finished" => callbackThreadExit
  /\ closing.at \in {"closed", "destroyed"} => worker.at = "finished"
  /\ worker.at = "walk" => worker.callback # ExitCallback
  /\ worker.at = "call" /\ worker.callback = ExitCallback => closing.at = "joining"
  /\ closing.at = "unmade" => callbacks = <<>> /\ queued = <<>> /\ targets = <<>>

\* The callback that the first Exit pushed is still in the queue; that of the
\* destructor stays there.
Pending ==
  /\ closing.at = "joining" /\ callbackThreadExit = FALSE
  /\ ~(worker.at = "call" /\ worker.callback = ExitCallback)
Destroyed == closing.at = "destroyed"

\* How many messages have left the queue.
Popped == Len(queued) + (IF Pending THEN 1 ELSE 0) + (IF Destroyed THEN 1 ELSE 0) - Len(callbacks)

\* What waits in the queue: the messages after those, with the callback of
\* Exit behind the backlog.
Waiting(i) ==
  IF \/ Pending /\ i = closing.backlog - Popped + 1
     \/ Destroyed /\ i = Len(callbacks)
  THEN ExitCallback
  ELSE queued[Popped + i - (IF Pending /\ i > closing.backlog - Popped THEN 1 ELSE 0)]

QueueIsTheRest ==
  /\ Popped \in 0 .. Len(queued)
  /\ \A i \in 1 .. Len(callbacks) : callbacks[i] = Waiting(i)
  /\ closing.at \in {"joining", "closed", "destroyed"} =>
       /\ closing.backlog <= Len(queued)
       /\ IF Pending THEN Popped <= closing.backlog ELSE Popped = closing.backlog

\* The callback thread works at the last message that left the queue.
Busy == worker.at \in {"call", "walk"} /\ worker.callback # ExitCallback

Current == Busy => Popped >= 1 /\ worker.callback = queued[Popped]

WalkIsInRange ==
  /\ closing.at # "unmade" => Len(targets) >= InitialTargets
  /\ worker.at = "walk" =>
       /\ worker.last \in InitialTargets .. Len(targets) /\ worker.next \in 1 .. worker.last + 1
       /\ ~dangled => \A i \in worker.last + 1 .. Len(targets) : targets[i] = <<>>

\* Off(i) is Offered(i).
Off(i) == IF Busy /\ (worker.at = "call" \/ worker.next <= i) THEN Popped - 1 ELSE Popped

\* Each target has been given the messages before Off(i), from some one on.
Given ==
  ~dangled =>
    \A i \in 1 .. Len(targets) :
      /\ Len(targets[i]) <= Off(i)
      /\ \A j \in 1 .. Len(targets[i]) : targets[i][j] = queued[Off(i) - Len(targets[i]) + j]
      /\ i <= InitialTargets => Len(targets[i]) = Off(i)

\* The inductive invariant.
LogInv == LogTyped /\ Threads /\ QueueIsTheRest /\ Current /\ WalkIsInRange /\ Given

-----------------------------------------------------------------------------
(* The properties follow. *)

LEMMA MessageIsNoExit == \A m \in Messages : m # ExitCallback
BY DEF Messages, ExitCallback

LEMMA CountWaiting ==
  ASSUME LogInv
  PROVE  Cardinality({n \in DOMAIN callbacks : callbacks[n] # ExitCallback}) = Len(queued) - Popped
<1>. DEFINE messages == {n \in DOMAIN callbacks : callbacks[n] # ExitCallback}
            len == Len(callbacks)
<1>0. /\ len \in Nat /\ Len(queued) \in Nat /\ Popped \in Int /\ Popped >= 0
      /\ Popped <= Len(queued) /\ closing.backlog \in Nat
  BY DEF LogInv, LogTyped, QueueIsTheRest
<1>1. DOMAIN callbacks = 1 .. len /\ \A i \in 1 .. Len(queued) : queued[i] # ExitCallback
  BY MessageIsNoExit DEF LogInv, LogTyped
<1>. SUFFICES Cardinality(messages) = Len(queued) - Popped
  OBVIOUS
<1>. HIDE DEF len, messages
<1>2. /\ IsFiniteSet(1 .. len) /\ Cardinality(1 .. len) = len
      /\ \A e \in 1 .. len : Cardinality((1 .. len) \ {e}) = len - 1
  <2>1. len \in Nat
    BY <1>0
  <2>2. IsFiniteSet(1 .. len) /\ Cardinality(1 .. len) = IF 1 > len THEN 0 ELSE len - 1 + 1
    BY <2>1, FS_Interval
  <2>3. \A e \in 1 .. len : Cardinality((1 .. len) \ {e}) = Cardinality(1 .. len) - 1
    BY <2>2, FS_RemoveElement
  <2>. QED
    BY <2>1, <2>2, <2>3
<1>3. CASE Pending
  <2>1. ~Destroyed /\ Popped = Len(queued) + 1 - len /\ Popped <= closing.backlog
        /\ closing.backlog <= Len(queued)
    BY <1>0, <1>1, <1>3 DEF Pending, Destroyed, Popped, LogInv, QueueIsTheRest, len
  <2>2. closing.backlog - Popped + 1 \in 1 .. len
    BY <1>0, <2>1
  <2>3. \A i \in 1 .. len : callbacks[i] = ExitCallback <=> i = closing.backlog - Popped + 1
    <3>1. \A i \in 1 .. len : callbacks[i] = Waiting(i)
      BY DEF LogInv, QueueIsTheRest, len
    <3>2. \A i \in 1 .. len :
            Waiting(i) = IF i = closing.backlog - Popped + 1 THEN ExitCallback
                         ELSE queued[Popped + i - (IF i > closing.backlog - Popped THEN 1 ELSE 0)]
      BY <1>3, <2>1 DEF Waiting
    <3>3. \A i \in 1 .. len :
            i # closing.backlog - Popped + 1
              => Popped + i - (IF i > closing.backlog - Popped THEN 1 ELSE 0) \in 1 .. Len(queued)
      BY <1>0, <2>1
    <3>. QED
      BY <1>0, <1>1, <3>1, <3>2, <3>3
  <2>4. messages = (1 .. len) \ {closing.backlog - Popped + 1}
    BY <1>1, <2>3 DEF messages
  <2>. QED
    BY <1>0, <1>1, <1>2, <2>1, <2>2, <2>4
<1>4. CASE ~Pending /\ Destroyed
  <2>1. Popped = Len(queued) + 1 - len /\ len >= 1
    BY <1>0, <1>1, <1>4 DEF Popped, len
  <2>2. \A i \in 1 .. len : callbacks[i] = ExitCallback <=> i = len
    <3>1. \A i \in 1 .. len : callbacks[i] = Waiting(i)
      BY DEF LogInv, QueueIsTheRest, len
    <3>2. \A i \in 1 .. len :
            Waiting(i) = IF i = len THEN ExitCallback ELSE queued[Popped + i - 0]
      BY <1>4 DEF Waiting, len
    <3>3. \A i \in 1 .. len : i # len => Popped + i - 0 \in 1 .. Len(queued)
      BY <1>0, <2>1
    <3>. QED
      BY <1>0, <1>1, <3>1, <3>2, <3>3
  <2>3. messages = (1 .. len) \ {len}
    BY <1>1, <2>2 DEF messages
  <2>. QED
    BY <1>0, <1>1, <1>2, <2>1, <2>3
<1>5. CASE ~Pending /\ ~Destroyed
  <2>1. Popped = Len(queued) - len
    BY <1>0, <1>1, <1>5 DEF Popped, len
  <2>2. \A i \in 1 .. len : callbacks[i] # ExitCallback
    <3>1. \A i \in 1 .. len : callbacks[i] = Waiting(i)
      BY DEF LogInv, QueueIsTheRest, len
    <3>2. \A i \in 1 .. len : Waiting(i) = queued[Popped + i - 0]
      BY <1>5 DEF Waiting
    <3>3. \A i \in 1 .. len : Popped + i - 0 \in 1 .. Len(queued)
      BY <1>0, <2>1
    <3>. QED
      BY <1>0, <1>1, <3>1, <3>2, <3>3
  <2>3. messages = 1 .. len
    BY <1>1, <2>2 DEF messages
  <2>. QED
    BY <1>0, <1>1, <1>2, <2>1, <2>3
<1>. QED
  BY <1>3, <1>4, <1>5

LEMMA OffIsOffered ==
  ASSUME LogInv, NEW i
  PROVE  Offered(i) = Off(i)
<1>1. Popped \in Int /\ Len(queued) \in Nat
  BY DEF LogInv, LogTyped, QueueIsTheRest
<1>2. Len(queued) - Cardinality({n \in DOMAIN callbacks : callbacks[n] # ExitCallback}) = Popped
  BY <1>1, CountWaiting
<1>. QED
  BY <1>2 DEF Offered, Off, Busy

LEMMA OffBounds ==
  ASSUME LogInv, NEW i
  PROVE  Off(i) \in 0 .. Len(queued) /\ Len(queued) \in Nat /\ Popped \in Nat
BY DEF LogInv, LogTyped, QueueIsTheRest, Current, Off

LEMMA SameSlice ==
  ASSUME NEW S, NEW q \in Seq(S), NEW s \in Seq(S), NEW a \in Nat, a + Len(s) <= Len(q),
         \A j \in 1 .. Len(s) : s[j] = q[a + j]
  PROVE  s = SubSeq(q, a + 1, a + Len(s))
<1>1. Len(s) \in Nat /\ Len(q) \in Nat
  OBVIOUS
<1>. DEFINE t == SubSeq(q, a + 1, a + Len(s))
<1>2. \A i \in a + 1 .. a + Len(s) : q[i] \in S
  BY <1>1
<1>3. /\ t \in Seq(S) /\ Len(t) = (IF a + 1 <= a + Len(s) THEN a + Len(s) - (a + 1) + 1 ELSE 0)
      /\ \A i \in 1 .. a + Len(s) - (a + 1) + 1 : t[i] = q[a + 1 + i - 1]
  <2>1. a + 1 \in Int /\ a + Len(s) \in Int /\ \A i \in a + 1 .. a + Len(s) : q[i] \in S
    BY <1>1, <1>2
  <2>. QED
    BY <2>1, SubSeqProperties, SMTT(20)
<1>4. Len(t) = Len(s)
  BY <1>1, <1>3
<1>5. \A j \in 1 .. Len(s) : s[j] = t[j]
  BY <1>1, <1>3
<1>. QED
  BY <1>3, <1>4, <1>5, SeqEqual

LEMMA InvGivesOrder == LogInv => InQueueOrder
<1>. SUFFICES ASSUME LogInv, ~dangled, NEW i \in DOMAIN targets
              PROVE  /\ targets[i] = SubSeq(queued, Off(i) - Len(targets[i]) + 1, Off(i))
                     /\ i <= InitialTargets => Len(targets[i]) = Off(i)
  BY OffIsOffered DEF InQueueOrder
<1>1. i \in 1 .. Len(targets) /\ targets[i] \in Seq(Messages) /\ queued \in Seq(Messages)
  BY DEF LogInv, LogTyped
<1>2. /\ Len(targets[i]) <= Off(i) /\ (i <= InitialTargets => Len(targets[i]) = Off(i))
      /\ \A j \in 1 .. Len(targets[i]) : targets[i][j] = queued[Off(i) - Len(targets[i]) + j]
  BY <1>1 DEF LogInv, Given
<1>. DEFINE a == Off(i) - Len(targets[i])
<1>3. a \in Nat /\ a + Len(targets[i]) = Off(i) /\ Off(i) <= Len(queued)
  BY <1>1, <1>2, OffBounds
<1>4. targets[i] = SubSeq(queued, a + 1, a + Len(targets[i]))
  <2>. HIDE DEF a
  <2>1. \A j \in 1 .. Len(targets[i]) : targets[i][j] = queued[a + j]
    BY <1>2 DEF a
  <2>. QED
    BY <1>1, <1>3, <2>1, SameSlice
<1>. QED
  BY <1>2, <1>3, <1>4

LEMMA InvGivesBacklog == LogInv => ExitWritesTheBacklog
<1>. SUFFICES ASSUME LogInv, ~dangled, closing.at \in {"closed", "destroyed"}, NEW i \in 1 .. InitialTargets
              PROVE  targets[i] = SubSeq(queued, 1, closing.backlog)
  BY DEF ExitWritesTheBacklog
<1>1. Off(i) = closing.backlog
  BY DEF LogInv, Threads, QueueIsTheRest, Pending, Off, Busy
<1>2. i \in 1 .. Len(targets) /\ i <= InitialTargets /\ targets \in Seq(Seq(Messages))
  BY LogAssumption DEF LogInv, LogTyped, WalkIsInRange
<1>3. Len(targets[i]) = Off(i) /\ Len(targets[i]) \in Nat
  BY <1>2 DEF LogInv, Given
<1>4. targets[i] = SubSeq(queued, Off(i) - Len(targets[i]) + 1, Off(i))
  BY <1>2, InvGivesOrder, OffIsOffered DEF InQueueOrder
<1>5. Off(i) - Len(targets[i]) + 1 = 1
  BY <1>3
<1>. QED
  BY <1>1, <1>4, <1>5

-----------------------------------------------------------------------------
(* The invariant is inductive. *)

LEMMA LogInvInit == LogInit => LogInv
<1>. SUFFICES ASSUME LogInit PROVE LogInv
  OBVIOUS
<1>1. LogTyped
  <2>1. worker \in WorkerStates
    BY DEF LogInit, WorkerStates, Callbacks
  <2>2. writer \in [LogWriters -> [at : {"idle", "notify"}, wrote : 0 .. MaxWrites]]
    BY LogAssumption DEF LogInit
  <2>3. callbacks \in Seq(Callbacks) /\ queued \in Seq(Messages) /\ targets \in Seq(Seq(Messages))
    BY DEF LogInit
  <2>. QED
    BY <2>1, <2>2, <2>3 DEF LogInit, LogTyped
<1>2. Threads
  BY DEF LogInit, Threads
<1>3. ~Pending /\ ~Destroyed /\ ~Busy /\ Len(callbacks) = 0 /\ Len(queued) = 0 /\ Len(targets) = 0
  BY DEF LogInit, Pending, Destroyed, Busy
<1>4. Popped = 0
  BY <1>3 DEF Popped
<1>. QED
  BY <1>1, <1>2, <1>3, <1>4 DEF LogInit, LogInv, QueueIsTheRest, Current, WalkIsInRange, Given

Steps ==
  \/ Construct \/ (\E t \in LogWriters : Write(t) \/ NotifyAfterWrite(t))
  \/ AddTarget \/ Exit \/ ExitReturns \/ Destroy
  \/ CheckExit \/ Sleep \/ WakesSpuriously \/ TakeCallback \/ CallExit
  \/ StartWalk \/ CallTarget \/ CallStale \/ TargetThrows \/ EndWalk

LEMMA NextIsSteps == LogNext => Steps
BY DEF LogNext, WorkerStep, Steps

LEMMA WokenTyped ==
  ASSUME LogTyped
  PROVE  /\ Woken \in WorkerStates
         /\ Woken.callback = worker.callback /\ Woken.next = worker.next /\ Woken.last = worker.last
         /\ Woken.at = IF worker.at = "asleep" THEN "wait" ELSE worker.at
BY DEF LogTyped, Woken, WorkerStates

LEMMA StepKeepsLogTypes ==
  ASSUME LogInv, Steps
  PROVE  LogTyped'
<1>0. LogTyped
  BY DEF LogInv
<1>. USE <1>0 DEF LogTyped
<1>1. CASE Construct
  <2>1. targets' \in Seq(Seq(Messages))
    <3>1. [i \in 1 .. InitialTargets |-> <<>>] \in [1 .. InitialTargets -> Seq(Messages)]
      OBVIOUS
    <3>2. [i \in 1 .. InitialTargets |-> <<>>] \in Seq(Seq(Messages))
      BY <3>1, LogAssumption, SeqDef
    <3>. QED
      BY <1>1, <3>2 DEF Construct
  <2>2. worker' \in WorkerStates
    BY <1>1 DEF Construct, WorkerStates
  <2>. QED
    BY <1>1, <2>1, <2>2 DEF Construct
<1>2. ASSUME NEW t \in LogWriters, Write(t) PROVE LogTyped'
  <2>. DEFINE message == <<t, writer[t].wrote + 1>>
  <2>1. writer[t].wrote \in 0 .. MaxWrites /\ writer[t].wrote < MaxWrites
    BY <1>2 DEF Write
  <2>2. message \in Messages
    BY <2>1, LogAssumption DEF Messages
  <2>3. callbacks' \in Seq(Callbacks) /\ queued' \in Seq(Messages)
    BY <1>2, <2>2 DEF Write, Callbacks
  <2>4. writer' \in [LogWriters -> [at : {"idle", "notify"}, wrote : 0 .. MaxWrites]]
    BY <1>2, <2>1, LogAssumption DEF Write
  <2>. QED
    BY <1>2, <2>3, <2>4 DEF Write
<1>3. ASSUME NEW t \in LogWriters, NotifyAfterWrite(t) PROVE LogTyped'
  <2>1. writer' \in [LogWriters -> [at : {"idle", "notify"}, wrote : 0 .. MaxWrites]]
    BY <1>3 DEF NotifyAfterWrite
  <2>. QED
    BY <1>3, <2>1, WokenTyped DEF NotifyAfterWrite
<1>4. CASE AddTarget
  <2>1. targets' \in Seq(Seq(Messages))
    BY <1>4 DEF AddTarget
  <2>. QED
    BY <1>4, <2>1 DEF AddTarget
<1>5. ASSUME NEW after \in {"joining", "destroyed"}, PushExit(after) PROVE LogTyped'
  <2>1. callbacks' \in Seq(Callbacks)
    BY <1>5 DEF PushExit, Callbacks
  <2>2. Closing(after) \in [at : {"unmade", "open", "joining", "closed", "destroyed"}, backlog : Nat]
    BY DEF Closing
  <2>. QED
    BY <1>5, <2>1, <2>2, WokenTyped DEF PushExit
<1>6. CASE Exit \/ Destroy
  BY <1>5, <1>6 DEF Exit, Destroy
<1>7. CASE ExitReturns
  BY <1>7 DEF ExitReturns
<1>8. ASSUME NEW label \in {"finished", "wait", "asleep", "check"}, WorkerSteps(label) PROVE LogTyped'
  BY <1>8 DEF WorkerSteps, WorkerStates
<1>9. CASE CheckExit \/ Sleep \/ WakesSpuriously \/ EndWalk
  BY <1>8, <1>9 DEF CheckExit, Sleep, WakesSpuriously, EndWalk
<1>10. CASE TakeCallback
  <2>1. Head(callbacks) \in Callbacks /\ Tail(callbacks) \in Seq(Callbacks)
    BY <1>10 DEF TakeCallback
  <2>. QED
    BY <1>10, <2>1 DEF TakeCallback, WorkerStates
<1>11. CASE CallExit
  BY <1>11 DEF CallExit, WorkerStates
<1>12. CASE StartWalk
  <2>1. Len(targets) \in Nat /\ storage \in Nat
    OBVIOUS
  <2>2. worker' \in WorkerStates
    BY <1>12, <2>1 DEF StartWalk, WorkerStates
  <2>. QED
    BY <1>12, <2>2 DEF StartWalk
<1>13. CASE CallTarget
  <2>. DEFINE n == worker.next
              given == Append(targets[n], worker.callback)
  <2>0. n \in 1 .. Len(targets) /\ worker.callback \in Messages
    BY <1>13 DEF CallTarget, AtTarget, LogInv, WalkIsInRange, Threads, Callbacks, WorkerStates
  <2>1. targets' \in Seq(Seq(Messages))
    <3>1. targets[n] \in Seq(Messages) /\ given \in Seq(Messages)
      BY <2>0
    <3>2. targets' = [targets EXCEPT ![n] = given]
      BY <1>13 DEF CallTarget
    <3>. QED
      BY <2>0, <3>1, <3>2, ExceptSeq
  <2>2. worker' \in WorkerStates
    <3>1. worker.next \in Nat /\ worker.next + 1 \in Nat
      BY DEF WorkerStates
    <3>. HIDE DEF LogTyped
    <3>. QED
      BY <1>0, <1>13, <3>1 DEF CallTarget, WorkerStates, LogTyped
  <2>. QED
    BY <1>13, <2>1, <2>2 DEF CallTarget
<1>14. CASE TargetThrows
  BY <1>14 DEF TargetThrows
<1>15. CASE CallStale
  <2>1. worker' \in WorkerStates
    <3>1. worker.next + 1 \in Nat
      BY DEF WorkerStates
    <3>. QED
      BY <1>15, <3>1 DEF CallStale, WorkerStates
  <2>2. targets' \in Seq(Seq(Messages))
    <3>1. worker.callback \in Messages
      BY <1>15 DEF CallStale, AtTarget, LogInv, Threads, Callbacks, WorkerStates
    <3>2. ASSUME NEW i \in DOMAIN targets,
                 targets' = [targets EXCEPT ![i] = Append(targets[i], worker.callback)]
          PROVE  targets' \in Seq(Seq(Messages))
      <4>1. i \in 1 .. Len(targets) /\ Append(targets[i], worker.callback) \in Seq(Messages)
        BY <3>1
      <4>. QED
        BY <3>2, <4>1, ExceptSeq
    <3>. QED
      BY <1>15, <3>2 DEF CallStale
  <2>. QED
    BY <1>15, <2>1, <2>2 DEF CallStale
<1>. QED
  BY <1>1, <1>2, <1>3, <1>4, <1>6, <1>7, <1>9, <1>10, <1>11, <1>12, <1>13, <1>14, <1>15 DEF Steps

\* What the callback thread takes is the callback of Exit, when the backlog is
\* used up, or else the next message.
LEMMA TakesTheRest ==
  ASSUME LogInv, worker.at = "wait", callbacks # <<>>
  PROVE  /\ ~Destroyed /\ (closing.at = "joining" <=> Pending)
         /\ closing.at \in {"unmade", "open", "joining"}
         /\ IF Pending /\ Popped = closing.backlog
            THEN Head(callbacks) = ExitCallback
            ELSE /\ Popped + 1 <= Len(queued) /\ Head(callbacks) = queued[Popped + 1]
                 /\ Head(callbacks) # ExitCallback /\ (Pending => Popped < closing.backlog)
<1>1. /\ callbacks \in Seq(Callbacks) /\ queued \in Seq(Messages) /\ closing.backlog \in Nat
      /\ callbackThreadExit \in BOOLEAN
      /\ closing.at \in {"unmade", "open", "joining", "closed", "destroyed"}
  BY DEF LogInv, LogTyped
<1>2. Len(callbacks) \in Nat /\ Len(queued) \in Nat /\ Len(callbacks) >= 1 /\ Popped \in 0 .. Len(queued)
  BY <1>1 DEF LogInv, QueueIsTheRest
<1>3. ~Destroyed /\ (closing.at = "joining" <=> Pending) /\ closing.at \in {"unmade", "open", "joining"}
  BY <1>1 DEF LogInv, Threads, Destroyed, Pending
<1>4. Head(callbacks) = Waiting(1)
  BY <1>1, <1>2 DEF LogInv, QueueIsTheRest
<1>5. Popped = Len(queued) + (IF Pending THEN 1 ELSE 0) - Len(callbacks)
  BY <1>2, <1>3 DEF Popped
<1>6. CASE Pending
  <2>1. closing.backlog <= Len(queued) /\ Popped <= closing.backlog
    BY <1>3, <1>6 DEF LogInv, QueueIsTheRest
  <2>2. Waiting(1) = IF 1 = closing.backlog - Popped + 1 THEN ExitCallback
                     ELSE queued[Popped + 1 - (IF 1 > closing.backlog - Popped THEN 1 ELSE 0)]
    BY <1>3, <1>6 DEF Waiting
  <2>. HIDE DEF Popped
  <2>3. CASE Popped = closing.backlog
    BY <1>1, <1>2, <1>3, <1>4, <1>6, <2>1, <2>2, <2>3
  <2>4. CASE Popped # closing.backlog
    <3>1. Popped < closing.backlog /\ Popped + 1 \in 1 .. Len(queued)
      BY <1>1, <1>2, <2>1, <2>4
    <3>2. Waiting(1) = queued[Popped + 1]
      BY <1>1, <1>2, <2>2, <3>1
    <3>3. queued[Popped + 1] # ExitCallback
      BY <1>1, <3>1, MessageIsNoExit
    <3>. QED
      BY <1>3, <1>4, <1>6, <2>4, <3>1, <3>2, <3>3
  <2>. QED
    BY <2>3, <2>4
<1>7. CASE ~Pending
  <2>1. Popped + 1 \in 1 .. Len(queued)
    BY <1>2, <1>5, <1>7
  <2>2. Waiting(1) = queued[Popped + 1 - 0]
    BY <1>3, <1>7 DEF Waiting
  <2>3. queued[Popped + 1] # ExitCallback /\ Popped + 1 - 0 = Popped + 1
    BY <1>1, <2>1, MessageIsNoExit
  <2>. QED
    BY <1>3, <1>4, <1>7, <2>1, <2>2, <2>3
<1>. QED
  BY <1>6, <1>7

\* A walk of storage that was given up disturbs nothing but the targets.
LEMMA StaleWalk ==
  ASSUME LogInv, CallStale
  PROVE  /\ UNCHANGED <<callbacks, callbackThreadExit, closing, queued>>
         /\ worker.at = "walk" /\ worker'.at = "walk" /\ worker'.callback = worker.callback
         /\ worker.callback # ExitCallback /\ closing.at # "unmade"
         /\ worker'.last = worker.last /\ worker'.next \in 1 .. worker.last + 1
         /\ Len(targets') = Len(targets) /\ dangled'
         /\ (Busy' <=> Busy) /\ Threads'
<1>1. /\ LogTyped /\ Threads /\ WalkIsInRange /\ worker \in WorkerStates
      /\ targets \in Seq(Seq(Messages))
  BY DEF LogInv, LogTyped
<1>2. /\ UNCHANGED <<callbacks, callbackThreadExit, closing, queued>> /\ dangled'
      /\ worker.at = "walk" /\ worker.next <= worker.last
      /\ worker' = worker \/ worker' = [worker EXCEPT !.next = @ + 1]
  BY DEF CallStale, AtTarget
<1>3. /\ worker'.at = "walk" /\ worker'.callback = worker.callback /\ worker'.last = worker.last
      /\ worker'.next = worker.next \/ worker'.next = worker.next + 1
  BY <1>1, <1>2 DEF WorkerStates
<1>4. worker.callback # ExitCallback /\ closing.at # "unmade" /\ worker.next \in 1 .. worker.last + 1
      /\ worker.last \in Nat
  BY <1>1, <1>2 DEF Threads, WalkIsInRange, WorkerStates
<1>5. worker'.next \in 1 .. worker.last + 1
  BY <1>2, <1>3, <1>4
<1>6. Len(targets') = Len(targets)
  <2>1. ASSUME NEW i \in DOMAIN targets,
               targets' = [targets EXCEPT ![i] = Append(targets[i], worker.callback)]
        PROVE  Len(targets') = Len(targets)
    BY <1>1, <2>1
  <2>. QED
    BY <2>1 DEF CallStale
<1>7. Threads'
  BY <1>1, <1>2, <1>3, <1>4 DEF Threads
<1>. QED
  BY <1>2, <1>3, <1>4, <1>5, <1>6, <1>7 DEF Busy

LEMMA StepKeepsThreads ==
  ASSUME LogInv, Steps
  PROVE  Threads'
<1>0. LogTyped /\ Threads /\ worker \in WorkerStates /\ callbackThreadExit \in BOOLEAN
  BY DEF LogInv, LogTyped
<1>. USE <1>0 DEF Threads
<1>1. CASE Construct
  BY <1>1 DEF Construct, WorkerStates, LogTyped
<1>2. ASSUME NEW t \in LogWriters, Write(t) PROVE Threads'
  BY <1>2 DEF Write, Alive
<1>3. ASSUME NEW t \in LogWriters, NotifyAfterWrite(t) PROVE Threads'
  BY <1>3, WokenTyped DEF NotifyAfterWrite
<1>4. CASE AddTarget
  BY <1>4 DEF AddTarget, Alive
<1>5. CASE Exit
  <2>1. closing'.at = "joining"
    BY <1>5 DEF Exit, PushExit, Closing
  <2>. QED
    BY <1>5, <2>1, WokenTyped DEF Exit, PushExit
<1>6. CASE Destroy
  <2>1. closing'.at = "destroyed"
    BY <1>6 DEF Destroy, PushExit, Closing
  <2>. QED
    BY <1>6, <2>1, WokenTyped DEF Destroy, PushExit
<1>7. CASE ExitReturns
  <2>1. closing'.at = "closed"
    BY <1>7 DEF ExitReturns, LogTyped
  <2>. QED
    BY <1>7, <2>1 DEF ExitReturns
<1>8. CASE CheckExit \/ Sleep \/ WakesSpuriously \/ EndWalk
  BY <1>8 DEF CheckExit, Sleep, WakesSpuriously, EndWalk, WorkerSteps, WorkerStates
<1>9. CASE TakeCallback
  <2>1. closing.at \in {"open", "joining"} /\ callbackThreadExit = FALSE
    BY <1>9 DEF TakeCallback, LogTyped
  <2>2. closing.at = "open" => Head(callbacks) # ExitCallback
    BY <1>9, TakesTheRest DEF TakeCallback
  <2>. QED
    BY <1>9, <2>1, <2>2 DEF TakeCallback, WorkerStates
<1>10. CASE CallExit
  BY <1>10 DEF CallExit, WorkerStates
<1>11. CASE StartWalk
  BY <1>11 DEF StartWalk, WorkerStates
<1>12. CASE CallTarget
  BY <1>12 DEF CallTarget, AtTarget, WorkerStates
<1>13. CASE TargetThrows
  BY <1>13 DEF TargetThrows
<1>14. CASE CallStale
  BY <1>14, StaleWalk
<1>. QED
  BY <1>1, <1>2, <1>3, <1>4, <1>5, <1>6, <1>7, <1>8, <1>9, <1>10, <1>11, <1>12, <1>13, <1>14
     DEF Steps

\* The steps that leave the queue alone.
QuietQueue ==
  /\ UNCHANGED <<callbacks, queued>>
  /\ closing'.backlog = closing.backlog
  /\ Pending' <=> Pending
  /\ Destroyed' <=> Destroyed
  /\ closing'.at \in {"joining", "closed", "destroyed"}
       => closing.at \in {"joining", "closed", "destroyed"}

LEMMA QuietKeepsQueue ==
  ASSUME LogInv, QuietQueue
  PROVE  Popped' = Popped /\ QueueIsTheRest'
<1>1. Popped' = Popped
  BY DEF QuietQueue, Popped
<1>2. QueueIsTheRest
  BY DEF LogInv
<1>3. \A i : Waiting(i)' = Waiting(i)
  BY <1>1 DEF QuietQueue, Waiting
<1>. QED
  BY <1>1, <1>2, <1>3 DEF QuietQueue, QueueIsTheRest

LEMMA QuietSteps ==
  ASSUME LogInv,
         \/ Construct \/ (\E t \in LogWriters : NotifyAfterWrite(t)) \/ AddTarget \/ ExitReturns
         \/ CheckExit \/ Sleep \/ WakesSpuriously \/ CallExit
         \/ StartWalk \/ CallTarget \/ CallStale \/ TargetThrows \/ EndWalk
  PROVE  QuietQueue
<1>0. /\ LogTyped /\ Threads /\ worker \in WorkerStates /\ callbackThreadExit \in BOOLEAN
      /\ closing \in [at : {"unmade", "open", "joining", "closed", "destroyed"}, backlog : Nat]
  BY DEF LogInv, LogTyped
<1>. USE <1>0 DEF QuietQueue, Pending, Destroyed
<1>1. CASE Construct
  BY <1>1 DEF Construct, Threads
<1>2. ASSUME NEW t \in LogWriters, NotifyAfterWrite(t) PROVE QuietQueue
  BY <1>2, WokenTyped DEF NotifyAfterWrite
<1>3. CASE AddTarget \/ TargetThrows
  BY <1>3 DEF AddTarget, TargetThrows
<1>4. CASE ExitReturns
  BY <1>4 DEF ExitReturns, Threads
<1>5. CASE CheckExit \/ Sleep \/ WakesSpuriously \/ EndWalk
  BY <1>5 DEF CheckExit, Sleep, WakesSpuriously, EndWalk, WorkerSteps, WorkerStates
<1>6. CASE CallExit
  BY <1>6 DEF CallExit, WorkerStates
<1>7. CASE StartWalk
  BY <1>7 DEF StartWalk, WorkerStates
<1>8. CASE CallTarget
  BY <1>8 DEF CallTarget, AtTarget, WorkerStates
<1>9. CASE CallStale
  BY <1>9, StaleWalk
<1>. QED
  BY <1>1, <1>2, <1>3, <1>4, <1>5, <1>6, <1>7, <1>8, <1>9

LEMMA QueueNumbers ==
  ASSUME LogInv
  PROVE  /\ Len(callbacks) \in Nat /\ Len(queued) \in Nat /\ closing.backlog \in Nat
         /\ Popped \in Nat /\ Popped <= Len(queued)
         /\ callbacks \in Seq(Callbacks) /\ queued \in Seq(Messages)
<1>1. callbacks \in Seq(Callbacks) /\ queued \in Seq(Messages) /\ closing.backlog \in Nat
  BY DEF LogInv, LogTyped
<1>2. Len(callbacks) \in Nat /\ Len(queued) \in Nat
  BY <1>1
<1>3. Popped \in 0 .. Len(queued)
  BY DEF LogInv, QueueIsTheRest
<1>. QED
  BY <1>1, <1>2, <1>3

LEMMA PoppedIs ==
  ASSUME LogInv
  PROVE  Popped = (IF Pending \/ Destroyed THEN Len(queued) + 1 ELSE Len(queued)) - Len(callbacks)
<1>1. ~(Pending /\ Destroyed) /\ Len(queued) \in Nat /\ Len(callbacks) \in Nat
  BY QueueNumbers DEF Pending, Destroyed
<1>2. CASE Pending
  BY <1>1, <1>2 DEF Popped
<1>3. CASE ~Pending /\ Destroyed
  BY <1>1, <1>3 DEF Popped
<1>4. CASE ~Pending /\ ~Destroyed
  BY <1>1, <1>4 DEF Popped
<1>. QED
  BY <1>2, <1>3, <1>4

LEMMA WriteKeepsQueue ==
  ASSUME LogInv, NEW t \in LogWriters, Write(t)
  PROVE  Popped' = Popped /\ QueueIsTheRest'
<1>. DEFINE message == <<t, writer[t].wrote + 1>>
<1>1. /\ callbacks' = Append(callbacks, message) /\ queued' = Append(queued, message)
      /\ UNCHANGED <<worker, closing, callbackThreadExit>> /\ ~Destroyed
  BY DEF Write, Alive, Destroyed
<1>2. (Pending' <=> Pending) /\ ~Destroyed'
  BY <1>1 DEF Pending, Destroyed
<1>. HIDE DEF message
<1>3. /\ Len(callbacks') = Len(callbacks) + 1 /\ callbacks'[Len(callbacks) + 1] = message
      /\ \A i \in 1 .. Len(callbacks) : callbacks'[i] = callbacks[i]
      /\ Len(queued') = Len(queued) + 1 /\ queued'[Len(queued) + 1] = message
      /\ \A i \in 1 .. Len(queued) : queued'[i] = queued[i]
  BY <1>1, QueueNumbers
<1>4. Popped' = Popped
  BY <1>1, <1>2, <1>3, QueueNumbers DEF Popped
<1>5. \A i \in 1 .. Len(callbacks) + 1 :
        Waiting(i)' = IF Pending /\ i = closing.backlog - Popped + 1 THEN ExitCallback
                      ELSE queued'[Popped + i - (IF Pending /\ i > closing.backlog - Popped THEN 1 ELSE 0)]
  BY <1>1, <1>2, <1>4 DEF Waiting
<1>6. \A i \in 1 .. Len(callbacks) :
        callbacks[i] = IF Pending /\ i = closing.backlog - Popped + 1 THEN ExitCallback
                       ELSE queued[Popped + i - (IF Pending /\ i > closing.backlog - Popped THEN 1 ELSE 0)]
  BY <1>1 DEF LogInv, QueueIsTheRest, Waiting
<1>7. Pending => Popped <= closing.backlog /\ closing.backlog <= Len(queued)
  BY DEF LogInv, QueueIsTheRest, Pending
<1>8. \A i \in 1 .. Len(callbacks) + 1 : callbacks'[i] = Waiting(i)'
  <2>1. CASE Pending
    <3>1. Popped = Len(queued) + 1 - Len(callbacks)
      BY <1>1, <2>1, PoppedIs
    <3>2. ASSUME NEW i \in 1 .. Len(callbacks) PROVE callbacks'[i] = Waiting(i)'
      <4>1. CASE i = closing.backlog - Popped + 1
        BY <1>3, <1>5, <1>6, <2>1, <3>2, <4>1, QueueNumbers
      <4>2. CASE i # closing.backlog - Popped + 1
        <5>. DEFINE p == Popped + i - (IF i > closing.backlog - Popped THEN 1 ELSE 0)
        <5>1. p \in 1 .. Len(queued)
          BY <1>7, <2>1, <3>1, <3>2, <4>2, QueueNumbers
        <5>2. Waiting(i)' = queued'[p] /\ callbacks[i] = queued[p]
          BY <1>5, <1>6, <2>1, <3>2, <4>2, QueueNumbers
        <5>. HIDE DEF p
        <5>. QED
          BY <1>3, <5>1, <5>2
      <4>. QED
        BY <4>1, <4>2
    <3>3. ASSUME NEW i \in 1 .. Len(callbacks) + 1, i = Len(callbacks) + 1
          PROVE  callbacks'[i] = Waiting(i)'
      <4>1. /\ i # closing.backlog - Popped + 1
            /\ i > closing.backlog - Popped /\ Popped + i - 1 = Len(queued) + 1
        BY <1>7, <2>1, <3>1, <3>3, QueueNumbers
      <4>2. Waiting(i)' = queued'[Popped + i - 1]
        BY <1>5, <2>1, <3>3, <4>1
      <4>. QED
        BY <1>3, <3>3, <4>1, <4>2
    <3>4. \A i \in 1 .. Len(callbacks) + 1 : i \in 1 .. Len(callbacks) \/ i = Len(callbacks) + 1
      BY QueueNumbers
    <3>. QED
      BY <3>2, <3>3, <3>4
  <2>2. CASE ~Pending
    <3>1. Popped = Len(queued) - Len(callbacks)
      BY <1>1, <2>2, PoppedIs
    <3>2. ASSUME NEW i \in 1 .. Len(callbacks) + 1 PROVE callbacks'[i] = Waiting(i)'
      <4>1. Popped + i - 0 \in 1 .. Len(queued) + 1
        BY <3>1, <3>2, QueueNumbers
      <4>2. Waiting(i)' = queued'[Popped + i - 0]
        BY <1>5, <2>2, <3>2
      <4>3. CASE i \in 1 .. Len(callbacks)
        <5>1. Popped + i - 0 \in 1 .. Len(queued)
          BY <3>1, <4>3, QueueNumbers
        <5>2. callbacks[i] = queued[Popped + i - 0]
          BY <1>6, <2>2, <4>3
        <5>. QED
          BY <1>3, <4>2, <4>3, <5>1, <5>2
      <4>4. CASE i = Len(callbacks) + 1
        <5>1. Popped + i - 0 = Len(queued) + 1
          BY <3>1, <4>4, QueueNumbers
        <5>. QED
          BY <1>3, <4>2, <4>4, <5>1
      <4>. QED
        BY <3>2, <4>3, <4>4, QueueNumbers
    <3>. QED
      BY <3>2
  <2>. QED
    BY <2>1, <2>2
<1>9. closing.at \in {"joining", "closed", "destroyed"} =>
        /\ closing.backlog <= Len(queued)
        /\ IF Pending THEN Popped <= closing.backlog ELSE Popped = closing.backlog
  BY DEF LogInv, QueueIsTheRest
<1>. QED
  <2>1. Popped' \in 0 .. Len(queued')
    <3>. HIDE DEF Popped
    <3>. QED
      BY <1>3, <1>4, QueueNumbers
  <2>2. \A i \in 1 .. Len(callbacks') : callbacks'[i] = Waiting(i)'
    BY <1>3, <1>8
  <2>3. (closing.at \in {"joining", "closed", "destroyed"} =>
        /\ closing.backlog <= Len(queued)
        /\ IF Pending THEN Popped <= closing.backlog ELSE Popped = closing.backlog)'
    <3>. HIDE DEF Pending, Popped
    <3>. QED
      BY <1>1, <1>2, <1>3, <1>4, <1>9, QueueNumbers
  <2>. QED
    BY <1>4, <2>1, <2>2, <2>3 DEF QueueIsTheRest

LEMMA ExitKeepsQueue ==
  ASSUME LogInv, Exit
  PROVE  Popped' = Popped /\ QueueIsTheRest'
<1>0. /\ closing.at = "open" /\ callbackThreadExit = FALSE /\ worker \in WorkerStates
      /\ closing \in [at : {"unmade", "open", "joining", "closed", "destroyed"}, backlog : Nat]
      /\ ~(worker.at = "call" /\ worker.callback = ExitCallback) /\ LogTyped
  BY DEF LogInv, LogTyped, Threads, Exit
<1>1. /\ callbacks' = Append(callbacks, ExitCallback) /\ queued' = queued
      /\ closing'.at = "joining" /\ closing'.backlog = Len(queued)
      /\ callbackThreadExit' = FALSE /\ worker' = Woken
  BY <1>0 DEF Exit, PushExit, Closing
<1>2. ~Pending /\ ~Destroyed /\ Pending' /\ ~Destroyed'
  BY <1>0, <1>1, WokenTyped DEF Pending, Destroyed
<1>3. /\ Len(callbacks') = Len(callbacks) + 1 /\ callbacks'[Len(callbacks) + 1] = ExitCallback
      /\ \A i \in 1 .. Len(callbacks) : callbacks'[i] = callbacks[i]
  BY <1>1, QueueNumbers
<1>4. Popped = Len(queued) - Len(callbacks)
  BY <1>2, PoppedIs
<1>5. Popped' = Popped
  BY <1>1, <1>2, <1>3, <1>4, QueueNumbers DEF Popped
<1>6. \A i \in 1 .. Len(callbacks) + 1 : callbacks'[i] = Waiting(i)'
  <2>1. \A i \in 1 .. Len(callbacks) + 1 :
          Waiting(i)' = IF i = Len(queued) - Popped + 1 THEN ExitCallback
                        ELSE queued[Popped + i - (IF i > Len(queued) - Popped THEN 1 ELSE 0)]
    BY <1>1, <1>2, <1>5 DEF Waiting
  <2>2. ASSUME NEW i \in 1 .. Len(callbacks) PROVE callbacks'[i] = Waiting(i)'
    <3>1. callbacks[i] = queued[Popped + i - 0]
      BY <1>2 DEF LogInv, QueueIsTheRest, Waiting
    <3>2. i # Len(queued) - Popped + 1 /\ ~(i > Len(queued) - Popped) /\ i \in 1 .. Len(callbacks) + 1
      BY <1>4, QueueNumbers
    <3>3. Waiting(i)' = queued[Popped + i - 0]
      BY <2>1, <3>2
    <3>. QED
      BY <1>3, <3>1, <3>3
  <2>3. ASSUME NEW i \in 1 .. Len(callbacks) + 1, i = Len(callbacks) + 1
        PROVE  callbacks'[i] = Waiting(i)'
    <3>1. i = Len(queued) - Popped + 1
      BY <1>4, <2>3, QueueNumbers
    <3>. QED
      BY <1>3, <2>1, <2>3, <3>1
  <2>4. \A i \in 1 .. Len(callbacks) + 1 : i \in 1 .. Len(callbacks) \/ i = Len(callbacks) + 1
    BY QueueNumbers
  <2>. QED
    BY <2>2, <2>3, <2>4
<1>7. Popped' \in 0 .. Len(queued') /\ Popped' <= closing'.backlog /\ closing'.backlog <= Len(queued')
  BY <1>1, <1>5, QueueNumbers
<1>. QED
  BY <1>2, <1>3, <1>5, <1>6, <1>7 DEF QueueIsTheRest

LEMMA DestroyKeepsQueue ==
  ASSUME LogInv, Destroy
  PROVE  Popped' = Popped /\ QueueIsTheRest'
<1>0. closing.at = "closed" /\ ~Pending /\ ~Destroyed
  BY DEF Destroy, Pending, Destroyed
<1>1. /\ callbacks' = Append(callbacks, ExitCallback) /\ queued' = queued
      /\ closing'.at = "destroyed" /\ closing'.backlog = closing.backlog
  BY <1>0 DEF Destroy, PushExit, Closing
<1>2. ~Pending' /\ Destroyed'
  BY <1>1 DEF Pending, Destroyed
<1>3. /\ Len(callbacks') = Len(callbacks) + 1 /\ callbacks'[Len(callbacks) + 1] = ExitCallback
      /\ \A i \in 1 .. Len(callbacks) : callbacks'[i] = callbacks[i]
  BY <1>1, QueueNumbers
<1>4. Popped = Len(queued) - Len(callbacks)
  BY <1>0, PoppedIs
<1>5. Popped' = Popped
  <2>1. Popped' = Len(queued') + 0 + 1 - Len(callbacks')
    BY <1>2 DEF Popped
  <2>. QED
    BY <1>1, <1>3, <1>4, <2>1, QueueNumbers
<1>6. \A i \in 1 .. Len(callbacks) + 1 : callbacks'[i] = Waiting(i)'
  <2>1. \A i \in 1 .. Len(callbacks) + 1 :
          Waiting(i)' = IF i = Len(callbacks) + 1 THEN ExitCallback ELSE queued[Popped + i - 0]
    BY <1>1, <1>2, <1>3, <1>5 DEF Waiting
  <2>2. ASSUME NEW i \in 1 .. Len(callbacks) PROVE callbacks'[i] = Waiting(i)'
    <3>1. callbacks[i] = queued[Popped + i - 0]
      BY <1>0 DEF LogInv, QueueIsTheRest, Waiting
    <3>2. i # Len(callbacks) + 1 /\ i \in 1 .. Len(callbacks) + 1
      BY QueueNumbers
    <3>. QED
      BY <1>3, <2>1, <3>1, <3>2
  <2>3. ASSUME NEW i \in 1 .. Len(callbacks) + 1, i = Len(callbacks) + 1
        PROVE  callbacks'[i] = Waiting(i)'
    BY <1>3, <2>1, <2>3
  <2>4. \A i \in 1 .. Len(callbacks) + 1 : i \in 1 .. Len(callbacks) \/ i = Len(callbacks) + 1
    BY QueueNumbers
  <2>. QED
    BY <2>2, <2>3, <2>4
<1>7. Popped = closing.backlog
  BY <1>0 DEF LogInv, QueueIsTheRest
<1>8. Popped' \in 0 .. Len(queued') /\ Popped' = closing'.backlog /\ closing'.backlog <= Len(queued')
  BY <1>1, <1>5, <1>7, QueueNumbers
<1>. QED
  BY <1>2, <1>3, <1>5, <1>6, <1>8 DEF QueueIsTheRest

LEMMA TakeKeepsQueue ==
  ASSUME LogInv, TakeCallback
  PROVE  /\ QueueIsTheRest'
         /\ IF worker'.callback = ExitCallback
            THEN Popped' = Popped
            ELSE Popped' = Popped + 1 /\ worker'.callback = queued[Popped']
<1>0. worker.at = "wait" /\ callbacks # <<>> /\ worker \in WorkerStates /\ callbackThreadExit \in BOOLEAN
  BY DEF TakeCallback, LogInv, LogTyped
<1>1. /\ callbacks' = Tail(callbacks) /\ UNCHANGED <<queued, closing, callbackThreadExit>>
      /\ worker'.at = "call" /\ worker'.callback = Head(callbacks)
  BY <1>0 DEF TakeCallback, WorkerStates
<1>2. /\ Len(callbacks) >= 1 /\ Len(callbacks') = Len(callbacks) - 1
      /\ \A i \in 1 .. Len(callbacks) - 1 : callbacks'[i] = callbacks[i + 1]
  BY <1>0, <1>1, QueueNumbers
<1>3. \A i \in 1 .. Len(callbacks) - 1 : callbacks'[i] = Waiting(i + 1)
  <2>1. \A i \in 1 .. Len(callbacks) - 1 : i + 1 \in 1 .. Len(callbacks)
    BY QueueNumbers
  <2>. QED
    BY <1>2, <2>1 DEF LogInv, QueueIsTheRest
<1>4. ~Destroyed /\ ~Destroyed'
  BY <1>0, <1>1, TakesTheRest DEF Destroyed
<1>5. CASE Pending /\ Popped = closing.backlog
  <2>1. worker'.callback = ExitCallback /\ ~Pending'
    BY <1>0, <1>1, <1>5, TakesTheRest DEF Pending
  <2>2. Popped = Len(queued) + 1 - Len(callbacks)
    BY <1>5, PoppedIs
  <2>3. Popped' = Popped
    <3>1. Popped' = Len(queued') + 0 + 0 - Len(callbacks')
      BY <1>4, <2>1 DEF Popped
    <3>. QED
      BY <1>1, <1>2, <2>2, <3>1, QueueNumbers
  <2>4. \A i \in 1 .. Len(callbacks) - 1 : Waiting(i)' = queued[Popped + i - 0]
    BY <1>1, <1>4, <2>1, <2>3 DEF Waiting
  <2>5. ASSUME NEW i \in 1 .. Len(callbacks) - 1 PROVE Waiting(i + 1) = queued[Popped + i - 0]
    <3>1. i + 1 # closing.backlog - Popped + 1 /\ i + 1 > closing.backlog - Popped
          /\ Popped + (i + 1) - 1 = Popped + i - 0
      BY <1>5, QueueNumbers
    <3>2. Waiting(i + 1) = queued[Popped + (i + 1) - 1]
      BY <1>4, <1>5, <3>1 DEF Waiting
    <3>. QED
      BY <3>1, <3>2
  <2>6. Popped' \in 0 .. Len(queued') /\ Popped' = closing'.backlog /\ closing'.backlog <= Len(queued')
    BY <1>1, <1>5, <2>3, QueueNumbers
  <2>. QED
    BY <1>2, <1>3, <2>1, <2>3, <2>4, <2>5, <2>6 DEF QueueIsTheRest
<1>6. CASE ~(Pending /\ Popped = closing.backlog)
  <2>1. /\ worker'.callback # ExitCallback /\ worker'.callback = queued[Popped + 1]
        /\ Popped + 1 <= Len(queued) /\ (Pending => Popped < closing.backlog)
        /\ (closing.at = "joining" <=> Pending) /\ closing.at \in {"unmade", "open", "joining"}
    BY <1>0, <1>1, <1>6, TakesTheRest
  <2>2. Pending' <=> Pending
    BY <1>0, <1>1, <2>1 DEF Pending
  <2>3. Popped = (IF Pending THEN Len(queued) + 1 ELSE Len(queued)) - Len(callbacks)
    BY <1>4, PoppedIs
  <2>4. Popped' = Popped + 1
    <3>1. CASE Pending
      <4>1. Popped' = Len(queued') + 1 + 0 - Len(callbacks')
        BY <1>4, <2>2, <3>1 DEF Popped
      <4>. QED
        BY <1>1, <1>2, <2>3, <3>1, <4>1, QueueNumbers
    <3>2. CASE ~Pending
      <4>1. Popped' = Len(queued') + 0 + 0 - Len(callbacks')
        BY <1>4, <2>2, <3>2 DEF Popped
      <4>. QED
        BY <1>1, <1>2, <2>3, <3>2, <4>1, QueueNumbers
    <3>. QED
      BY <3>1, <3>2
  <2>5. ASSUME NEW i \in 1 .. Len(callbacks) - 1 PROVE Waiting(i)' = Waiting(i + 1)
    <3>1. CASE Pending
      <4>1. Waiting(i)' = IF i = closing.backlog - (Popped + 1) + 1 THEN ExitCallback
                          ELSE queued[Popped + 1 + i - (IF i > closing.backlog - (Popped + 1) THEN 1 ELSE 0)]
        BY <1>1, <1>4, <2>2, <2>4, <3>1 DEF Waiting
      <4>2. Waiting(i + 1) = IF i + 1 = closing.backlog - Popped + 1 THEN ExitCallback
                             ELSE queued[Popped + (i + 1) - (IF i + 1 > closing.backlog - Popped THEN 1 ELSE 0)]
        BY <1>4, <3>1 DEF Waiting
      <4>3. /\ i = closing.backlog - (Popped + 1) + 1 <=> i + 1 = closing.backlog - Popped + 1
            /\ i > closing.backlog - (Popped + 1) <=> i + 1 > closing.backlog - Popped
            /\ Popped + 1 + i - 1 = Popped + (i + 1) - 1 /\ Popped + 1 + i - 0 = Popped + (i + 1) - 0
        <5>1. Popped \in Nat /\ closing.backlog \in Nat /\ i \in Nat
          BY QueueNumbers
        <5>. QED
          BY <5>1, SMTT(20)
      <4>. QED
        BY <4>1, <4>2, <4>3
    <3>2. CASE ~Pending
      <4>1. Waiting(i)' = queued[Popped + 1 + i - 0] /\ Waiting(i + 1) = queued[Popped + (i + 1) - 0]
        BY <1>1, <1>4, <2>2, <2>4, <3>2 DEF Waiting
      <4>2. Popped + 1 + i - 0 = Popped + (i + 1) - 0
        BY QueueNumbers
      <4>. QED
        BY <4>1, <4>2
    <3>. QED
      BY <3>1, <3>2
  <2>6. Popped' \in 0 .. Len(queued')
    BY <1>1, <2>1, <2>4, QueueNumbers
  <2>7. closing'.at \in {"joining", "closed", "destroyed"} =>
          closing'.backlog <= Len(queued') /\ Pending' /\ Popped' <= closing'.backlog
    BY <1>1, <2>1, <2>2, <2>4, QueueNumbers DEF LogInv, QueueIsTheRest
  <2>. QED
    BY <1>2, <1>3, <2>1, <2>4, <2>5, <2>6, <2>7 DEF QueueIsTheRest
<1>. QED
  BY <1>5, <1>6

LEMMA StepKeepsQueue ==
  ASSUME LogInv, Steps
  PROVE  /\ QueueIsTheRest'
         /\ ~TakeCallback => Popped' = Popped
BY QuietSteps, QuietKeepsQueue, WriteKeepsQueue, ExitKeepsQueue, DestroyKeepsQueue,
   TakeKeepsQueue DEF Steps

\* What a step does to the messages that were queued, and to the part of the
\* callback thread's state that counts them.
LEMMA QueuedIsKept ==
  ASSUME LogInv, Steps
  PROVE  \A p \in 1 .. Len(queued) : queued'[p] = queued[p]
<1>1. queued \in Seq(Messages)
  BY QueueNumbers
<1>2. ASSUME NEW t \in LogWriters, Write(t) PROVE \A p \in 1 .. Len(queued) : queued'[p] = queued[p]
  BY <1>1, <1>2 DEF Write
<1>3. ASSUME NEW t \in LogWriters, NotifyAfterWrite(t) PROVE queued' = queued
  BY <1>3 DEF NotifyAfterWrite
<1>4. CASE ~(\E t \in LogWriters : Write(t) \/ NotifyAfterWrite(t))
  BY <1>4 DEF Steps, Construct, AddTarget, Exit, PushExit, ExitReturns, Destroy, CheckExit, Sleep,
     WakesSpuriously, TakeCallback, CallExit, StartWalk, CallTarget, CallStale, TargetThrows, EndWalk, WorkerSteps
<1>. QED
  BY <1>2, <1>3, <1>4

\* The steps that neither start nor end the work at a message.
Idle ==
  /\ Busy' <=> Busy
  /\ worker'.callback = worker.callback /\ worker'.next = worker.next /\ worker'.last = worker.last
  /\ worker'.at = "call" <=> worker.at = "call"
  /\ worker'.at = "walk" <=> worker.at = "walk"

LEMMA IdleSteps ==
  ASSUME LogInv,
         \/ (\E t \in LogWriters : Write(t) \/ NotifyAfterWrite(t)) \/ AddTarget
         \/ Exit \/ Destroy \/ ExitReturns \/ CheckExit \/ Sleep \/ WakesSpuriously \/ TargetThrows
  PROVE  Idle
<1>1. LogTyped /\ worker \in WorkerStates
  BY DEF LogInv, LogTyped
<1>2. ASSUME worker' = worker PROVE Idle
  BY <1>2 DEF Idle, Busy
<1>3. ASSUME worker' = Woken PROVE Idle
  BY <1>1, <1>3, WokenTyped DEF Idle, Busy
<1>4. CASE CheckExit \/ Sleep \/ WakesSpuriously
  BY <1>1, <1>4 DEF CheckExit, Sleep, WakesSpuriously, WorkerSteps, WorkerStates, Idle, Busy
<1>. QED
  BY <1>2, <1>3, <1>4 DEF Write, NotifyAfterWrite, AddTarget, Exit, Destroy, PushExit, ExitReturns,
     TargetThrows

LEMMA StepKeepsCurrent ==
  ASSUME LogInv, Steps
  PROVE  Current'
<1>0. worker \in WorkerStates
  BY DEF LogInv, LogTyped
<1>1. CASE TakeCallback
  <2>1. QueueIsTheRest' /\ (worker'.callback # ExitCallback => Popped' = Popped + 1 /\ worker'.callback = queued[Popped'])
    BY <1>1, TakeKeepsQueue
  <2>2. queued' = queued
    BY <1>1 DEF TakeCallback
  <2>3. CASE worker'.callback # ExitCallback
    BY <2>1, <2>2, <2>3, QueueNumbers DEF Current
  <2>. QED
    BY <2>3 DEF Current, Busy
<1>2. ASSUME ~TakeCallback, Busy' => Busy /\ worker'.callback = worker.callback
      PROVE  Current'
  <2>1. CASE ~Busy'
    BY <2>1 DEF Current
  <2>2. CASE Busy'
    <3>1. Popped' = Popped /\ worker'.callback = queued[Popped] /\ Popped \in 1 .. Len(queued)
      BY <1>2, <2>2, StepKeepsQueue, QueueNumbers DEF LogInv, Current
    <3>2. queued'[Popped] = queued[Popped]
      BY <3>1, QueuedIsKept
    <3>. QED
      BY <3>1, <3>2 DEF Current
  <2>. QED
    BY <2>1, <2>2
<1>3. CASE Construct \/ CallExit \/ StartWalk \/ CallTarget \/ EndWalk
  BY <1>0, <1>1, <1>2, <1>3 DEF Construct, CallExit, StartWalk, CallTarget, AtTarget, EndWalk,
     WorkerSteps, WorkerStates, Busy
<1>4. CASE CallStale
  BY <1>2, <1>4, StaleWalk DEF TakeCallback
<1>. QED
  BY <1>1, <1>2, <1>3, <1>4, IdleSteps DEF Idle, Steps

LEMMA StepKeepsWalk ==
  ASSUME LogInv, Steps
  PROVE  WalkIsInRange'
<1>0. /\ worker \in WorkerStates /\ targets \in Seq(Seq(Messages)) /\ WalkIsInRange
      /\ Len(targets) \in Nat /\ Threads
      /\ closing.at \in {"unmade", "open", "joining", "closed", "destroyed"}
  BY DEF LogInv, LogTyped
<1>1. CASE Construct
  <2>1. Len(targets') = InitialTargets /\ worker'.at = "check"
    <3>1. targets' = [i \in 1 .. InitialTargets |-> <<>>] /\ worker'.at = "check"
      BY <1>0, <1>1 DEF Construct, WorkerStates
    <3>. QED
      BY <3>1, LogAssumption
  <2>. QED
    BY <2>1, LogAssumption DEF WalkIsInRange
<1>2. CASE AddTarget
  <2>1. /\ worker' = worker /\ closing' = closing /\ Len(targets') = Len(targets) + 1
        /\ dangled' = dangled
        /\ targets'[Len(targets) + 1] = <<>> /\ \A i \in 1 .. Len(targets) : targets'[i] = targets[i]
    BY <1>0, <1>2 DEF AddTarget
  <2>2. closing'.at # "unmade" => Len(targets') >= InitialTargets
    BY <1>0, <2>1, LogAssumption DEF WalkIsInRange
  <2>3. ASSUME worker.at = "walk"
        PROVE  /\ worker.last \in InitialTargets .. Len(targets') /\ worker.next \in 1 .. worker.last + 1
               /\ ~dangled' => \A i \in worker.last + 1 .. Len(targets') : targets'[i] = <<>>
    <3>1. worker.last \in InitialTargets .. Len(targets) /\ worker.next \in 1 .. worker.last + 1
      BY <1>0, <2>3 DEF WalkIsInRange
    <3>2. ASSUME ~dangled, NEW i \in worker.last + 1 .. Len(targets') PROVE targets'[i] = <<>>
      <4>1. (i \in worker.last + 1 .. Len(targets) /\ i \in 1 .. Len(targets)) \/ i = Len(targets) + 1
        BY <1>0, <2>1, <3>1, LogAssumption
      <4>. QED
        BY <1>0, <2>1, <2>3, <3>2, <4>1 DEF WalkIsInRange
    <3>. QED
      BY <1>0, <2>1, <3>1, <3>2, LogAssumption
  <2>. QED
    BY <2>1, <2>2, <2>3 DEF WalkIsInRange
<1>3. ASSUME targets' = targets, Idle, dangled' = dangled,
             closing'.at = "unmade" <=> closing.at = "unmade"
      PROVE  WalkIsInRange'
  BY <1>0, <1>3 DEF Idle, WalkIsInRange
<1>4. ASSUME targets' = targets, worker'.at # "walk", closing' = closing
      PROVE  WalkIsInRange'
  BY <1>0, <1>4 DEF WalkIsInRange
<1>5. CASE TakeCallback \/ CallExit \/ EndWalk
  BY <1>0, <1>4, <1>5 DEF TakeCallback, CallExit, EndWalk, WorkerSteps, WorkerStates
<1>6. CASE StartWalk
  <2>1. /\ targets' = targets /\ closing' = closing
        /\ worker'.at = "walk" /\ worker'.next = 1 /\ worker'.last = Len(targets)
    BY <1>0, <1>6 DEF StartWalk, WorkerStates
  <2>2. Len(targets) >= InitialTargets
    BY <1>0, <1>6 DEF StartWalk, WalkIsInRange, Threads
  <2>. QED
    BY <1>0, <2>1, <2>2, LogAssumption DEF WalkIsInRange
<1>7. CASE CallTarget
  <2>1. /\ worker.at = "walk" /\ worker.next <= worker.last /\ closing' = closing
        /\ worker'.at = "walk" /\ worker'.next = worker.next + 1 /\ worker'.last = worker.last
        /\ Len(targets') = Len(targets) /\ dangled' = dangled
        /\ \A i \in 1 .. Len(targets) : i # worker.next => targets'[i] = targets[i]
    BY <1>0, <1>7 DEF CallTarget, AtTarget, WorkerStates
  <2>2. /\ worker.last \in InitialTargets .. Len(targets) /\ worker.next \in 1 .. worker.last + 1
        /\ ~dangled => \A i \in worker.last + 1 .. Len(targets) : targets[i] = <<>>
    BY <1>0, <2>1 DEF WalkIsInRange
  <2>3. \A i \in worker.last + 1 .. Len(targets) : i \in 1 .. Len(targets) /\ i # worker.next
    BY <1>0, <2>1, <2>2, LogAssumption
  <2>4. worker.next + 1 \in 1 .. worker.last + 1
    BY <1>0, <2>1, <2>2, LogAssumption
  <2>. QED
    BY <1>0, <2>1, <2>2, <2>3, <2>4 DEF WalkIsInRange
<1>8. ASSUME \/ (\E t \in LogWriters : Write(t) \/ NotifyAfterWrite(t))
             \/ Exit \/ Destroy \/ ExitReturns \/ CheckExit \/ Sleep \/ WakesSpuriously \/ TargetThrows
      PROVE  WalkIsInRange'
  <2>1. Idle
    BY <1>8, IdleSteps
  <2>2. /\ targets' = targets /\ (closing'.at = "unmade" <=> closing.at = "unmade")
        /\ dangled' = dangled
    BY <1>0, <1>8 DEF Write, NotifyAfterWrite, Exit, Destroy, PushExit, Closing, ExitReturns,
       CheckExit, Sleep, WakesSpuriously, WorkerSteps, TargetThrows, LogInv, LogTyped
  <2>. QED
    BY <1>3, <2>1, <2>2
<1>9. CASE CallStale
  BY <1>0, <1>9, StaleWalk DEF WalkIsInRange
<1>. QED
  BY <1>1, <1>2, <1>5, <1>6, <1>7, <1>8, <1>9 DEF Steps

LEMMA StepsKeepDangled ==
  ASSUME Steps, ~CallStale
  PROVE  dangled' = dangled
<1>1. ASSUME NEW t \in LogWriters, Write(t) \/ NotifyAfterWrite(t) PROVE dangled' = dangled
  BY <1>1 DEF Write, NotifyAfterWrite
<1>. QED
  BY <1>1 DEF Steps, Construct, AddTarget, Exit, PushExit, ExitReturns, Destroy, CheckExit, Sleep,
     WakesSpuriously, TakeCallback, CallExit, StartWalk, CallTarget, TargetThrows, EndWalk, WorkerSteps

LEMMA StepKeepsGiven ==
  ASSUME LogInv, Steps
  PROVE  Given'
<1>. SUFFICES ASSUME ~dangled' PROVE Given'
  BY DEF Given
<1>. ~CallStale
  BY DEF CallStale
<1>. ~dangled
  BY StepsKeepDangled
<1>0. /\ worker \in WorkerStates /\ targets \in Seq(Seq(Messages)) /\ Len(targets) \in Nat
      /\ Given /\ WalkIsInRange /\ \A i \in 1 .. Len(targets) : Len(targets[i]) \in Nat
  BY DEF LogInv, LogTyped
\* What an untouched target has been given.
<1>1. ASSUME NEW i \in 1 .. Len(targets), targets'[i] = targets[i], Off(i)' = Off(i)
      PROVE  /\ Len(targets'[i]) <= Off(i)'
             /\ \A j \in 1 .. Len(targets'[i]) : targets'[i][j] = queued'[Off(i)' - Len(targets'[i]) + j]
             /\ i <= InitialTargets => Len(targets'[i]) = Off(i)'
  <2>1. Len(targets[i]) <= Off(i) /\ (i <= InitialTargets => Len(targets[i]) = Off(i))
        /\ \A j \in 1 .. Len(targets[i]) : targets[i][j] = queued[Off(i) - Len(targets[i]) + j]
    BY <1>0 DEF Given
  <2>2. \A j \in 1 .. Len(targets[i]) : Off(i) - Len(targets[i]) + j \in 1 .. Len(queued)
    BY <1>0, <2>1, OffBounds
  <2>. QED
    BY <1>1, <2>1, <2>2, QueuedIsKept
<1>2. ASSUME Len(targets') = Len(targets),
             \A i \in 1 .. Len(targets) : targets'[i] = targets[i] /\ Off(i)' = Off(i)
      PROVE  Given'
  BY <1>1, <1>2 DEF Given
<1>3. ASSUME ~TakeCallback, Idle PROVE \A i : Off(i)' = Off(i)
  <2>1. Popped' = Popped
    BY <1>3, StepKeepsQueue
  <2>. QED
    BY <1>3, <2>1 DEF Idle, Off
<1>4. CASE Construct
  <2>1. /\ targets' = [i \in 1 .. InitialTargets |-> <<>>] /\ queued' = queued /\ queued = <<>>
        /\ worker'.at = "check"
    BY <1>0, <1>4 DEF Construct, WorkerStates, LogInv, Threads
  <2>2. Len(targets') = InitialTargets /\ \A i \in 1 .. InitialTargets : targets'[i] = <<>>
    BY <2>1, LogAssumption
  <2>3. Popped' = 0
    BY <2>1, StepKeepsQueue DEF QueueIsTheRest
  <2>4. \A i : Off(i)' = 0
    BY <2>1, <2>3 DEF Off, Busy
  <2>. QED
    BY <2>2, <2>4 DEF Given
<1>5. CASE AddTarget
  <2>1. /\ Len(targets') = Len(targets) + 1 /\ closing.at # "unmade"
        /\ targets'[Len(targets) + 1] = <<>> /\ \A i \in 1 .. Len(targets) : targets'[i] = targets[i]
    BY <1>0, <1>5 DEF AddTarget, Alive
  <2>2. \A i : Off(i)' = Off(i)
    BY <1>3, <1>5, IdleSteps DEF AddTarget, TakeCallback
  <2>3. Len(targets) + 1 > InitialTargets
    BY <1>0, <2>1, LogAssumption DEF WalkIsInRange
  <2>4. ASSUME NEW i \in 1 .. Len(targets'), i = Len(targets) + 1
        PROVE  /\ Len(targets'[i]) <= Off(i)'
               /\ \A j \in 1 .. Len(targets'[i]) : targets'[i][j] = queued'[Off(i)' - Len(targets'[i]) + j]
               /\ i <= InitialTargets => Len(targets'[i]) = Off(i)'
    <3>1. Off(i)' = Off(i) /\ Off(i) \in Nat /\ targets'[i] = <<>> /\ ~(i <= InitialTargets)
      BY <1>0, <2>1, <2>2, <2>3, <2>4, OffBounds, LogAssumption
    <3>. QED
      BY <3>1
  <2>5. \A i \in 1 .. Len(targets') : i \in 1 .. Len(targets) \/ i = Len(targets) + 1
    BY <1>0, <2>1
  <2>. QED
    BY <1>1, <2>1, <2>2, <2>4, <2>5 DEF Given
<1>6. CASE TakeCallback
  <2>1. targets' = targets /\ worker.at = "wait" /\ worker'.at = "call"
    BY <1>0, <1>6 DEF TakeCallback, WorkerStates
  <2>2. \A i : Off(i) = Popped
    BY <2>1 DEF Off, Busy
  <2>3. CASE worker'.callback = ExitCallback
    <3>1. \A i : Off(i)' = Popped'
      BY <2>3 DEF Off, Busy
    <3>. QED
      BY <1>2, <1>6, <2>1, <2>2, <2>3, <3>1, TakeKeepsQueue
  <2>4. CASE worker'.callback # ExitCallback
    <3>1. \A i : Off(i)' = Popped' - 1
      BY <2>1, <2>4 DEF Off, Busy
    <3>2. Popped' - 1 = Popped
      BY <1>6, <2>4, TakeKeepsQueue, QueueNumbers
    <3>. QED
      BY <1>2, <2>1, <2>2, <3>1, <3>2
  <2>. QED
    BY <2>3, <2>4
<1>7. CASE CallExit
  <2>1. targets' = targets /\ worker'.at = "check" /\ ~Busy
    BY <1>0, <1>7 DEF CallExit, WorkerStates, Busy
  <2>2. Popped' = Popped
    BY <1>7, StepKeepsQueue, <2>1 DEF CallExit, TakeCallback
  <2>3. \A i : Off(i)' = Off(i)
    BY <2>1, <2>2 DEF Off, Busy
  <2>. QED
    BY <1>2, <2>1, <2>3
<1>8. CASE StartWalk
  <2>1. targets' = targets /\ worker'.at = "walk" /\ worker'.next = 1 /\ worker.at = "call"
        /\ worker.callback # ExitCallback /\ worker'.callback = worker.callback
    BY <1>0, <1>8 DEF StartWalk, WorkerStates
  <2>2. Popped' = Popped
    BY <1>8, <2>1, StepKeepsQueue DEF TakeCallback
  <2>3. \A i \in 1 .. Len(targets) : Off(i)' = Off(i)
    <3>1. \A i \in 1 .. Len(targets) : 1 <= i
      BY <1>0
    <3>. QED
      BY <2>1, <2>2, <3>1 DEF Off, Busy
  <2>. QED
    BY <1>2, <2>1, <2>3
<1>9. CASE CallTarget
  <2>. DEFINE n == worker.next
  <2>1. /\ worker.at = "walk" /\ n <= worker.last /\ n \in Nat
        /\ worker'.at = "walk" /\ worker'.next = n + 1 /\ worker'.last = worker.last
        /\ worker'.callback = worker.callback
        /\ targets' = [targets EXCEPT ![n] = Append(targets[n], worker.callback)]
    BY <1>0, <1>9 DEF CallTarget, AtTarget, WorkerStates
  <2>2. n \in 1 .. Len(targets) /\ Busy /\ Busy'
    BY <1>0, <2>1, LogAssumption DEF WalkIsInRange, Busy, LogInv, Threads
  <2>3. /\ Len(targets') = Len(targets) /\ targets'[n] = Append(targets[n], worker.callback)
        /\ \A i \in 1 .. Len(targets) : i # n => targets'[i] = targets[i]
    BY <1>0, <2>1, <2>2
  <2>4. Popped' = Popped /\ Popped >= 1 /\ Popped <= Len(queued) /\ worker.callback = queued[Popped]
        /\ Popped \in Nat /\ Len(queued) \in Nat
    BY <1>9, <2>1, <2>2, StepKeepsQueue, QueueNumbers DEF TakeCallback, LogInv, Current
  <2>5. \A i \in 1 .. Len(targets) : i # n => Off(i)' = Off(i)
    <3>1. \A i \in 1 .. Len(targets) : i # n => (n <= i <=> n + 1 <= i)
      BY <1>0, <2>1
    <3>. QED
      BY <2>1, <2>2, <2>4, <3>1 DEF Off
  <2>6. Off(worker.next) = Popped - 1
    BY <2>1, <2>2 DEF Off
  <2>7. ASSUME NEW i \in 1 .. Len(targets), i = n
        PROVE  /\ Len(targets'[i]) <= Off(i)'
               /\ \A j \in 1 .. Len(targets'[i]) : targets'[i][j] = queued'[Off(i)' - Len(targets'[i]) + j]
               /\ i <= InitialTargets => Len(targets'[i]) = Off(i)'
    <3>. DEFINE t == targets[i]
    <3>1. t \in Seq(Messages) /\ Len(t) \in Nat /\ Len(t) <= Popped - 1
          /\ (i <= InitialTargets => Len(t) = Popped - 1)
          /\ \A j \in 1 .. Len(t) : t[j] = queued[Popped - 1 - Len(t) + j]
      BY <1>0, <2>6, <2>7 DEF Given
    <3>2. Off(i)' = Popped
      <4>1. ~(n + 1 <= i)
        BY <2>1, <2>7
      <4>. QED
        BY <2>1, <2>4, <4>1 DEF Off
    <3>3. /\ targets'[i] = Append(t, worker.callback)
          /\ worker.callback \in Messages
      BY <1>0, <2>2, <2>3, <2>7 DEF Busy, WorkerStates, Callbacks
    <3>. HIDE DEF t
    <3>4. /\ Len(targets'[i]) = Len(t) + 1 /\ targets'[i][Len(t) + 1] = worker.callback
          /\ \A j \in 1 .. Len(t) : targets'[i][j] = t[j]
      BY <3>1, <3>3
    <3>5. \A j \in 1 .. Len(t) + 1 :
            /\ Popped - (Len(t) + 1) + j \in 1 .. Len(queued)
            /\ Popped - 1 - Len(t) + j = Popped - (Len(t) + 1) + j
            /\ j \in 1 .. Len(t) \/ (j = Len(t) + 1 /\ Popped - (Len(t) + 1) + j = Popped)
      <4>1. Len(t) \in Nat /\ Len(t) <= Popped - 1 /\ Popped \in Nat /\ Len(queued) \in Nat
            /\ Popped <= Len(queued)
        BY <2>4, <3>1
      <4>2. \A j \in 1 .. Len(t) + 1 : Popped - (Len(t) + 1) + j \in 1 .. Len(queued)
        BY <4>1
      <4>3. \A j \in 1 .. Len(t) + 1 : Popped - 1 - Len(t) + j = Popped - (Len(t) + 1) + j
        BY <4>1
      <4>4. \A j \in 1 .. Len(t) + 1 :
              j \in 1 .. Len(t) \/ (j = Len(t) + 1 /\ Popped - (Len(t) + 1) + j = Popped)
        BY <4>1
      <4>. QED
        BY <4>2, <4>3, <4>4
    <3>6. \A j \in 1 .. Len(t) + 1 : targets'[i][j] = queued[Popped - (Len(t) + 1) + j]
      BY <2>4, <3>1, <3>4, <3>5
    <3>7. \A j \in 1 .. Len(t) + 1 : targets'[i][j] = queued'[Popped - (Len(t) + 1) + j]
      BY <3>5, <3>6, QueuedIsKept
    <3>8. Len(t) + 1 <= Popped /\ (i <= InitialTargets => Len(t) + 1 = Popped)
      BY <2>4, <3>1
    <3>. QED
      BY <3>2, <3>4, <3>7, <3>8
  <2>. HIDE DEF n
  <2>. QED
    BY <1>1, <2>3, <2>5, <2>7 DEF Given
<1>10. CASE EndWalk
  <2>1. /\ worker.at = "walk" /\ worker.next > worker.last /\ worker'.at = "check"
        /\ targets' = targets /\ worker.last \in InitialTargets .. Len(targets)
        /\ worker.next \in Nat /\ Busy /\ Popped' = Popped /\ queued' = queued
    BY <1>0, <1>10, StepKeepsQueue DEF EndWalk, WorkerSteps, WorkerStates, WalkIsInRange, Busy, LogInv,
       Threads, TakeCallback
  <2>2. \A i : Off(i)' = Popped
    BY <2>1 DEF Off, Busy
  <2>3. ASSUME NEW i \in 1 .. Len(targets), i <= worker.last PROVE Off(i)' = Off(i)
    <3>1. ~(worker.next <= i)
      BY <1>0, <2>1, <2>3, LogAssumption
    <3>. QED
      BY <2>1, <2>2, <3>1 DEF Off
  <2>4. ASSUME NEW i \in 1 .. Len(targets), ~(i <= worker.last)
        PROVE  /\ Len(targets'[i]) <= Off(i)'
               /\ \A j \in 1 .. Len(targets'[i]) : targets'[i][j] = queued'[Off(i)' - Len(targets'[i]) + j]
               /\ i <= InitialTargets => Len(targets'[i]) = Off(i)'
    <3>1. targets'[i] = <<>> /\ ~(i <= InitialTargets)
      BY <1>0, <2>1, <2>4, LogAssumption DEF WalkIsInRange
    <3>2. Off(i)' \in Nat
      BY <2>2, QueueNumbers
    <3>. QED
      BY <3>1, <3>2
  <2>. QED
    BY <1>1, <2>1, <2>3, <2>4 DEF Given
<1>11. ASSUME \/ (\E t \in LogWriters : Write(t) \/ NotifyAfterWrite(t))
              \/ Exit \/ Destroy \/ ExitReturns \/ CheckExit \/ Sleep \/ WakesSpuriously \/ TargetThrows
       PROVE  Given'
  <2>1. Idle
    BY <1>11, IdleSteps
  <2>2. targets' = targets
    BY <1>11 DEF Write, NotifyAfterWrite, Exit, Destroy, PushExit, ExitReturns,
       CheckExit, Sleep, WakesSpuriously, WorkerSteps, TargetThrows
  <2>3. CASE TakeCallback
    BY <1>6, <2>3
  <2>. QED
    BY <1>2, <1>3, <2>1, <2>2, <2>3
<1>. QED
  BY <1>4, <1>5, <1>6, <1>7, <1>8, <1>9, <1>10, <1>11 DEF Steps

LEMMA LogInvStep == LogInv /\ [LogNext]_logVars => LogInv'
<1>1. ASSUME LogInv, LogNext PROVE LogInv'
  BY <1>1, NextIsSteps, StepKeepsLogTypes, StepKeepsThreads, StepKeepsQueue, StepKeepsCurrent,
     StepKeepsWalk, StepKeepsGiven DEF LogInv
<1>2. ASSUME LogInv, UNCHANGED logVars PROVE LogInv'
  <2>1. UNCHANGED <<callbacks, callbackThreadExit, worker, targets, storage, writer, closing, queued,
                    dangled>>
    BY <1>2 DEF logVars
  <2>2. (Pending' <=> Pending) /\ (Destroyed' <=> Destroyed) /\ (Busy' <=> Busy)
    BY <2>1 DEF Pending, Destroyed, Busy
  <2>3. Popped' = Popped /\ QueueIsTheRest'
    BY <1>2, <2>1, <2>2, QuietKeepsQueue DEF QuietQueue
  <2>4. \A i : Off(i)' = Off(i)
    BY <2>1, <2>2, <2>3 DEF Off
  <2>5. LogTyped' /\ Threads' /\ WalkIsInRange'
    BY <1>2, <2>1 DEF LogInv, LogTyped, Threads, WalkIsInRange
  <2>6. Current' /\ Given'
    BY <1>2, <2>1, <2>2, <2>3, <2>4 DEF LogInv, Current, Given
  <2>. QED
    BY <2>3, <2>5, <2>6 DEF LogInv
<1>. QED
  BY <1>1, <1>2

\* The invariant of the log.
THEOREM LogInvariance == LogSpec => []LogInv
BY LogInvInit, LogInvStep, PTL DEF LogSpec

\* Until a walk reads storage that AddTarget gave up, every target is given the
\* messages in the order in which write queued them, each one once and none
\* left out since it was added.
THEOREM TargetsAreGivenInOrder == LogSpec => []InQueueOrder
BY LogInvariance, InvGivesOrder, PTL

\* When Exit returns and no walk has read storage that AddTarget gave up, what
\* was queued before it has been given to the targets of the constructor, and
\* what is queued behind its callback never is.
THEOREM BacklogIsWritten == LogSpec => []ExitWritesTheBacklog
BY LogInvariance, InvGivesBacklog, PTL

=============================================================================
