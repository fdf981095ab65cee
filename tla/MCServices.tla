----------------------------- MODULE MCServices -----------------------------
(***************************************************************************)
(* Eight parts of xtd that share no state, checked side by side on small   *)
(* instances: each behaviour is one of a single part, the others staying   *)
(* as they are before their first use.                                     *)
(***************************************************************************)
EXTENDS RwLock, ConcurrentStack, Log, Rpc, RpcPipe, Pages, Transaction, Com

CONSTANTS
  add, echo,             \* calls: the server has a handler for add only
  thisFactory, instance  \* places for COM objects

\* Each calling thread has an rpc_client of its own, as the class requires.
OwnClient == [t \in Callers |-> t]

CallOfTheirs == [t \in Callers |-> IF t = 1 THEN add ELSE echo]

FewCalls == [t \in Callers |-> IF t = 1 THEN 2 ELSE 1]

VARIABLE subject  \* the part that a behaviour is one of

vars == <<rwVars, stackVars, logVars, rpcVars, pipeVars, pagesVars, transactionVars,
          comVars, subject>>

Init ==
  /\ RwInit /\ StackInit /\ LogInit /\ RpcInit /\ PipeInit /\ PagesInit /\ TransactionInit
  /\ ComInit
  /\ subject \in {"rw_lock", "stack", "log", "rpc", "pipe", "pages", "sqlite", "com"}
  /\ subject # "rpc" => closeWakes = TRUE
  /\ subject # "pages" => system = "unix" /\ client = "vector"

Next ==
  /\ \/ /\ subject = "rw_lock" /\ RwNext
        /\ UNCHANGED <<stackVars, logVars, rpcVars, pipeVars, pagesVars,
                       transactionVars, comVars>>
     \/ /\ subject = "stack" /\ StackNext
        /\ UNCHANGED <<rwVars, logVars, rpcVars, pipeVars, pagesVars,
                       transactionVars, comVars>>
     \/ /\ subject = "log" /\ LogNext
        /\ UNCHANGED <<rwVars, stackVars, rpcVars, pipeVars, pagesVars,
                       transactionVars, comVars>>
     \/ /\ subject = "rpc" /\ RpcNext
        /\ UNCHANGED <<rwVars, stackVars, logVars, pipeVars, pagesVars,
                       transactionVars, comVars>>
     \/ /\ subject = "pipe" /\ PipeNext
        /\ UNCHANGED <<rwVars, stackVars, logVars, rpcVars, pagesVars,
                       transactionVars, comVars>>
     \/ /\ subject = "pages" /\ PagesNext
        /\ UNCHANGED <<rwVars, stackVars, logVars, rpcVars, pipeVars,
                       transactionVars, comVars>>
     \/ /\ subject = "sqlite" /\ TransactionNext
        /\ UNCHANGED <<rwVars, stackVars, logVars, rpcVars, pipeVars, pagesVars,
                       comVars>>
     \/ /\ subject = "com" /\ ComNext
        /\ UNCHANGED <<rwVars, stackVars, logVars, rpcVars, pipeVars, pagesVars,
                       transactionVars>>
  /\ UNCHANGED subject

\* No fair action of a part is enabled before its first use.
Spec ==
  /\ Init /\ [][Next]_vars
  /\ RwFairness /\ StackFairness /\ LogFairness /\ RpcFairness /\ PipeFairness
==============================================================================
