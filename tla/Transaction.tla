----------------------------- MODULE Transaction -----------------------------
(***************************************************************************)
(* xtd::sqlite::transaction and database::execute (sqlite.hpp), over one   *)
(* connection to SQLite.                                                   *)
(*                                                                         *)
(* Of SQLite there is what the code relies on: a statement fails without   *)
(* an effect, or it fails and SQLite itself ends the open transaction (the *)
(* disk is full, memory runs out), and outside a transaction each          *)
(* statement commits by itself.                                            *)
(***************************************************************************)
EXTENDS Naturals

CONSTANTS
  Transactions,   \* the transaction objects that are made
  MaxStatements   \* bound: the statements that succeed

VARIABLES
  inTransaction,  \* SQLite is inside a transaction
  pending,        \* its statements
  durable,        \* the statements that are committed
  executed,       \* history: how many statements have succeeded
  finished,       \* each object: "unmade", "gone", or _finished
  outcome,        \* history: how each object finished
  during,         \* history: the statements executed during its life
  mishaps         \* history: SQLite ended a transaction, a rollback failed

transactionVars ==
  <<inTransaction, pending, durable, executed, finished, outcome, during, mishaps>>

TransactionInit ==
  /\ inTransaction = FALSE /\ pending = {} /\ durable = {} /\ executed = 0
  /\ finished = [t \in Transactions |-> "unmade"]
  /\ outcome = [t \in Transactions |-> "none"]
  /\ during = [t \in Transactions |-> {}]
  /\ mishaps = {}

Unfinished == {t \in Transactions : finished[t] = "FALSE"}

-----------------------------------------------------------------------------
(* What the statements that end a transaction do; each may fail instead *)

CommitStatement ==
  /\ inTransaction
  /\ inTransaction' = FALSE /\ durable' = durable \cup pending /\ pending' = {}
  /\ UNCHANGED mishaps

RollbackStatement ==
  /\ inTransaction
  /\ inTransaction' = FALSE /\ pending' = {}
  /\ UNCHANGED <<durable, mishaps>>

FailingStatement ==
  \/ UNCHANGED <<inTransaction, pending, durable, mishaps>>
  \/ /\ inTransaction
     /\ inTransaction' = FALSE /\ pending' = {}
     /\ mishaps' = mishaps \cup {"ended by SQLite"}
     /\ UNCHANGED durable

-----------------------------------------------------------------------------
(* The operations *)

\* begin_transaction: SQLite has no nested ones, and a constructor that throws
\* leaves no object.
BeginTransaction(t) ==
  /\ finished[t] = "unmade"
  /\ \/ /\ ~inTransaction
        /\ inTransaction' = TRUE
        /\ finished' = [finished EXCEPT ![t] = "FALSE"]
     \/ /\ finished' = [finished EXCEPT ![t] = "gone"]
        /\ UNCHANGED inTransaction
  /\ UNCHANGED <<pending, durable, executed, outcome, during, mishaps>>

Execute ==
  /\ executed < MaxStatements
  /\ \/ /\ executed' = executed + 1
        /\ IF inTransaction
           THEN pending' = pending \cup {executed} /\ UNCHANGED durable
           ELSE durable' = durable \cup {executed} /\ UNCHANGED pending
        /\ during' = [t \in Transactions |->
                        IF t \in Unfinished THEN during[t] \cup {executed} ELSE during[t]]
        /\ UNCHANGED <<inTransaction, mishaps>>
     \/ FailingStatement /\ UNCHANGED <<executed, during>>
  /\ UNCHANGED <<finished, outcome>>

Finish(t, label) ==
  /\ finished' = [finished EXCEPT ![t] = "TRUE"]
  /\ outcome' = [outcome EXCEPT ![t] = label]

\* Mutant: _finished is set before the statement is executed.
CommitFinishesFirst(t) ==
  /\ finished[t] = "FALSE"
  /\ finished' = [finished EXCEPT ![t] = "TRUE"]
  /\ \/ CommitStatement /\ outcome' = [outcome EXCEPT ![t] = "committed"]
     \/ FailingStatement /\ UNCHANGED outcome
  /\ UNCHANGED <<executed, during>>

\* A commit that throws leaves the object unfinished; one that comes after
\* another end does nothing and returns.
Commit(t) ==
  /\ finished[t] = "FALSE"
  /\ \/ CommitStatement /\ Finish(t, "committed")
     \/ FailingStatement /\ UNCHANGED <<finished, outcome>>
  /\ UNCHANGED <<executed, during>>

Rollback(t) ==
  /\ finished[t] = "FALSE"
  /\ \/ RollbackStatement /\ Finish(t, "rolled back")
     \/ FailingStatement /\ UNCHANGED <<finished, outcome>>
  /\ UNCHANGED <<executed, during>>

\* The destructor rolls back what is not finished, and swallows the exception.
Destruct(t) ==
  /\ finished[t] \in {"FALSE", "TRUE"}
  /\ finished' = [finished EXCEPT ![t] = "gone"]
  /\ \/ finished[t] = "TRUE" /\ UNCHANGED <<inTransaction, pending, durable, outcome, mishaps>>
     \/ /\ finished[t] = "FALSE" /\ RollbackStatement
        /\ outcome' = [outcome EXCEPT ![t] = "rolled back"]
     \/ /\ finished[t] = "FALSE"
        /\ outcome' = [outcome EXCEPT ![t] = "rolled back"]
        /\ mishaps' = mishaps \cup {"rollback failed"}
        /\ UNCHANGED <<inTransaction, pending, durable>>
  /\ UNCHANGED <<executed, during>>

TransactionNext ==
  \/ \E t \in Transactions :
       BeginTransaction(t) \/ Commit(t) \/ Rollback(t) \/ Destruct(t)
  \/ Execute

TransactionSpec == TransactionInit /\ [][TransactionNext]_transactionVars

-----------------------------------------------------------------------------
(* Properties *)

\* As long as SQLite ends no transaction by itself: what was executed during
\* the life of a transaction is durable when commit has returned, none of it
\* is when the object went without, whichever calls threw in between; and no
\* transaction stays open without its object, unless the destructor's rollback
\* failed.
TransactionIsAllOrNothing ==
  "ended by SQLite" \notin mishaps =>
    /\ \A t \in Transactions :
         /\ outcome[t] = "committed" => during[t] \subseteq durable
         /\ outcome[t] # "committed" => during[t] \cap durable = {}
    /\ inTransaction => Unfinished # {} \/ "rollback failed" \in mishaps
==============================================================================
