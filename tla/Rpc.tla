--------------------------------- MODULE Rpc ---------------------------------
(***************************************************************************)
(* xtd::rpc over tcp_transport (rpc.hpp) and the ipv4_tcp_stream it uses   *)
(* (socket.hpp): the thread that accepts, one worker thread per            *)
(* connection that polls its socket with select, the clients' blocking     *)
(* transact, and stop_server.                                              *)
(*                                                                         *)
(* A connection carries whole messages: the length and the bytes that the  *)
(* serializer sends one after the other are taken as one, which is what    *)
(* the peer sees as long as one thread uses a client and a message fits in *)
(* what one recv returns.                                                  *)
(***************************************************************************)
EXTENDS Naturals, Sequences

CONSTANTS
  Callers,        \* the threads that call
  Clients,        \* the rpc_client objects
  ClientOf,       \* which of them each thread uses
  MaxCalls,       \* bound: how often each thread calls
  CallOf,         \* what each thread calls
  Attached,       \* the calls that the server has a handler for
  CloseWakes,     \* whether closing a listening socket wakes an accept on it:
                  \* TRUE on Windows, FALSE on Linux
  AcceptMayFail   \* whether accept may fail while the server runs

VARIABLES
  server,      \* where the owner is in start_server and stop_server
  stopServer,  \* _stop_server
  listener,    \* _socket of the server; "held" when an accept keeps it alive
  acceptor,    \* the server thread
  broken,      \* accept has failed without a stop
  conn,        \* the connection of each client
  workers,      \* the thread that serves it, with its payload and bResponseReady
  requests,    \* what the server can read from each connection
  replies,     \* what the client can
  caller,      \* where each thread is in its n-th call
  answer,      \* what its last call got
  closeWakes,  \* one of CloseWakes
  rpcRuns      \* FALSE once an exception ended the program

rpcVars == <<server, stopServer, listener, acceptor, broken, conn, workers, requests,
             replies, caller, answer, closeWakes, rpcRuns>>

\* A payload that holds nothing yet, and what a call that threw leaves.
NoPayload == [to |-> <<>>, is |-> "empty"]
NoAnswer == [to |-> <<>>, is |-> "thrown"]
Resting == [at |-> "none", payload |-> NoPayload, ready |-> FALSE, writable |-> FALSE]

RpcInit ==
  /\ server = "new" /\ stopServer = FALSE /\ listener = "closed"
  /\ acceptor = "none" /\ broken = FALSE
  /\ conn = [c \in Clients |-> "none"]
  /\ workers = [c \in Clients |-> Resting]
  /\ requests = [c \in Clients |-> <<>>]
  /\ replies = [c \in Clients |-> <<>>]
  /\ caller = [t \in Callers |-> [at |-> "idle", n |-> 0]]
  /\ answer = [t \in Callers |-> NoAnswer]
  /\ closeWakes \in CloseWakes
  /\ rpcRuns = TRUE

\* The connections that nobody accepted end with the listening socket.
Reset(connections) ==
  [c \in Clients |-> IF connections[c] = "backlog" THEN "ended" ELSE connections[c]]

-----------------------------------------------------------------------------
(* start_server and stop_server *)

StartServer ==
  /\ rpcRuns /\ server = "new"
  /\ server' = "running" /\ stopServer' = FALSE
  /\ listener' = "open" /\ acceptor' = "check"
  /\ UNCHANGED <<broken, conn, workers, requests, replies, caller, answer,
                 closeWakes, rpcRuns>>

\* The socket is never opened again: bind throws out of the new server thread.
RestartServer ==
  /\ rpcRuns /\ server = "stopped"
  /\ rpcRuns' = FALSE
  /\ UNCHANGED <<server, stopServer, listener, acceptor, broken, conn, workers,
                 requests, replies, caller, answer, closeWakes>>

StopServer ==
  /\ rpcRuns /\ server = "running"
  /\ server' = "closing" /\ stopServer' = TRUE
  /\ UNCHANGED <<listener, acceptor, broken, conn, workers, requests, replies,
                 caller, answer, closeWakes, rpcRuns>>

CloseListener ==
  /\ rpcRuns /\ server = "closing"
  /\ server' = "joining"
  /\ \/ /\ acceptor = "blocked" /\ ~closeWakes
        /\ listener' = "held" /\ UNCHANGED conn
     \/ /\ acceptor # "blocked" \/ closeWakes
        /\ listener' = "closed" /\ conn' = Reset(conn)
  /\ UNCHANGED <<stopServer, acceptor, broken, workers, requests, replies, caller,
                 answer, closeWakes, rpcRuns>>

JoinServer ==
  /\ rpcRuns /\ server = "joining" /\ acceptor = "finished"
  /\ server' = "stopped"
  /\ UNCHANGED <<stopServer, listener, acceptor, broken, conn, workers, requests,
                 replies, caller, answer, closeWakes, rpcRuns>>

-----------------------------------------------------------------------------
(* The server thread *)

AcceptorGoes(label) ==
  /\ acceptor' = label
  /\ UNCHANGED <<server, stopServer, requests, replies, caller, answer,
                 closeWakes, rpcRuns>>

CheckStop ==
  /\ rpcRuns /\ acceptor = "check"
  /\ AcceptorGoes(IF stopServer THEN "left" ELSE "accept")
  /\ UNCHANGED <<listener, broken, conn, workers>>

\* accept on a socket that is closed already throws, which leaves the loop.
CallAccept ==
  /\ rpcRuns /\ acceptor = "accept"
  /\ AcceptorGoes(IF listener = "open" THEN "blocked" ELSE "left")
  /\ UNCHANGED <<listener, broken, conn, workers>>

Accept(c) ==
  /\ rpcRuns /\ acceptor = "blocked" /\ conn[c] = "backlog"
  /\ ~stopServer
  /\ AcceptorGoes("check")
  /\ conn' = [conn EXCEPT ![c] = "served"]
  /\ workers' = [workers EXCEPT ![c].at = "check"]
  /\ UNCHANGED <<listener, broken>>

\* A connection that is accepted after the stop is dropped; a listening socket
\* that only this accept kept alive goes with it.
AcceptTooLate(c) ==
  /\ rpcRuns /\ acceptor = "blocked" /\ conn[c] = "backlog"
  /\ stopServer
  /\ AcceptorGoes("left")
  /\ LET dropped == [conn EXCEPT ![c] = "ended"]
     IN  conn' = IF listener = "held" THEN Reset(dropped) ELSE dropped
  /\ listener' = IF listener = "held" THEN "closed" ELSE listener
  /\ UNCHANGED <<broken, workers>>

AcceptIsWoken ==
  /\ rpcRuns /\ acceptor = "blocked" /\ listener = "closed"
  /\ AcceptorGoes("left")
  /\ UNCHANGED <<listener, broken, conn, workers>>

\* Any other failure of accept leaves the loop too, without a stop.
AcceptFails ==
  /\ rpcRuns /\ acceptor = "blocked" /\ AcceptMayFail /\ ~stopServer
  /\ AcceptorGoes("left")
  /\ broken' = TRUE
  /\ UNCHANGED <<listener, conn, workers>>

JoinWorkers ==
  /\ rpcRuns /\ acceptor = "left"
  /\ \A c \in Clients : workers[c].at \in {"none", "done"}
  /\ AcceptorGoes("finished")
  /\ UNCHANGED <<listener, broken, conn, workers>>

AcceptorStep ==
  \/ CheckStop \/ CallAccept \/ AcceptIsWoken \/ JoinWorkers
  \/ \E c \in Clients : Accept(c) \/ AcceptTooLate(c)

-----------------------------------------------------------------------------
(* The worker of a connection *)

WorkerGoes ==
  UNCHANGED <<server, stopServer, listener, acceptor, broken, caller, answer,
              closeWakes, rpcRuns>>

\* The thread ends and its socket with it.
EndWorker(c) ==
  /\ workers' = [workers EXCEPT ![c] = [Resting EXCEPT !.at = "done"]]
  /\ conn' = [conn EXCEPT ![c] = IF @ = "gone" THEN @ ELSE "ended"]
  /\ UNCHANGED <<requests, replies>>
  /\ WorkerGoes

\* Mutant: the worker polls until its client has gone.
WorkerChecksNothing(c) ==
  /\ rpcRuns /\ workers[c].at = "check"
  /\ workers' = [workers EXCEPT ![c].at = "select"]
  /\ UNCHANGED <<conn, requests, replies>>
  /\ WorkerGoes

WorkerChecks(c) ==
  /\ rpcRuns /\ workers[c].at = "check"
  /\ \/ stopServer /\ EndWorker(c)
     \/ /\ ~stopServer
        /\ workers' = [workers EXCEPT ![c].at = "select"]
        /\ UNCHANGED <<conn, requests, replies>>
        /\ WorkerGoes

\* select returns at once: its timeout of 250 ms is computed to 0.  A socket
\* whose peer has gone is readable; a reply the peer has not read yet fills
\* the buffer.
Select(c) ==
  LET readable == requests[c] # <<>> \/ conn[c] = "gone"
      writable == replies[c] = <<>>
  IN  /\ rpcRuns /\ workers[c].at = "select"
      /\ workers' = [workers EXCEPT ![c].at = IF readable THEN "read"
                                            ELSE IF writable THEN "write" ELSE "check",
                                  ![c].writable = writable]
      /\ UNCHANGED <<conn, requests, replies>>
      /\ WorkerGoes

\* What rpc_server::invoke makes of a request: the handler's return value or
\* the marker with its exception's what(), or the marker alone when no call of
\* the server has that id.
Invoke(request) ==
  [to |-> request, is |-> IF request.call \in Attached THEN "handled" ELSE "no handler"]

\* onRead: the payload is overwritten by the response.  At the end of the
\* stream read throws, which ends the worker.
OnRead(c) ==
  /\ rpcRuns /\ workers[c].at = "read"
  /\ \/ requests[c] = <<>> /\ EndWorker(c)
     \/ /\ requests[c] # <<>>
        /\ requests' = [requests EXCEPT ![c] = Tail(@)]
        /\ workers' = [workers EXCEPT ![c].payload = Invoke(Head(requests[c])),
                                      ![c].ready = TRUE,
                                      ![c].at = IF workers[c].writable THEN "write" ELSE "check"]
        /\ UNCHANGED <<conn, replies>>
        /\ WorkerGoes

\* Mutant: bResponseReady stays set.
OnWriteAgain(c) ==
  /\ rpcRuns /\ workers[c].at = "write"
  /\ workers' = [workers EXCEPT ![c].at = "check", ![c].payload = NoPayload]
  /\ replies' = IF workers[c].ready
                THEN [replies EXCEPT ![c] = Append(@, workers[c].payload)] ELSE replies
  /\ UNCHANGED <<conn, requests>>
  /\ WorkerGoes

\* onWrite: only a response that is ready is sent.
OnWrite(c) ==
  /\ rpcRuns /\ workers[c].at = "write"
  /\ workers' = [workers EXCEPT ![c] = [Resting EXCEPT !.at = "check"]]
  /\ replies' = IF workers[c].ready
                THEN [replies EXCEPT ![c] = Append(@, workers[c].payload)] ELSE replies
  /\ UNCHANGED <<conn, requests>>
  /\ WorkerGoes

ServeStep(c) == WorkerChecks(c) \/ Select(c) \/ OnRead(c) \/ OnWrite(c)

-----------------------------------------------------------------------------
(* The clients *)

CallerGoes(t, label) ==
  /\ caller' = [caller EXCEPT ![t].at = label]
  /\ UNCHANGED <<server, stopServer, listener, acceptor, broken, workers,
                 closeWakes, rpcRuns>>

Throw(t) ==
  /\ CallerGoes(t, "idle")
  /\ answer' = [answer EXCEPT ![t] = NoAnswer]

Request(t) == [from |-> t, n |-> caller[t].n, call |-> CallOf[t]]

Call(t) ==
  /\ rpcRuns /\ caller[t].at = "idle" /\ caller[t].n < MaxCalls[t]
  /\ conn[ClientOf[t]] # "gone"
  /\ caller' = [caller EXCEPT ![t] = [at |-> "connect", n |-> @.n + 1]]
  /\ UNCHANGED <<server, stopServer, listener, acceptor, broken, conn, workers, requests,
                 replies, answer, closeWakes, rpcRuns>>

\* The first transact of a client connects it, for good.
Connect(t) ==
  /\ rpcRuns /\ caller[t].at = "connect"
  /\ \/ conn[ClientOf[t]] # "none" /\ CallerGoes(t, "send") /\ UNCHANGED <<conn, answer>>
     \/ /\ conn[ClientOf[t]] = "none" /\ listener # "closed"
        /\ conn' = [conn EXCEPT ![ClientOf[t]] = "backlog"]
        /\ CallerGoes(t, "send") /\ UNCHANGED answer
     \/ conn[ClientOf[t]] = "none" /\ listener = "closed" /\ Throw(t) /\ UNCHANGED conn
  /\ UNCHANGED <<requests, replies>>

\* What is sent to a server that has gone fails, or is sent for nothing.
Send(t) ==
  /\ rpcRuns /\ caller[t].at = "send"
  /\ \/ /\ conn[ClientOf[t]] = "ended"
        /\ \/ Throw(t)
           \/ CallerGoes(t, "receive") /\ UNCHANGED answer
        /\ UNCHANGED requests
     \/ /\ conn[ClientOf[t]] # "ended"
        /\ requests' = [requests EXCEPT ![ClientOf[t]] = Append(@, Request(t))]
        /\ CallerGoes(t, "receive") /\ UNCHANGED answer
  /\ UNCHANGED <<conn, replies>>

\* The id in the reply is read and never compared with the call's.
Receive(t) ==
  /\ rpcRuns /\ caller[t].at = "receive"
  /\ \/ /\ replies[ClientOf[t]] # <<>>
        /\ answer' = [answer EXCEPT ![t] = Head(replies[ClientOf[t]])]
        /\ replies' = [replies EXCEPT ![ClientOf[t]] = Tail(@)]
        /\ CallerGoes(t, "idle")
     \/ /\ replies[ClientOf[t]] = <<>> /\ conn[ClientOf[t]] = "ended"
        /\ Throw(t) /\ UNCHANGED replies
  /\ UNCHANGED <<conn, requests>>

\* The destructor of a client that no thread uses closes its socket.
DestroyClient(c) ==
  /\ rpcRuns /\ conn[c] \in {"backlog", "served"}
  /\ \A t \in Callers : ClientOf[t] = c => caller[t].at = "idle"
  /\ conn' = [conn EXCEPT ![c] = IF @ = "backlog" THEN "ended" ELSE "gone"]
  /\ UNCHANGED <<server, stopServer, listener, acceptor, broken, workers, requests,
                 replies, caller, answer, closeWakes, rpcRuns>>

CallStep(t) == Connect(t) \/ Send(t) \/ Receive(t)

RpcNext ==
  \/ StartServer \/ RestartServer \/ StopServer \/ CloseListener \/ JoinServer
  \/ AcceptorStep \/ AcceptFails
  \/ \E c \in Clients : ServeStep(c) \/ DestroyClient(c)
  \/ \E t \in Callers : Call(t) \/ CallStep(t)

\* Threads that are not blocked are scheduled; nobody has to call, to start or
\* to stop the server, and accept need not fail.
RpcFairness ==
  /\ WF_rpcVars(AcceptorStep)
  /\ WF_rpcVars(CloseListener \/ JoinServer)
  /\ \A c \in Clients : WF_rpcVars(ServeStep(c))
  /\ \A t \in Callers : WF_rpcVars(CallStep(t))

RpcSpec == RpcInit /\ [][RpcNext]_rpcVars /\ RpcFairness

-----------------------------------------------------------------------------
(* Properties *)

\* A call returns what the server computed for this very call, or throws: the
\* worker sends one reply per request, in order, although the client never
\* looks at the reply's id.
ReplyIsForTheCall ==
  \A t \in Callers :
    caller[t].at = "idle" /\ answer[t] # NoAnswer
      => answer[t] = Invoke(Request(t))

\* Connected after accept has failed: nobody will ever accept it.
Stranded(c) == broken /\ conn[c] = "backlog"

\* Every call ends, whenever the server is stopped, unless accept has failed
\* for good; and stop_server returns, unless it waits for an accept that
\* closing the socket did not wake and no other client releases.
NothingWaitsForEver ==
  /\ \A t \in Callers :
       []<>(caller[t].at = "idle" \/ ~rpcRuns) \/ <>[]Stranded(ClientOf[t])
  /\ \/ []<>(server # "joining" \/ ~rpcRuns)
     \/ <>[](~closeWakes /\ acceptor = "blocked")
==============================================================================
