------------------------------- MODULE RpcPipe -------------------------------
(***************************************************************************)
(* xtd::rpc over anonymous_pipe_transport (rpc.hpp) and the two Windows    *)
(* pipes it is given (windows/pipe.hpp).  The client writes its request    *)
(* and polls for a reply once a millisecond; the server's thread polls for *)
(* requests and takes whatever has arrived for one of them.  A pipe        *)
(* carries whole messages: each WriteFile is one.                          *)
(***************************************************************************)
EXTENDS Naturals, Sequences

CONSTANTS
  PipeCallers,   \* the threads that share the client
  MaxPipeCalls,  \* bound: calls per thread
  MaxStarts      \* bound: how often the server is started

VARIABLES
  running,      \* _running, and how often the server has been started
  stopSignal,   \* the promise _stop_server_thread has been set
  servant,      \* the server's thread, with what it has taken
  serverPipe,   \* the requests that nobody has read
  clientPipe,   \* the replies that nobody has read
  pipeCaller    \* each thread: where it is in its n-th call, and its last reply

pipeVars == <<running, stopSignal, servant, serverPipe, clientPipe, pipeCaller>>

PipeInit ==
  /\ running = [now |-> FALSE, starts |-> 0]
  /\ stopSignal = FALSE
  /\ servant = [at |-> "none", size |-> 0, payload |-> <<>>]
  /\ serverPipe = <<>> /\ clientPipe = <<>>
  /\ pipeCaller = [t \in PipeCallers |-> [at |-> "idle", n |-> 0, reply |-> <<>>]]

\* start_server and stop_server throw when there is nothing to do.
StartPipeServer ==
  /\ ~running.now /\ servant.at = "none" /\ running.starts < MaxStarts
  /\ running' = [now |-> TRUE, starts |-> running.starts + 1]
  /\ stopSignal' = FALSE
  /\ servant' = [at |-> "wait", size |-> 0, payload |-> <<>>]
  /\ UNCHANGED <<serverPipe, clientPipe, pipeCaller>>

StopPipeServer ==
  /\ running.now
  /\ running' = [running EXCEPT !.now = FALSE]
  /\ stopSignal' = TRUE
  /\ UNCHANGED <<servant, serverPipe, clientPipe, pipeCaller>>

\* join() in stop_server.
JoinServant ==
  /\ ~running.now /\ servant.at = "finished"
  /\ servant' = [servant EXCEPT !.at = "none"]
  /\ UNCHANGED <<running, stopSignal, serverPipe, clientPipe, pipeCaller>>

\* The future is looked at between requests only.
LeaveLoop ==
  /\ servant.at = "wait" /\ stopSignal
  /\ servant' = [servant EXCEPT !.at = "finished"]
  /\ UNCHANGED <<running, stopSignal, serverPipe, clientPipe, pipeCaller>>

\* bytes_available(): everything that has been written so far.
CountBytes ==
  /\ servant.at = "wait" /\ ~stopSignal /\ serverPipe # <<>>
  /\ servant' = [servant EXCEPT !.at = "read", !.size = Len(serverPipe)]
  /\ UNCHANGED <<running, stopSignal, serverPipe, clientPipe, pipeCaller>>

\* read() takes it all, and invoke() answers the request at its front.
ReadAndInvoke ==
  /\ servant.at = "read"
  /\ serverPipe' = SubSeq(serverPipe, servant.size + 1, Len(serverPipe))
  /\ servant' = [servant EXCEPT !.at = "reply", !.payload = Head(serverPipe)]
  /\ UNCHANGED <<running, stopSignal, clientPipe, pipeCaller>>

\* Mutant: a thread that has been asked to stop does not reply.
ReplyUnlessStopped ==
  /\ servant.at = "reply"
  /\ clientPipe' = IF stopSignal THEN clientPipe ELSE Append(clientPipe, servant.payload)
  /\ servant' = [servant EXCEPT !.at = "wait"]
  /\ UNCHANGED <<running, stopSignal, serverPipe, pipeCaller>>

Reply ==
  /\ servant.at = "reply"
  /\ clientPipe' = Append(clientPipe, servant.payload)
  /\ servant' = [servant EXCEPT !.at = "wait"]
  /\ UNCHANGED <<running, stopSignal, serverPipe, pipeCaller>>

WriteRequest(t) ==
  /\ pipeCaller[t].at = "idle" /\ pipeCaller[t].n < MaxPipeCalls
  /\ pipeCaller' = [pipeCaller EXCEPT ![t].at = "poll", ![t].n = @ + 1]
  /\ serverPipe' = Append(serverPipe, <<t, pipeCaller[t].n + 1>>)
  /\ UNCHANGED <<running, stopSignal, servant, clientPipe>>

\* peek() finds the length of the next reply, which read() takes.
ReadReply(t) ==
  /\ pipeCaller[t].at = "poll" /\ clientPipe # <<>>
  /\ pipeCaller' = [pipeCaller EXCEPT ![t].at = "idle", ![t].reply = Head(clientPipe)]
  /\ clientPipe' = Tail(clientPipe)
  /\ UNCHANGED <<running, stopSignal, servant, serverPipe>>

ServantStep == LeaveLoop \/ CountBytes \/ ReadAndInvoke \/ Reply

PipeNext ==
  \/ StartPipeServer \/ StopPipeServer \/ JoinServant \/ ServantStep
  \/ \E t \in PipeCallers : WriteRequest(t) \/ ReadReply(t)

\* The threads that poll are scheduled, and stop_server joins.
PipeFairness ==
  /\ WF_pipeVars(ServantStep)
  /\ WF_pipeVars(JoinServant)
  /\ \A t \in PipeCallers : WF_pipeVars(ReadReply(t))

PipeSpec == PipeInit /\ [][PipeNext]_pipeVars /\ PipeFairness

-----------------------------------------------------------------------------
(* Properties *)

\* A call over the pipe returns its own reply: a stop between request and
\* reply, and a start after it, mix up nothing.
PipeReplyIsForTheCall ==
  \A t \in PipeCallers :
    pipeCaller[t].at = "idle" /\ pipeCaller[t].n > 0
      => pipeCaller[t].reply = <<t, pipeCaller[t].n>>

\* Nor does it lose either: a call waits for ever only while nobody starts the
\* server again.
PipeAnswersEachCall ==
  /\ []PipeReplyIsForTheCall
  /\ \A t \in PipeCallers :
       []<>(pipeCaller[t].at = "idle") \/ <>[](~running.now /\ serverPipe # <<>>)
==============================================================================
