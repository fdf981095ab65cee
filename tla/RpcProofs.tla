------------------------------ MODULE RpcProofs ------------------------------
(***************************************************************************)
(* ReplyIsForTheCall, for any number of threads, connections and calls,    *)
(* provided that each thread has an rpc_client of its own; and             *)
(* PipeReplyIsForTheCall, for one thread that calls over the pipe.         *)
(***************************************************************************)
EXTENDS Rpc, RpcPipe, TLAPS

\* What the class requires of its users.
OneThreadEach ==
  /\ ClientOf \in [Callers -> Clients]
  /\ \A t, u \in Callers : ClientOf[t] = ClientOf[u] => t = u

Requests == [from : Callers, n : Nat, call : {CallOf[t] : t \in Callers}]
Payloads == {NoPayload, NoAnswer} \cup {Invoke(r) : r \in Requests}

Worker == [at : {"none", "check", "select", "read", "write", "done"},
           payload : Payloads, ready : BOOLEAN, writable : BOOLEAN]

Typed ==
  /\ caller \in [Callers -> [at : {"idle", "connect", "send", "receive"}, n : Nat]]
  /\ answer \in [Callers -> Payloads]
  /\ conn \in [Clients -> {"none", "backlog", "served", "ended", "gone"}]
  /\ workers \in [Clients -> Worker]
  /\ requests \in [Clients -> Seq(Requests)]
  /\ replies \in [Clients -> Seq(Payloads)]

\* A connection is served only between its acceptance and its end, and a thread
\* that has ended holds no response.
Served(c) ==
  /\ conn[c] \in {"none", "backlog", "ended"} => workers[c].at \in {"none", "done"}
  /\ workers[c].at \in {"none", "done"} => ~workers[c].ready

\* Outside a call nothing is under way on the thread's connection, but for a
\* request that nobody will read; inside, the request, or the response in the
\* worker, or the reply is.
Dialogue(t) ==
  LET c == ClientOf[t]
  IN  /\ conn[c] = "gone" => caller[t].at = "idle"
      /\ caller[t].at # "receive" =>
           /\ replies[c] = <<>> /\ ~workers[c].ready
           /\ conn[c] # "ended" => requests[c] = <<>>
      /\ caller[t].at = "receive" =>
           \/ /\ replies[c] = <<>> /\ ~workers[c].ready
              /\ conn[c] # "ended" => requests[c] = <<Request(t)>>
           \/ /\ replies[c] = <<>> /\ workers[c].ready /\ requests[c] = <<>>
              /\ workers[c].payload = Invoke(Request(t))
           \/ /\ replies[c] = <<Invoke(Request(t))>> /\ ~workers[c].ready
              /\ conn[c] # "ended" => requests[c] = <<>>

RpcInv ==
  /\ Typed
  /\ \A c \in Clients : Served(c)
  /\ \A t \in Callers : Dialogue(t)
  /\ ReplyIsForTheCall

-----------------------------------------------------------------------------
(* What a step leaves alone. *)

\* Nothing happens on a thread's connection, nor in the thread.
LEMMA Elsewhere ==
  ASSUME NEW t \in Callers, NEW c, c = ClientOf[t], Dialogue(t),
         conn'[c] = conn[c], requests'[c] = requests[c], replies'[c] = replies[c],
         workers'[c].ready = workers[c].ready,
         workers'[c].payload = workers[c].payload,
         caller'[t] = caller[t]
  PROVE  Dialogue(t)'
BY DEF Dialogue, Request

\* The threads' calls and answers stay as they are.
LEMMA AnswersStay ==
  ASSUME ReplyIsForTheCall, caller' = caller, answer' = answer
  PROVE  ReplyIsForTheCall'
BY DEF ReplyIsForTheCall, Request

-----------------------------------------------------------------------------

LEMMA TypedStep ==
  ASSUME OneThreadEach, Typed, RpcNext
  PROVE  Typed'
<1>. USE DEF Typed
<1>0. /\ Resting \in Worker /\ [Resting EXCEPT !.at = "done"] \in Worker
      /\ [Resting EXCEPT !.at = "check"] \in Worker
      /\ NoAnswer \in Payloads
      /\ \A r \in Requests : Invoke(r) \in Payloads
      /\ \A t \in Callers : Request(t) \in Requests /\ ClientOf[t] \in Clients
  BY DEF Resting, Payloads, Requests, Request, OneThreadEach, Worker
<1>a. ASSUME NEW c \in Clients, NEW w \in Worker, workers' = [workers EXCEPT ![c] = w]
      PROVE  workers' \in [Clients -> Worker]
  BY <1>a
<1>b. ASSUME NEW c \in Clients
      PROVE  /\ \A l \in {"check", "select", "read", "write"} :
                  [workers[c] EXCEPT !.at = l] \in Worker
             /\ workers[c] \in Worker
  BY DEF Worker
<1>1. CASE StartServer \/ RestartServer \/ StopServer \/ JoinServer \/ AcceptFails
           \/ CheckStop \/ CallAccept \/ AcceptIsWoken \/ JoinWorkers
  BY <1>1 DEF StartServer, RestartServer, StopServer, JoinServer, AcceptFails,
              CheckStop, CallAccept, AcceptIsWoken, JoinWorkers, AcceptorGoes
<1>2. CASE CloseListener
  BY <1>2 DEF CloseListener, Reset
<1>3. ASSUME NEW c \in Clients, Accept(c)
      PROVE  Typed'
  <2>1. workers' = [workers EXCEPT ![c] = [workers[c] EXCEPT !.at = "check"]]
    BY <1>3 DEF Accept
  <2>2. workers' \in [Clients -> Worker]
    BY <1>a, <1>b, <2>1
  <2>. QED
    BY <1>3, <2>2 DEF Accept, AcceptorGoes
<1>4. ASSUME NEW c \in Clients, AcceptTooLate(c)
      PROVE  Typed'
  BY <1>4 DEF AcceptTooLate, AcceptorGoes, Reset
<1>5. ASSUME NEW c \in Clients, EndWorker(c)
      PROVE  Typed'
  BY <1>0, <1>5 DEF EndWorker, WorkerGoes
<1>6. ASSUME NEW c \in Clients, WorkerChecks(c)
      PROVE  Typed'
  <2>1. CASE workers' = [workers EXCEPT ![c] = [workers[c] EXCEPT !.at = "select"]]
             /\ UNCHANGED <<conn, requests, replies>> /\ WorkerGoes
    BY <1>a, <1>b, <2>1 DEF WorkerGoes
  <2>. QED
    BY <1>5, <1>6, <2>1 DEF WorkerChecks
<1>7. ASSUME NEW c \in Clients, Select(c)
      PROVE  Typed'
  <2>1. PICK l \in {"check", "read", "write"}, b \in BOOLEAN :
             workers' = [workers EXCEPT ![c] = [workers[c] EXCEPT !.at = l, !.writable = b]]
    BY <1>7 DEF Select
  <2>2. [workers[c] EXCEPT !.at = l, !.writable = b] \in Worker
    BY DEF Worker
  <2>3. workers' \in [Clients -> Worker]
    BY <1>a, <2>1, <2>2
  <2>. QED
    BY <1>7, <2>3 DEF Select, WorkerGoes
<1>8. ASSUME NEW c \in Clients, OnRead(c)
      PROVE  Typed'
  <2>1. CASE requests[c] # <<>> /\ ~EndWorker(c)
    <3>1. Head(requests[c]) \in Requests /\ Tail(requests[c]) \in Seq(Requests)
      BY <2>1
    <3>2. PICK l \in {"check", "write"} :
             workers' = [workers EXCEPT ![c] =
               [workers[c] EXCEPT !.payload = Invoke(Head(requests[c])), !.ready = TRUE, !.at = l]]
      BY <1>8, <2>1 DEF OnRead
    <3>3. [workers[c] EXCEPT !.payload = Invoke(Head(requests[c])), !.ready = TRUE, !.at = l]
            \in Worker
      BY <1>0, <3>1 DEF Worker
    <3>4. workers' \in [Clients -> Worker]
      BY <1>a, <3>2, <3>3
    <3>5. requests' = [requests EXCEPT ![c] = Tail(requests[c])] /\ UNCHANGED <<conn, replies>>
          /\ WorkerGoes
      BY <1>8, <2>1 DEF OnRead
    <3>6. requests' \in [Clients -> Seq(Requests)]
      BY <3>1, <3>5
    <3>. QED
      BY <3>4, <3>5, <3>6 DEF WorkerGoes
  <2>. QED
    BY <1>5, <1>8, <2>1 DEF OnRead
<1>9. ASSUME NEW c \in Clients, OnWrite(c)
      PROVE  Typed'
  <2>1. workers' \in [Clients -> Worker]
    BY <1>0, <1>a, <1>9 DEF OnWrite
  <2>2. workers[c].payload \in Payloads
    BY DEF Worker
  <2>3. replies' \in [Clients -> Seq(Payloads)]
    BY <1>9, <2>2 DEF OnWrite
  <2>. QED
    BY <1>9, <2>1, <2>3 DEF OnWrite, WorkerGoes
<1>10. ASSUME NEW c \in Clients, DestroyClient(c)
       PROVE  Typed'
  BY <1>10 DEF DestroyClient
<1>11. ASSUME NEW t \in Callers, Call(t)
       PROVE  Typed'
  BY <1>11 DEF Call
<1>c. ASSUME NEW t \in Callers, NEW l \in {"idle", "send", "receive"}, CallerGoes(t, l)
      PROVE  /\ caller' \in [Callers -> [at : {"idle", "connect", "send", "receive"}, n : Nat]]
             /\ workers' = workers
  BY <1>c DEF CallerGoes
<1>d. ASSUME NEW t \in Callers, Throw(t)
      PROVE  CallerGoes(t, "idle") /\ answer' \in [Callers -> Payloads]
  BY <1>0, <1>d DEF Throw
<1>12. ASSUME NEW t \in Callers, Connect(t)
       PROVE  Typed'
  <2>1. conn' \in [Clients -> {"none", "backlog", "served", "ended", "gone"}]
    BY <1>0, <1>12 DEF Connect
  <2>. QED
    BY <1>12, <1>c, <1>d, <2>1 DEF Connect
<1>13. ASSUME NEW t \in Callers, Send(t)
       PROVE  Typed'
  <2>0. Append(requests[ClientOf[t]], Request(t)) \in Seq(Requests)
    BY <1>0
  <2>1. requests' \in [Clients -> Seq(Requests)]
    BY <1>13, <2>0 DEF Send
  <2>. QED
    BY <1>13, <1>c, <1>d, <2>1 DEF Send
<1>14. ASSUME NEW t \in Callers, Receive(t)
       PROVE  Typed'
  <2>0. ClientOf[t] \in Clients
    BY <1>0
  <2>1. CASE replies[ClientOf[t]] # <<>> /\ CallerGoes(t, "idle")
             /\ replies' = [replies EXCEPT ![ClientOf[t]] = Tail(@)]
             /\ answer' = [answer EXCEPT ![t] = Head(replies[ClientOf[t]])]
    <3>1. /\ Head(replies[ClientOf[t]]) \in Payloads
          /\ Tail(replies[ClientOf[t]]) \in Seq(Payloads)
      BY <2>0, <2>1
    <3>2. answer' \in [Callers -> Payloads] /\ replies' \in [Clients -> Seq(Payloads)]
      BY <2>1, <3>1
    <3>. QED
      BY <1>14, <1>c, <2>1, <3>2 DEF Receive
  <2>. QED
    BY <1>14, <1>c, <1>d, <2>1 DEF Receive
<1>. QED
  BY <1>1, <1>2, <1>3, <1>4, <1>6, <1>7, <1>8, <1>9, <1>10, <1>11, <1>12, <1>13, <1>14
     DEF RpcNext, AcceptorStep, ServeStep, CallStep

-----------------------------------------------------------------------------
(* The invariant holds initially and every step preserves it. *)

\* A step that touches one connection only and no thread: what is left to show
\* is that connection and the thread that uses it.
LEMMA OneConnection ==
  ASSUME OneThreadEach, RpcInv, RpcNext, NEW c \in Clients,
         UNCHANGED <<caller, answer>>,
         \A d \in Clients \ {c} :
           /\ conn'[d] = conn[d] /\ workers'[d] = workers[d]
           /\ requests'[d] = requests[d] /\ replies'[d] = replies[d],
         Served(c)',
         \A t \in Callers : ClientOf[t] = c => Dialogue(t)'
  PROVE  RpcInv'
<1>1. Typed'
  BY TypedStep DEF RpcInv
<1>2. ASSUME NEW d \in Clients \ {c} PROVE Served(d)'
  BY <1>2 DEF RpcInv, Served
<1>3. ASSUME NEW t \in Callers, ClientOf[t] # c PROVE Dialogue(t)'
  <2>1. ClientOf[t] \in Clients \ {c}
    BY <1>3 DEF OneThreadEach
  <2>. QED
    BY <2>1, Elsewhere DEF RpcInv
<1>4. ReplyIsForTheCall'
  BY AnswersStay DEF RpcInv
<1>. QED
  BY <1>1, <1>2, <1>3, <1>4 DEF RpcInv

\* A step of one thread in a call.
LEMMA OneCall ==
  ASSUME OneThreadEach, RpcInv, RpcNext, NEW t \in Callers,
         workers' = workers,
         \A u \in Callers \ {t} : caller'[u] = caller[u] /\ answer'[u] = answer[u],
         \A d \in Clients \ {ClientOf[t]} :
           conn'[d] = conn[d] /\ requests'[d] = requests[d] /\ replies'[d] = replies[d],
         Served(ClientOf[t])',
         Dialogue(t)',
         caller'[t].at = "idle" /\ answer'[t] # NoAnswer => answer'[t] = Invoke(Request(t))'
  PROVE  RpcInv'
<1>1. Typed'
  BY TypedStep DEF RpcInv
<1>2. ASSUME NEW d \in Clients \ {ClientOf[t]} PROVE Served(d)'
  BY <1>2 DEF RpcInv, Served
<1>3. ASSUME NEW u \in Callers \ {t} PROVE Dialogue(u)'
  <2>1. ClientOf[u] \in Clients \ {ClientOf[t]}
    BY <1>3 DEF OneThreadEach
  <2>. QED
    BY <1>3, <2>1, Elsewhere DEF RpcInv
<1>4. ReplyIsForTheCall'
  BY DEF RpcInv, ReplyIsForTheCall, Request
<1>. QED
  BY <1>1, <1>2, <1>3, <1>4 DEF RpcInv

LEMMA InitSatisfies == ASSUME OneThreadEach, RpcInit PROVE RpcInv
<1>1. Typed
  BY DEF Typed, RpcInit, Resting, Worker, Payloads
<1>2. \A c \in Clients : Served(c)
  BY DEF Served, RpcInit, Resting
<1>3. \A t \in Callers : Dialogue(t)
  BY DEF Dialogue, RpcInit, Resting, OneThreadEach
<1>. QED
  BY <1>1, <1>2, <1>3 DEF RpcInv, ReplyIsForTheCall, RpcInit

\* The acceptor and the owner of the server.
LEMMA ServerStep ==
  ASSUME OneThreadEach, RpcInv, RpcNext,
         \/ StartServer \/ RestartServer \/ StopServer \/ JoinServer \/ AcceptFails
         \/ CheckStop \/ CallAccept \/ AcceptIsWoken \/ JoinWorkers
  PROVE  RpcInv'
<1>1. UNCHANGED <<conn, workers, requests, replies, caller, answer>>
  BY DEF StartServer, RestartServer, StopServer, JoinServer, AcceptFails,
         CheckStop, CallAccept, AcceptIsWoken, JoinWorkers, AcceptorGoes
<1>2. Typed'
  BY TypedStep DEF RpcInv
<1>. QED
  BY <1>1, <1>2 DEF RpcInv, Served, Dialogue, ReplyIsForTheCall, Request

\* The connections in the backlog end, and one of them may be dropped first.
LEMMA BacklogEnds ==
  ASSUME OneThreadEach, RpcInv, RpcNext,
         UNCHANGED <<workers, requests, replies, caller, answer>>,
         \A c \in Clients :
           conn'[c] = conn[c] \/ (conn[c] = "backlog" /\ conn'[c] = "ended")
  PROVE  RpcInv'
<1>1. Typed'
  BY TypedStep DEF RpcInv
<1>2. ASSUME NEW c \in Clients PROVE Served(c)'
  BY <1>2 DEF RpcInv, Served
<1>3. ASSUME NEW t \in Callers PROVE Dialogue(t)'
  <2>1. ClientOf[t] \in Clients /\ Dialogue(t) /\ Served(ClientOf[t])
    BY DEF RpcInv, OneThreadEach
  <2>2. CASE conn'[ClientOf[t]] = conn[ClientOf[t]]
    BY <2>1, <2>2, Elsewhere
  <2>3. CASE conn[ClientOf[t]] = "backlog" /\ conn'[ClientOf[t]] = "ended"
    BY <2>1, <2>3 DEF Dialogue, Served, Request
  <2>. QED
    BY <2>1, <2>2, <2>3
<1>4. ReplyIsForTheCall'
  BY AnswersStay DEF RpcInv
<1>. QED
  BY <1>1, <1>2, <1>3, <1>4 DEF RpcInv

LEMMA CloseStep == ASSUME OneThreadEach, RpcInv, RpcNext, CloseListener PROVE RpcInv'
<1>1. \A c \in Clients :
        conn'[c] = conn[c] \/ (conn[c] = "backlog" /\ conn'[c] = "ended")
  BY DEF CloseListener, Reset
<1>. QED
  BY <1>1, BacklogEnds DEF CloseListener

LEMMA AcceptStep ==
  ASSUME OneThreadEach, RpcInv, RpcNext, NEW c \in Clients, Accept(c) \/ AcceptTooLate(c)
  PROVE  RpcInv'
<1>0. Typed /\ Served(c)
  BY DEF RpcInv
<1>1. CASE Accept(c)
  <2>1. /\ conn[c] = "backlog" /\ conn'[c] = "served"
        /\ workers'[c].at = "check" /\ workers'[c].ready = workers[c].ready
        /\ workers'[c].payload = workers[c].payload
    BY <1>0, <1>1 DEF Accept, Typed, Worker
  <2>2. UNCHANGED <<requests, replies, caller, answer>>
    BY <1>1 DEF Accept, AcceptorGoes
  <2>3. \A d \in Clients \ {c} : conn'[d] = conn[d] /\ workers'[d] = workers[d]
    BY <1>0, <1>1 DEF Accept, Typed
  <2>4. Served(c)'
    BY <2>1 DEF Served
  <2>5. ASSUME NEW t \in Callers, ClientOf[t] = c PROVE Dialogue(t)'
    <3>1. Dialogue(t)
      BY DEF RpcInv
    <3>. QED
      BY <2>1, <2>2, <2>5, <3>1 DEF Dialogue, Request
  <2>. QED
    BY <2>2, <2>3, <2>4, <2>5, OneConnection
<1>2. CASE AcceptTooLate(c)
  <2>1. \A d \in Clients :
          conn'[d] = conn[d] \/ (conn[d] = "backlog" /\ conn'[d] = "ended")
    BY <1>0, <1>2 DEF AcceptTooLate, Reset, Typed
  <2>. QED
    BY <1>2, <2>1, BacklogEnds DEF AcceptTooLate, AcceptorGoes
<1>. QED
  BY <1>1, <1>2

\* The end of a worker: what its client waits for will not come.
LEMMA EndStep ==
  ASSUME OneThreadEach, RpcInv, RpcNext, NEW c \in Clients, EndWorker(c)
  PROVE  RpcInv'
<1>0. Typed
  BY DEF RpcInv
<1>1. /\ workers'[c].at = "done" /\ workers'[c].ready = FALSE
      /\ conn'[c] = IF conn[c] = "gone" THEN "gone" ELSE "ended"
  BY <1>0 DEF EndWorker, Resting, Typed
<1>2. UNCHANGED <<requests, replies, caller, answer>>
  BY DEF EndWorker, WorkerGoes
<1>3. \A d \in Clients \ {c} : conn'[d] = conn[d] /\ workers'[d] = workers[d]
  BY <1>0 DEF EndWorker, Typed
<1>4. Served(c)'
  BY <1>1 DEF Served
<1>5. ASSUME NEW t \in Callers, ClientOf[t] = c PROVE Dialogue(t)'
  <2>1. Dialogue(t)
    BY DEF RpcInv
  <2>. QED
    BY <1>1, <1>2, <1>5, <2>1 DEF Dialogue, Request
<1>. QED
  BY <1>2, <1>3, <1>4, <1>5, OneConnection

LEMMA ServeKeepsInv ==
  ASSUME OneThreadEach, RpcInv, RpcNext, NEW c \in Clients, ServeStep(c)
  PROVE  RpcInv'
<1>0. Typed /\ Served(c) /\ workers[c] \in Worker
  BY DEF RpcInv, Typed
<1>d. \A t \in Callers : Dialogue(t)
  BY DEF RpcInv
<1>1. CASE EndWorker(c)
  BY <1>1, EndStep
<1>2. CASE (WorkerChecks(c) \/ Select(c)) /\ ~EndWorker(c)
  <2>1. /\ workers[c].at \in {"check", "select"}
        /\ workers'[c].at \in {"select", "read", "write", "check"}
        /\ workers'[c].ready = workers[c].ready /\ workers'[c].payload = workers[c].payload
        /\ \A d \in Clients \ {c} : workers'[d] = workers[d]
    BY <1>0, <1>2 DEF WorkerChecks, Select, Typed, Worker
  <2>2. UNCHANGED <<conn, requests, replies, caller, answer>>
    BY <1>2 DEF WorkerChecks, Select, WorkerGoes
  <2>3. Served(c)'
    BY <1>0, <2>1, <2>2 DEF Served
  <2>4. ASSUME NEW t \in Callers, ClientOf[t] = c PROVE Dialogue(t)'
    BY <1>d, <2>1, <2>2, <2>4, Elsewhere
  <2>. QED
    BY <2>1, <2>2, <2>3, <2>4, OneConnection
<1>3. CASE OnRead(c) /\ ~EndWorker(c)
  <2>1. /\ workers[c].at = "read" /\ requests[c] # <<>>
        /\ workers'[c].at \in {"write", "check"} /\ workers'[c].ready = TRUE
        /\ workers'[c].payload = Invoke(Head(requests[c]))
        /\ requests'[c] = Tail(requests[c])
        /\ \A d \in Clients \ {c} :
             workers'[d] = workers[d] /\ requests'[d] = requests[d]
    BY <1>0, <1>3 DEF OnRead, Typed, Worker
  <2>2. UNCHANGED <<conn, replies, caller, answer>>
    BY <1>3 DEF OnRead, WorkerGoes
  <2>3. Served(c)'
    BY <1>0, <2>1, <2>2 DEF Served
  <2>4. ASSUME NEW t \in Callers, ClientOf[t] = c PROVE Dialogue(t)'
    <3>1. conn[c] # "ended"
      BY <1>0, <2>1 DEF Served
    <3>2. /\ caller[t].at = "receive" /\ conn[c] # "gone"
          /\ requests[c] = <<Request(t)>> /\ replies[c] = <<>>
      BY <1>d, <2>1, <2>4, <3>1 DEF Dialogue
    <3>3. Head(requests[c]) = Request(t) /\ Tail(requests[c]) = <<>>
      BY <3>2
    <3>. QED
      BY <2>1, <2>2, <2>4, <3>2, <3>3 DEF Dialogue, Request
  <2>. QED
    BY <2>1, <2>2, <2>3, <2>4, OneConnection
<1>4. CASE OnWrite(c)
  <2>1. /\ workers[c].at = "write"
        /\ workers'[c].at = "check" /\ workers'[c].ready = FALSE
        /\ replies'[c] = IF workers[c].ready THEN Append(replies[c], workers[c].payload)
                                             ELSE replies[c]
        /\ \A d \in Clients \ {c} :
             workers'[d] = workers[d] /\ replies'[d] = replies[d]
    BY <1>0, <1>4 DEF OnWrite, Typed, Worker, Resting
  <2>2. UNCHANGED <<conn, requests, caller, answer>>
    BY <1>4 DEF OnWrite, WorkerGoes
  <2>3. Served(c)'
    BY <1>0, <2>1, <2>2 DEF Served
  <2>4. ASSUME NEW t \in Callers, ClientOf[t] = c PROVE Dialogue(t)'
    <3>1. Dialogue(t)
      BY <1>d
    <3>2. CASE workers[c].ready
      <4>1. /\ caller[t].at = "receive" /\ replies[c] = <<>> /\ requests[c] = <<>>
            /\ workers[c].payload = Invoke(Request(t))
        BY <2>4, <3>1, <3>2 DEF Dialogue
      <4>2. replies'[c] = <<Invoke(Request(t))>>
        BY <2>1, <3>2, <4>1
      <4>. QED
        BY <2>1, <2>2, <2>4, <3>1, <4>1, <4>2 DEF Dialogue, Request
    <3>3. CASE ~workers[c].ready
      BY <2>1, <2>2, <2>4, <3>1, <3>3 DEF Dialogue, Request
    <3>. QED
      BY <3>2, <3>3
  <2>. QED
    BY <2>1, <2>2, <2>3, <2>4, OneConnection
<1>. QED
  BY <1>1, <1>2, <1>3, <1>4 DEF ServeStep

LEMMA DestroyKeepsInv ==
  ASSUME OneThreadEach, RpcInv, RpcNext, NEW c \in Clients, DestroyClient(c)
  PROVE  RpcInv'
<1>0. Typed /\ Served(c)
  BY DEF RpcInv
<1>1. /\ \/ conn[c] = "backlog" /\ conn'[c] = "ended"
         \/ conn[c] = "served" /\ conn'[c] = "gone"
      /\ \A d \in Clients \ {c} : conn'[d] = conn[d]
  BY <1>0 DEF DestroyClient, Typed
<1>2. UNCHANGED <<workers, requests, replies, caller, answer>>
  BY DEF DestroyClient
<1>3. Served(c)'
  BY <1>0, <1>1, <1>2 DEF Served
<1>4. ASSUME NEW t \in Callers, ClientOf[t] = c PROVE Dialogue(t)'
  <2>1. Dialogue(t) /\ caller[t].at = "idle"
    BY <1>4 DEF RpcInv, DestroyClient
  <2>. QED
    BY <1>1, <1>2, <1>4, <2>1 DEF Dialogue, Request
<1>. QED
  BY <1>1, <1>2, <1>3, <1>4, OneConnection

LEMMA CallKeepsInv ==
  ASSUME OneThreadEach, RpcInv, RpcNext, NEW t \in Callers, Call(t) \/ CallStep(t)
  PROVE  RpcInv'
<1>. DEFINE c == ClientOf[t]
<1>0. Typed /\ Served(c) /\ Dialogue(t) /\ c \in Clients
  BY DEF RpcInv, OneThreadEach
<1>a. ASSUME NEW l, CallerGoes(t, l)
      PROVE  /\ workers' = workers
             /\ caller'[t].at = l /\ caller'[t].n = caller[t].n
             /\ \A u \in Callers \ {t} : caller'[u] = caller[u]
             /\ Request(t)' = Request(t)
  BY <1>0, <1>a DEF CallerGoes, Typed, Request
<1>b. ASSUME Throw(t)
      PROVE  /\ CallerGoes(t, "idle") /\ answer'[t] = NoAnswer
             /\ \A u \in Callers \ {t} : answer'[u] = answer[u]
  BY <1>0, <1>b DEF Throw, Typed
<1>1. CASE Call(t)
  <2>1. /\ caller[t].at = "idle" /\ conn[c] # "gone" /\ caller'[t].at = "connect"
        /\ \A u \in Callers \ {t} : caller'[u] = caller[u]
    BY <1>0, <1>1 DEF Call, Typed
  <2>2. UNCHANGED <<conn, workers, requests, replies, answer>>
    BY <1>1 DEF Call
  <2>3. Served(c)'
    BY <1>0, <2>2 DEF Served
  <2>4. Dialogue(t)'
    BY <1>0, <2>1, <2>2 DEF Dialogue
  <2>. QED
    BY <2>1, <2>2, <2>3, <2>4, OneCall
<1>2. CASE Connect(t)
  <2>1. UNCHANGED <<requests, replies>> /\ caller[t].at = "connect"
    BY <1>2 DEF Connect
  <2>2. CASE CallerGoes(t, "send") /\ UNCHANGED answer
    <3>1. /\ conn'[c] = conn[c] \/ (conn[c] = "none" /\ conn'[c] = "backlog")
          /\ \A d \in Clients \ {c} : conn'[d] = conn[d]
      BY <1>0, <1>2, <2>2 DEF Connect, Typed, Throw, CallerGoes
    <3>2. Served(c)'
      BY <1>0, <1>a, <2>2, <3>1 DEF Served
    <3>3. Dialogue(t)'
      BY <1>0, <1>a, <2>1, <2>2, <3>1 DEF Dialogue
    <3>. QED
      BY <1>a, <2>1, <2>2, <3>1, <3>2, <3>3, OneCall
  <2>3. CASE Throw(t) /\ UNCHANGED conn
    <3>1. Served(c)'
      BY <1>0, <1>a, <1>b, <2>3 DEF Served
    <3>2. Dialogue(t)'
      BY <1>0, <1>a, <1>b, <2>1, <2>3 DEF Dialogue
    <3>. QED
      BY <1>a, <1>b, <2>1, <2>3, <3>1, <3>2, OneCall
  <2>. QED
    BY <1>2, <2>2, <2>3 DEF Connect
<1>3. CASE Send(t)
  <2>1. UNCHANGED <<conn, replies>> /\ caller[t].at = "send"
    BY <1>3 DEF Send
  <2>2. /\ replies[c] = <<>> /\ ~workers[c].ready /\ conn[c] # "gone"
        /\ conn[c] # "ended" => requests[c] = <<>>
    BY <1>0, <2>1 DEF Dialogue
  <2>3. CASE CallerGoes(t, "receive") /\ UNCHANGED answer
    <3>1. /\ conn[c] # "ended" => requests'[c] = <<Request(t)>>
          /\ \A d \in Clients \ {c} : requests'[d] = requests[d]
      <4>1. CASE conn[c] = "ended"
        BY <1>3, <4>1 DEF Send
      <4>2. CASE conn[c] # "ended"
        BY <1>0, <1>3, <2>2, <4>2 DEF Send, Typed
      <4>. QED
        BY <4>1, <4>2
    <3>2. Served(c)'
      BY <1>0, <1>a, <2>1, <2>3 DEF Served
    <3>3. Dialogue(t)'
      BY <1>a, <2>1, <2>2, <2>3, <3>1 DEF Dialogue
    <3>. QED
      BY <1>a, <2>1, <2>3, <3>1, <3>2, <3>3, OneCall
  <2>4. CASE Throw(t) /\ UNCHANGED requests
    <3>1. Served(c)'
      BY <1>0, <1>a, <1>b, <2>1, <2>4 DEF Served
    <3>2. Dialogue(t)'
      BY <1>a, <1>b, <2>1, <2>2, <2>4 DEF Dialogue
    <3>. QED
      BY <1>a, <1>b, <2>1, <2>4, <3>1, <3>2, OneCall
  <2>. QED
    BY <1>3, <2>3, <2>4 DEF Send
<1>4. CASE Receive(t)
  <2>1. UNCHANGED <<conn, requests>> /\ caller[t].at = "receive"
    BY <1>4 DEF Receive
  <2>2. CASE replies[c] # <<>>
    <3>1. /\ replies[c] = <<Invoke(Request(t))>> /\ ~workers[c].ready
          /\ conn[c] # "ended" => requests[c] = <<>>
          /\ conn[c] # "gone"
      BY <1>0, <2>1, <2>2 DEF Dialogue
    <3>2. Head(replies[c]) = Invoke(Request(t)) /\ Tail(replies[c]) = <<>>
      BY <3>1
    <3>3. /\ CallerGoes(t, "idle")
          /\ answer' = [answer EXCEPT ![t] = Head(replies[c])]
          /\ replies' = [replies EXCEPT ![c] = Tail(replies[c])]
      BY <1>4, <2>2 DEF Receive
    <3>4. /\ answer'[t] = Invoke(Request(t)) /\ replies'[c] = <<>>
          /\ \A u \in Callers \ {t} : answer'[u] = answer[u]
          /\ \A d \in Clients \ {c} : replies'[d] = replies[d]
      BY <1>0, <3>2, <3>3 DEF Typed
    <3>5. Served(c)'
      BY <1>0, <1>a, <2>1, <3>3 DEF Served
    <3>6. Dialogue(t)'
      BY <1>a, <2>1, <3>1, <3>3, <3>4 DEF Dialogue
    <3>7. answer'[t] = Invoke(Request(t))'
      BY <1>a, <3>3, <3>4 DEF Invoke
    <3>. QED
      BY <1>a, <2>1, <3>3, <3>4, <3>5, <3>6, <3>7, OneCall
  <2>3. CASE replies[c] = <<>>
    <3>1. conn[c] = "ended" /\ Throw(t) /\ UNCHANGED replies
      BY <1>4, <2>3 DEF Receive
    <3>2. ~workers[c].ready
      BY <1>0, <3>1 DEF Served
    <3>3. Served(c)'
      BY <1>0, <1>a, <1>b, <2>1, <3>1 DEF Served
    <3>4. Dialogue(t)'
      BY <1>a, <1>b, <2>1, <2>3, <3>1, <3>2 DEF Dialogue
    <3>. QED
      BY <1>a, <1>b, <2>1, <3>1, <3>3, <3>4, OneCall
  <2>. QED
    BY <2>2, <2>3
<1>. QED
  BY <1>1, <1>2, <1>3, <1>4 DEF CallStep

LEMMA RpcInvStep == ASSUME OneThreadEach, RpcInv, [RpcNext]_rpcVars PROVE RpcInv'
<1>1. CASE UNCHANGED rpcVars
  BY <1>1 DEF rpcVars, RpcInv, Typed, Served, Dialogue, ReplyIsForTheCall, Request
<1>2. CASE RpcNext
  BY <1>2, ServerStep, CloseStep, AcceptStep, ServeKeepsInv, DestroyKeepsInv, CallKeepsInv
     DEF RpcNext, AcceptorStep
<1>. QED
  BY <1>1, <1>2

\* A call over TCP returns what the server computed for this very call, or
\* throws, although rpc_client never compares the id in a reply with its own
\* (rpc.hpp:367-368): whatever stops, fails or is destroyed meanwhile.
THEOREM EachReplyIsForItsCall ==
  ASSUME OneThreadEach
  PROVE  RpcSpec => []ReplyIsForTheCall
<1>1. RpcInit => RpcInv
  BY InitSatisfies
<1>2. RpcInv /\ [RpcNext]_rpcVars => RpcInv'
  BY RpcInvStep
<1>3. RpcInv => ReplyIsForTheCall
  BY DEF RpcInv
<1>. QED
  BY <1>1, <1>2, <1>3, PTL DEF RpcSpec

-----------------------------------------------------------------------------
(* The pipe. *)

\* One thread calls over the pipe: a reply does not say whose it is.
OnePipeCaller == \A t, u \in PipeCallers : t = u

PipeRequests == PipeCallers \X Nat

Servant == [at : {"none", "wait", "read", "reply", "finished"}, size : Nat,
            payload : PipeRequests \cup {<<>>}]
PipeCaller == [at : {"idle", "poll"}, n : Nat, reply : PipeRequests \cup {<<>>}]

PipeTyped ==
  /\ servant \in Servant
  /\ serverPipe \in Seq(PipeRequests) /\ clientPipe \in Seq(PipeRequests)
  /\ pipeCaller \in [PipeCallers -> PipeCaller]

\* Outside a call nothing is on its way; inside, the request is in the pipe, or
\* in the hands of the server's thread, or the reply is in the other pipe.
NothingOnItsWay ==
  serverPipe = <<>> /\ clientPipe = <<>> /\ servant.at \notin {"read", "reply"}

OnItsWay(request) ==
  \/ /\ serverPipe = <<request>> /\ clientPipe = <<>>
     /\ servant.at # "reply" /\ (servant.at = "read" => servant.size = 1)
  \/ /\ serverPipe = <<>> /\ clientPipe = <<>>
     /\ servant.at = "reply" /\ servant.payload = request
  \/ /\ serverPipe = <<>> /\ clientPipe = <<request>>
     /\ servant.at \notin {"read", "reply"}

PipeInv ==
  /\ PipeTyped
  /\ PipeCallers = {} => NothingOnItsWay
  /\ \A t \in PipeCallers :
       LET request == <<t, pipeCaller[t].n>>
       IN  IF pipeCaller[t].at = "idle"
           THEN NothingOnItsWay /\ (pipeCaller[t].n > 0 => pipeCaller[t].reply = request)
           ELSE OnItsWay(request)

LEMMA PipeInvInit == PipeInit => PipeInv
BY DEF PipeInit, PipeInv, PipeTyped, NothingOnItsWay, Servant, PipeCaller

LEMMA PipeInvStep ==
  ASSUME OnePipeCaller, PipeInv, [PipeNext]_pipeVars
  PROVE  PipeInv'
<1>. DEFINE request(t) == <<t, pipeCaller[t].n>>
<1>0. PipeTyped /\ \A t \in PipeCallers : request(t) \in PipeRequests
  BY DEF PipeInv, PipeTyped, PipeRequests, PipeCaller
\* What the server's thread finds or does is about the one call.
<1>1. ASSUME ~NothingOnItsWay
      PROVE  \E t \in PipeCallers : pipeCaller[t].at = "poll" /\ OnItsWay(request(t))
  BY <1>0, <1>1 DEF PipeInv, PipeTyped, PipeCaller
<1>2. ASSUME PipeTyped', pipeCaller' = pipeCaller, NothingOnItsWay => NothingOnItsWay',
             \A t \in PipeCallers : OnItsWay(request(t)) => OnItsWay(request(t))'
      PROVE  PipeInv'
  BY <1>2, Zenon DEF PipeInv
<1>3. CASE UNCHANGED pipeVars
  BY <1>3 DEF pipeVars, PipeInv, PipeTyped, NothingOnItsWay, OnItsWay
<1>4. CASE StartPipeServer \/ StopPipeServer \/ JoinServant \/ LeaveLoop
  <2>1. PipeTyped'
    BY <1>0, <1>4 DEF StartPipeServer, StopPipeServer, JoinServant, LeaveLoop, PipeTyped, Servant
  <2>2. /\ UNCHANGED <<serverPipe, clientPipe, pipeCaller>>
        /\ servant' = servant \/ (servant.at \notin {"read", "reply"} /\ servant'.at \notin {"read", "reply"})
    BY <1>0, <1>4 DEF StartPipeServer, StopPipeServer, JoinServant, LeaveLoop, PipeTyped, Servant
  <2>3. NothingOnItsWay => NothingOnItsWay'
    BY <2>2 DEF NothingOnItsWay
  <2>4. ASSUME NEW t \in PipeCallers, OnItsWay(request(t)) PROVE OnItsWay(request(t))'
    BY <2>2, <2>4 DEF OnItsWay
  <2>. QED
    BY <1>2, <2>1, <2>2, <2>3, <2>4
<1>5. CASE CountBytes
  <2>1. /\ servant.at = "wait" /\ serverPipe # <<>> /\ servant'.at = "read"
        /\ servant'.size = Len(serverPipe) /\ UNCHANGED <<serverPipe, clientPipe, pipeCaller>>
    BY <1>0, <1>5 DEF CountBytes, PipeTyped, Servant
  <2>2. PipeTyped'
    <3>1. Len(serverPipe) \in Nat
      BY <1>0 DEF PipeTyped
    <3>2. servant' = [servant EXCEPT !.at = "read", !.size = Len(serverPipe)]
      BY <1>5 DEF CountBytes
    <3>3. servant' \in Servant
      BY <1>0, <3>1, <3>2 DEF PipeTyped, Servant
    <3>. QED
      BY <1>0, <2>1, <3>3 DEF PipeTyped
  <2>3. ~NothingOnItsWay
    BY <2>1 DEF NothingOnItsWay
  <2>4. ASSUME NEW t \in PipeCallers, OnItsWay(request(t)) PROVE OnItsWay(request(t))'
    BY <2>1, <2>4 DEF OnItsWay
  <2>. QED
    BY <1>2, <2>1, <2>2, <2>3, <2>4
<1>6. CASE ReadAndInvoke
  <2>1. servant.at = "read" /\ ~NothingOnItsWay
    BY <1>6 DEF ReadAndInvoke, NothingOnItsWay
  <2>2. PICK t \in PipeCallers : pipeCaller[t].at = "poll" /\ OnItsWay(request(t))
    BY <1>1, <2>1
  <2>3. serverPipe = <<request(t)>> /\ clientPipe = <<>> /\ servant.size = 1
    BY <2>1, <2>2 DEF OnItsWay
  <2>4. /\ serverPipe' = <<>> /\ clientPipe' = <<>> /\ pipeCaller' = pipeCaller
        /\ servant' = [servant EXCEPT !.at = "reply", !.payload = request(t)]
    BY <2>3, <1>6 DEF ReadAndInvoke
  <2>5. PipeTyped' /\ servant'.at = "reply" /\ servant'.payload = request(t)
    <3>1. request(t) \in PipeRequests
      BY <1>0
    <3>. HIDE DEF request
    <3>2. servant' \in Servant /\ servant'.at = "reply" /\ servant'.payload = request(t)
      BY <1>0, <2>4, <3>1 DEF PipeTyped, Servant
    <3>. QED
      BY <1>0, <2>4, <3>2 DEF PipeTyped
  <2>6. OnItsWay(request(t))'
    BY <2>4, <2>5 DEF OnItsWay
  <2>. QED
    BY <2>1, <1>2, <2>2, <2>4, <2>5, <2>6 DEF OnePipeCaller
<1>7. CASE Reply
  <2>1. servant.at = "reply" /\ ~NothingOnItsWay
    BY <1>7 DEF Reply, NothingOnItsWay
  <2>2. PICK t \in PipeCallers : pipeCaller[t].at = "poll" /\ OnItsWay(request(t))
    BY <1>1, <2>1
  <2>3. serverPipe = <<>> /\ clientPipe = <<>> /\ servant.payload = request(t)
    BY <2>1, <2>2 DEF OnItsWay
  <2>4. /\ serverPipe' = <<>> /\ clientPipe' = <<request(t)>> /\ pipeCaller' = pipeCaller
        /\ servant' = [servant EXCEPT !.at = "wait"]
    BY <2>3, <1>7 DEF Reply
  <2>5. PipeTyped' /\ servant'.at = "wait"
    <3>1. request(t) \in PipeRequests
      BY <1>0
    <3>. HIDE DEF request
    <3>2. servant' \in Servant /\ servant'.at = "wait"
      BY <1>0, <2>4 DEF PipeTyped, Servant
    <3>. QED
      BY <1>0, <2>4, <3>1, <3>2 DEF PipeTyped
  <2>6. OnItsWay(request(t))'
    BY <2>4, <2>5 DEF OnItsWay
  <2>. QED
    BY <2>1, <1>2, <2>2, <2>4, <2>5, <2>6 DEF OnePipeCaller
<1>8. ASSUME NEW t \in PipeCallers, WriteRequest(t) PROVE PipeInv'
  <2>1. NothingOnItsWay /\ pipeCaller[t].at = "idle" /\ pipeCaller[t].n \in Nat
    BY <1>0, <1>8 DEF WriteRequest, PipeInv, PipeTyped, PipeCaller
  <2>2. /\ pipeCaller' = [pipeCaller EXCEPT ![t].at = "poll", ![t].n = pipeCaller[t].n + 1]
        /\ serverPipe' = <<<<t, pipeCaller[t].n + 1>>>> /\ UNCHANGED <<servant, clientPipe>>
    BY <1>8, <2>1 DEF WriteRequest, NothingOnItsWay
  <2>3. pipeCaller'[t].at = "poll" /\ pipeCaller'[t].n = pipeCaller[t].n + 1
    BY <1>0, <2>2 DEF PipeTyped, PipeCaller
  <2>4. PipeTyped'
    BY <1>0, <2>1, <2>2 DEF PipeTyped, PipeRequests, PipeCaller
  <2>5. OnItsWay(request(t))'
    BY <2>1, <2>2, <2>3 DEF OnItsWay, NothingOnItsWay
  <2>. QED
    BY <2>3, <2>4, <2>5 DEF PipeInv, OnePipeCaller
<1>9. ASSUME NEW t \in PipeCallers, ReadReply(t) PROVE PipeInv'
  <2>1. OnItsWay(request(t)) /\ clientPipe # <<>>
    BY <1>9 DEF ReadReply, PipeInv
  <2>2. serverPipe = <<>> /\ clientPipe = <<request(t)>> /\ servant.at \notin {"read", "reply"}
    BY <2>1 DEF OnItsWay
  <2>3. /\ pipeCaller' = [pipeCaller EXCEPT ![t].at = "idle", ![t].reply = request(t)]
        /\ clientPipe' = <<>> /\ UNCHANGED <<servant, serverPipe>>
    BY <1>9, <2>2 DEF ReadReply
  <2>4. /\ pipeCaller'[t].at = "idle" /\ pipeCaller'[t].n = pipeCaller[t].n
        /\ pipeCaller'[t].reply = request(t)
    BY <1>0, <2>3 DEF PipeTyped, PipeCaller
  <2>5. PipeTyped'
    <3>1. request(t) \in PipeRequests
      BY <1>0
    <3>. HIDE DEF request
    <3>2. [pipeCaller[t] EXCEPT !.at = "idle", !.reply = request(t)] \in PipeCaller
      BY <1>0, <3>1 DEF PipeTyped, PipeCaller
    <3>3. pipeCaller' = [pipeCaller EXCEPT
                           ![t] = [pipeCaller[t] EXCEPT !.at = "idle", !.reply = request(t)]]
      BY <1>0, <2>3 DEF PipeTyped, PipeCaller
    <3>. QED
      BY <1>0, <2>3, <3>2, <3>3 DEF PipeTyped
  <2>6. NothingOnItsWay'
    BY <2>2, <2>3 DEF NothingOnItsWay
  <2>. QED
    BY <2>4, <2>5, <2>6 DEF PipeInv, OnePipeCaller
<1>. QED
  BY <1>3, <1>4, <1>5, <1>6, <1>7, <1>8, <1>9 DEF PipeNext, ServantStep

\* A call over the pipe returns its own reply, however often the server is
\* stopped and started: no reply is sent twice or left over for the next call
\* to find, which anonymous_pipe_transport (rpc.hpp:252-278) relies on.
THEOREM PipeRepliesMatch ==
  ASSUME OnePipeCaller
  PROVE  PipeSpec => []PipeReplyIsForTheCall
<1>1. PipeInv => PipeReplyIsForTheCall
  BY DEF PipeInv, PipeReplyIsForTheCall
<1>. QED
  BY <1>1, PipeInvInit, PipeInvStep, PTL DEF PipeSpec
=============================================================================
