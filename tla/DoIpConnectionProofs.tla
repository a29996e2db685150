------------------------ MODULE DoIpConnectionProofs ------------------------
(***************************************************************************)
(* What holds of DoIpConnection for every set of hosts, sockets and        *)
(* addresses, proved with TLAPS.                                           *)
(***************************************************************************)
EXTENDS DoIpConnection, FiniteSetTheorems, TLAPS

(* Each worker keeps to its own positions, and an idle one to no           *)
(* connection and no socket.                                               *)
WorkersKeepTo ==
  /\ \A k \in Timers : worker[k].at \in TimerPositions
  /\ worker["accept"].at \in AcceptPositions
  /\ worker["transmit"].at \in TransmitPositions
  /\ \A w \in Workers : worker[w].at = "idle" => worker[w] = Idle

(* mutex_ of the manager is held by one activation at a time.              *)
OneActivation == \A c, d \in Hosts : Holding(c) /\ Holding(d) => c = d

(* A connection that is worked on, or registered, is among connections_.   *)
WorkedOnIsCreated ==
  /\ \A h \in Hosts : thread[h].at # "none" \/ Registered(h) => h \in Created
  /\ worker["accept"].at # "idle" => worker["accept"].host \in Created

(* No connection is registered before its thread runs, nor after.          *)
RegisteredRuns == \A h \in Hosts : thread[h].at \in {"none", "start"} => ~Registered(h)

(* A socket belongs to the host it came from, and has been accepted.       *)
SocketsAccepted ==
  /\ \A h \in Hosts : tcp_socket[h] # None => descriptor[tcp_socket[h]] # "new"
  /\ worker["accept"].at # "idle" =>
       /\ descriptor[worker["accept"].socket] # "new"
       /\ HostOf[worker["accept"].socket] = worker["accept"].host

(* After close() the socket of a connection is closed until the connection *)
(* has been cleaned up, unless it was given a new one meanwhile.           *)
CleaningUp(h) ==
  \/ thread[h].at \in {"unset", "source", "state"}
  \/ \E k \in Timers : worker[k].host = h /\ worker[k].at \in {"unset", "source", "state", "result"}
  \/ worker["accept"].host = h /\ worker["accept"].at \in {"unset", "source", "state", "set_socket"}
ClosedWhileCleaning ==
  \A h \in Hosts : CleaningUp(h) => ~IsOpen(tcp_socket[h]) \/ h \in taken_over

Shape ==
  /\ TypeOK /\ WorkersKeepTo /\ OneActivation /\ WorkedOnIsCreated /\ RegisteredRuns
  /\ SocketsAccepted /\ ClosedWhileCleaning

-----------------------------------------------------------------------------
(* What an activation knows of the other connections while it holds the    *)
(* mutex.                                                                  *)

Doomed(h) == ~IsOpen(tcp_socket[h]) \/ Closing(h)
Trusted(h) == h \notin taken_over \cup doubtful
Others(h) == {d \in Hosts \ {h} : Trusted(d) /\ Usable(d)}
Asked(h) == Head(thread[h].rest)
Asking(h) == thread[h].at \in {"check", "request", "await"}

(* A connection whose check has failed is not usable any more.             *)
DeadIsUnusable ==
  \A h \in Hosts : thread[h].at = "await" /\ promise[Asked(h)] = "false" => Asked(h) \notin Others(h)

(* Only the connection that is asked may hold the address that is to be    *)
(* granted; when it is granted, none does.                                 *)
Distinguishes(h, d) ==
  /\ Asking(h) /\ source_addr[d] = thread[h].addr => ~thread[h].all /\ d = Asked(h)
  /\ thread[h].at \in {"select", "grant"} => source_addr[d] # thread[h].addr
  /\ thread[h].at = "register" /\ ~Doomed(h) => source_addr[d] # source_addr[h]
AddressDecided ==
  \A h \in Hosts : \A d \in Others(h) : Trusted(h) => Distinguishes(h, d)

(* And there is room for one more connection, when the one that is asked   *)
(* is dead; when it is granted, there is.                                  *)
RoomDecided ==
  \A h \in Hosts :
    Trusted(h) =>
      /\ thread[h].at = "select" =>
           Cardinality(RegisteredHosts \ {h}) <= MaxConcurrentTcpSockets
      /\ Asking(h) =>
           Cardinality(RegisteredHosts \ {h, Asked(h)}) < MaxConcurrentTcpSockets
      /\ thread[h].at \in {"grant", "register"} =>
           Cardinality(Others(h)) < MaxConcurrentTcpSockets

-----------------------------------------------------------------------------
(* What keeps an open socket from being forgotten, when it was not stored  *)
(* between another thread's close() and reset.                             *)

Working(h) == thread[h].at \notin {"none", "unset", "source", "state"}
SocketsKept ==
  \A s \in Sockets :
    LET h == HostOf[s]
    IN IsOpen(s) /\ s \notin crossed =>
         \/ worker["accept"].socket = s
         \/ /\ tcp_socket[h] = s /\ Working(h)
            /\ thread[h].at = "reading" => thread[h].socket = s

(* Whoever is about to reset or replace tcp_socket_ has closed it.         *)
Resetting(h) ==
  \/ Unsetting(h)
  \/ worker["accept"].host = h /\ worker["accept"].at \in {"source", "state", "set_socket"}
ClosedWhileResetting ==
  \A h \in Hosts : Resetting(h) /\ IsOpen(tcp_socket[h]) => tcp_socket[h] \in crossed

(* Until its thread is spawned, a connection keeps the socket it was given.*)
JoinsWithSocket ==
  LET w == worker["accept"]
  IN w.at = "join" /\ IsOpen(w.socket) /\ w.socket \notin crossed => tcp_socket[w.host] = w.socket

-----------------------------------------------------------------------------
(* Types.                                                                  *)

USE ConnectionAssumption, ActingAssumption
    DEF At, ThreadAt, socket_vars, connection_vars, history_vars,
        Workers, Timers, States, OptionalHost, OptionalSocket, OptionalAddress, ClosingPositions

ThreadState ==
  [at : ThreadPositions, socket : OptionalSocket,
   addr : OptionalAddress, rest : Seq(Hosts), all : BOOLEAN]
WorkerState ==
  [at : AcceptPositions \cup TimerPositions \cup TransmitPositions,
   host : OptionalHost, socket : OptionalSocket]

(* What the positions of a thread and of a worker say of the rest.         *)
ThreadFits(t) ==
  /\ t \in ThreadState
  /\ t.at \in {"check", "request", "await"} => t.rest # << >>
  /\ t.at \in HoldingPositions \ {"register"} => t.addr # None
WorkerFits(w, r) ==
  /\ r \in WorkerState
  /\ r.at # "idle" => r.host # None
  /\ w = "accept" /\ r.at # "idle" => r.socket # None

ThreadsTyped == thread \in [Hosts -> ThreadState] /\ \A h \in Hosts : ThreadFits(thread[h])
WorkersTyped == worker \in [Workers -> WorkerState] /\ \A w \in Workers : WorkerFits(w, worker[w])
RestTyped ==
  /\ connections \in Seq(Hosts)
  /\ descriptor \in [Sockets -> {"new", "open", "closed", "refused"}]
  /\ tcp_socket \in [Hosts -> OptionalSocket]
  /\ state \in [Hosts -> States]
  /\ source_addr \in [Hosts -> OptionalAddress]
  /\ timer \in [Timers -> SUBSET Hosts]
  /\ promise \in [Hosts -> {"unset", "true", "false"}]
  /\ received \in 0 .. MaxMessages
  /\ taken_over \subseteq Hosts /\ crossed \subseteq Sockets /\ doubtful \subseteq Hosts
  /\ overlapped \in BOOLEAN /\ terminated \in BOOLEAN

(* TypeOK, taken apart into the threads, the workers and the rest.         *)
LEMMA TypeParts == TypeOK <=> RestTyped /\ ThreadsTyped /\ WorkersTyped
<1>1. "accept" \in Workers
  OBVIOUS
<1>2. TypeOK => RestTyped /\ ThreadsTyped /\ WorkersTyped
  BY DEF TypeOK, RestTyped, ThreadsTyped, WorkersTyped, ThreadFits, WorkerFits, ThreadState, WorkerState
<1>3. RestTyped /\ ThreadsTyped /\ WorkersTyped => TypeOK
  BY <1>1 DEF TypeOK, RestTyped, ThreadsTyped, WorkersTyped, ThreadFits, WorkerFits, ThreadState, WorkerState
<1> QED BY <1>2, <1>3

(* A thread that starts a new position with nothing but a socket or an     *)
(* address is well typed.                                                  *)
LEMMA EndedFits ==
  ASSUME NEW at \in ThreadPositions, NEW s \in OptionalSocket, NEW a \in OptionalAddress,
         at \in HoldingPositions => at = "register"
  PROVE  /\ ThreadFits([Ended EXCEPT !.at = at])
         /\ ThreadFits([Ended EXCEPT !.at = at, !.socket = s])
         /\ ThreadFits([Ended EXCEPT !.at = at, !.addr = a])
<1>1. << >> \in Seq(Hosts)
  OBVIOUS
<1>2. Ended \in ThreadState
  BY <1>1 DEF Ended, ThreadState, ThreadPositions
<1> QED BY <1>2 DEF ThreadFits, ThreadState, HoldingPositions

(* Setting one thread to a well-typed state keeps all of them typed.       *)
LEMMA SetThread ==
  ASSUME ThreadsTyped, NEW h \in Hosts, NEW t, ThreadFits(t), thread' = [thread EXCEPT ![h] = t]
  PROVE  ThreadsTyped'
<1>1. t \in ThreadState
  BY DEF ThreadFits
<1>2. \A d \in Hosts : thread'[d] = IF d = h THEN t ELSE thread[d]
  BY DEF ThreadsTyped
<1> QED BY <1>1, <1>2 DEF ThreadsTyped, ThreadFits

(* A thread that goes to a position and drops what it knew is well typed.  *)
LEMMA GoTyped ==
  ASSUME ThreadsTyped, NEW h \in Hosts, NEW at \in ThreadPositions, Go(h, at),
         at \in HoldingPositions => at = "register"
  PROVE  ThreadsTyped'
BY EndedFits, SetThread DEF Go

(* A thread that goes on and keeps what it knows is well typed, when it    *)
(* knows what its new position needs.                                      *)
LEMMA GoOnTyped ==
  ASSUME ThreadsTyped, NEW h \in Hosts, NEW at \in ThreadPositions, GoOn(h, at),
         at \in {"check", "request", "await"} => thread[h].rest # << >>,
         at \in HoldingPositions \ {"register"} => thread[h].addr # None
  PROVE  ThreadsTyped'
<1> DEFINE t == [thread[h] EXCEPT !.at = at]
<1>1. thread' = [thread EXCEPT ![h] = t]
  BY DEF GoOn
<1>2. /\ t \in ThreadState
      /\ t.at = at /\ t.rest = thread[h].rest /\ t.addr = thread[h].addr
  <2>1. thread[h] \in ThreadState
    BY DEF ThreadsTyped
  <2>2. t \in ThreadState
    BY <2>1 DEF ThreadState
  <2>3. t.at = at /\ t.rest = thread[h].rest /\ t.addr = thread[h].addr
    BY <2>1 DEF ThreadState
  <2> QED BY <2>2, <2>3
<1>3. ThreadFits(t)
  BY <1>2 DEF ThreadFits
<1> QED BY <1>1, <1>3, SetThread

(* Setting one worker to a well-typed state keeps all of them typed.       *)
LEMMA SetWorker ==
  ASSUME WorkersTyped, NEW w \in Workers, NEW r, WorkerFits(w, r), worker' = [worker EXCEPT ![w] = r]
  PROVE  WorkersTyped'
<1>1. r \in WorkerState
  BY DEF WorkerFits
<1>2. \A v \in Workers : worker'[v] = IF v = w THEN r ELSE worker[v]
  BY DEF WorkersTyped
<1> QED BY <1>1, <1>2 DEF WorkersTyped, WorkerFits

(* A busy worker that moves on is well typed.                              *)
LEMMA MoveTyped ==
  ASSUME WorkersTyped, NEW w \in Workers, worker[w].at # "idle",
         NEW at \in AcceptPositions \cup TimerPositions \cup TransmitPositions, Move(w, at)
  PROVE  WorkersTyped'
<1> DEFINE r == [worker[w] EXCEPT !.at = at]
<1>1. worker' = [worker EXCEPT ![w] = r]
  BY DEF Move
<1>2. WorkerFits(w, r)
  BY DEF WorkersTyped, WorkerFits, WorkerState
<1> QED BY <1>1, <1>2, SetWorker

(* A worker that becomes idle is well typed.                               *)
LEMMA IdleTyped ==
  ASSUME WorkersTyped, NEW w \in Workers, worker' = [worker EXCEPT ![w] = Idle]
  PROVE  WorkersTyped'
<1>1. WorkerFits(w, Idle)
  BY DEF WorkerFits, WorkerState, Idle, AcceptPositions
<1> QED BY <1>1, SetWorker

(* Each step of Cancel preserves the types.                                *)
LEMMA CancelTyped ==
  ASSUME RestTyped, ThreadsTyped, WorkersTyped, NEW w \in Workers, Cancel(w)
  PROVE  RestTyped' /\ ThreadsTyped' /\ WorkersTyped'
<1> DEFINE h == worker[w].host
<1>1. worker[w].at # "idle" /\ h \in Hosts
  BY DEF WorkersTyped, WorkerFits, WorkerState, Cancel, CancelAliveCheck, CancelStopsAliveCheck, CancelSetsPromise, CancelSocket, CancelUnsetSocket, CancelSource, CancelState
<1>2. CASE CancelAliveCheck(w)
  <2>1. WorkersTyped'
    BY <1>1, <1>2, MoveTyped DEF CancelAliveCheck, AcceptPositions, Cancelling
  <2> QED BY <1>2, <2>1 DEF CancelAliveCheck, Overlaps, RestTyped, ThreadsTyped
<1>7. CASE CancelStopsAliveCheck(w)
  <2>1. WorkersTyped'
    BY <1>1, <1>7, MoveTyped DEF CancelStopsAliveCheck, AcceptPositions, Cancelling
  <2>2. timer' \in [Timers -> SUBSET Hosts]
    BY <1>1, <1>7 DEF CancelStopsAliveCheck, Stopped, RestTyped
  <2> QED BY <1>7, <2>1, <2>2 DEF CancelStopsAliveCheck, RestTyped, ThreadsTyped
<1>8. CASE CancelSetsPromise(w)
  <2>1. WorkersTyped'
    BY <1>1, <1>8, MoveTyped DEF CancelSetsPromise, AcceptPositions, Cancelling
  <2>2. promise' \in [Hosts -> {"unset", "true", "false"}]
    BY <1>1, <1>8 DEF CancelSetsPromise, RestTyped
  <2> QED BY <1>8, <2>1, <2>2 DEF CancelSetsPromise, RestTyped, ThreadsTyped
<1>3. CASE CancelSocket(w)
  <2>1. WorkersTyped'
    BY <1>1, <1>3, MoveTyped DEF CancelSocket, AcceptPositions, Cancelling
  <2>2. timer' \in [Timers -> SUBSET Hosts]
    BY <1>1, <1>3 DEF CancelSocket, InactivityStopped, RestTyped
  <2>3. descriptor' \in [Sockets -> {"new", "open", "closed", "refused"}]
    BY <1>1, <1>3 DEF CancelSocket, CloseSocket, RestTyped
  <2> QED BY <1>3, <2>1, <2>2, <2>3 DEF CancelSocket, RestTyped, ThreadsTyped
<1>4. CASE CancelUnsetSocket(w)
  <2>1. WorkersTyped'
    BY <1>1, <1>4, MoveTyped DEF CancelUnsetSocket, AcceptPositions, Cancelling
  <2> QED BY <1>1, <1>4, <2>1 DEF CancelUnsetSocket, RestTyped, ThreadsTyped
<1>5. CASE CancelSource(w)
  <2>1. WorkersTyped'
    BY <1>1, <1>5, MoveTyped DEF CancelSource, AcceptPositions, Cancelling
  <2> QED BY <1>1, <1>5, <2>1 DEF CancelSource, RestTyped, ThreadsTyped
<1>6. CASE CancelState(w)
  <2>1. WorkersTyped'
    <3>1. CASE Move(w, "set_socket") \/ Move(w, "result")
      BY <1>1, <3>1, MoveTyped DEF AcceptPositions, TimerPositions
    <3> QED BY <1>6, <3>1, IdleTyped DEF CancelState
  <2> QED BY <1>1, <1>6, <2>1 DEF CancelState, RestTyped, ThreadsTyped
<1> QED BY <1>2, <1>3, <1>4, <1>5, <1>6, <1>7, <1>8 DEF Cancel

(* Each step of the accepting thread preserves the types.                  *)
LEMMA AcceptTyped ==
  ASSUME RestTyped, ThreadsTyped, WorkersTyped,
         AddTcpSocket \/ SpawnReceiver \/ \E s \in Sockets : Accept(s)
  PROVE  RestTyped' /\ ThreadsTyped' /\ WorkersTyped'
<1> DEFINE w == worker["accept"]
<1>0. w.at # "idle" => w.host \in Hosts /\ w.socket \in Sockets
  BY DEF WorkersTyped, WorkerFits, WorkerState
<1>1. ASSUME NEW s \in Sockets, Accept(s)
      PROVE  RestTyped' /\ ThreadsTyped' /\ WorkersTyped'
  <2> DEFINE h == HostOf[s]
             r == [at |-> "alive", host |-> h, socket |-> s]
  <2>1. h \in Hosts
    OBVIOUS
  <2>2. WorkerFits("accept", r)
    BY <2>1 DEF WorkerFits, WorkerState, AcceptPositions, Cancelling
  <2>3. WorkersTyped'
    BY <1>1, <2>2, SetWorker DEF Accept, WorkersTyped
  <2>4. connections' \in Seq(Hosts)
    <3>1. connections \in Seq(Hosts) /\ Append(connections, h) \in Seq(Hosts)
      BY <2>1 DEF RestTyped
    <3>2. connections' \in {connections, Append(connections, h)}
      BY <1>1 DEF Accept
    <3> QED BY <3>1, <3>2
  <2>5. descriptor' \in [Sockets -> {"new", "open", "closed", "refused"}]
    BY <1>1 DEF Accept, RestTyped
  <2> QED BY <1>1, <2>3, <2>4, <2>5 DEF Accept, RestTyped, ThreadsTyped
<1>2. CASE AddTcpSocket
  <2>1. w.at # "idle"
    BY <1>2 DEF AddTcpSocket
  <2>2. WorkersTyped'
    BY <1>2, <2>1, MoveTyped DEF AddTcpSocket, AcceptPositions
  <2> QED BY <1>0, <1>2, <2>1, <2>2 DEF AddTcpSocket, RestTyped, ThreadsTyped
<1>3. CASE SpawnReceiver
  <2>1. w.at # "idle"
    BY <1>3 DEF SpawnReceiver
  <2>2. ThreadsTyped'
    BY <1>0, <1>3, <2>1, GoTyped DEF SpawnReceiver, ThreadPositions, HoldingPositions
  <2>3. WorkersTyped'
    BY <1>3, IdleTyped DEF SpawnReceiver
  <2> QED BY <1>0, <1>3, <2>1, <2>2, <2>3 DEF SpawnReceiver, Restarted, RestTyped
<1> QED BY <1>1, <1>2, <1>3

(* What a receiving thread does by itself preserves the types.             *)
LEMMA ReceivesTyped ==
  ASSUME RestTyped, ThreadsTyped, WorkersTyped, NEW h \in Hosts, Receives(h)
  PROVE  RestTyped' /\ ThreadsTyped' /\ WorkersTyped'
<1> USE DEF ThreadPositions, HoldingPositions, ExitPositions
<1>1. CASE StartReceiving(h)
  BY <1>1, GoTyped DEF StartReceiving, RestTyped, WorkersTyped
<1>2. CASE SocketRead(h)
  <2>1. ThreadFits([Ended EXCEPT !.at = "reading", !.socket = tcp_socket[h]])
    BY EndedFits DEF RestTyped
  <2>2. ThreadsTyped'
    BY <1>2, <2>1, SetThread DEF SocketRead
  <2> QED BY <1>2, <2>2 DEF SocketRead, RestTyped, WorkersTyped
<1>3. CASE SocketReadFails(h)
  BY <1>3, GoOnTyped DEF SocketReadFails, RestTyped, WorkersTyped
<1>4. CASE AliveCheckAnswered(h)
  <2>1. ThreadsTyped'
    BY <1>4, GoTyped DEF AliveCheckAnswered
  <2>2. timer' \in [Timers -> SUBSET Hosts]
    BY <1>4 DEF AliveCheckAnswered, Stopped, RestTyped
  <2>3. promise' \in [Hosts -> {"unset", "true", "false"}] /\ terminated' \in BOOLEAN
    <3>1. PICK result \in {"true", "false"} : SetAliveCheckResult(h, result)
      BY <1>4 DEF AliveCheckAnswered
    <3>2. promise' \in [Hosts -> {"unset", "true", "false"}]
      BY <3>1 DEF SetAliveCheckResult, RestTyped
    <3>3. terminated' \in BOOLEAN
      BY <3>1 DEF SetAliveCheckResult, RestTyped
    <3> QED BY <3>2, <3>3
  <2>4. state' \in [Hosts -> States]
    BY <1>4 DEF AliveCheckAnswered, RestTyped
  <2> QED BY <1>4, <2>1, <2>2, <2>3, <2>4 DEF AliveCheckAnswered, RestTyped, WorkersTyped
<1>5. CASE CloseReceived(h)
  <2>1. ThreadsTyped'
    BY <1>5, GoTyped DEF CloseReceived
  <2>2. timer' \in [Timers -> SUBSET Hosts]
    BY <1>5 DEF CloseReceived, InactivityStopped, RestTyped
  <2>3. descriptor' \in [Sockets -> {"new", "open", "closed", "refused"}]
    BY <1>5 DEF CloseReceived, CloseSocket, RestTyped
  <2> QED BY <1>5, <2>1, <2>2, <2>3 DEF CloseReceived, RestTyped, WorkersTyped
<1>6. CASE UnsetSocket(h)
  BY <1>6, GoOnTyped DEF UnsetSocket, RestTyped, WorkersTyped
<1>7. CASE UnsetSource(h)
  BY <1>7, GoOnTyped DEF UnsetSource, RestTyped, WorkersTyped
<1>8. CASE EndReceiving(h)
  BY <1>8, GoTyped DEF EndReceiving, RestTyped, WorkersTyped
<1>9. CASE AnswerActivation(h)
  <2>1. ThreadsTyped'
    BY <1>9, GoTyped DEF AnswerActivation
  <2> QED BY <1>9, <2>1 DEF AnswerActivation, Restarted, RestTyped, WorkersTyped
<1> QED BY <1>1, <1>2, <1>3, <1>4, <1>5, <1>6, <1>7, <1>8, <1>9 DEF Receives

(* What a tester causes preserves the types.                               *)
LEMMA ArrivesTyped ==
  ASSUME RestTyped, ThreadsTyped, WorkersTyped, NEW h \in Hosts, Arrives(h)
  PROVE  RestTyped' /\ ThreadsTyped' /\ WorkersTyped'
<1> USE DEF ThreadPositions, HoldingPositions, ExitPositions
<1>1. CASE TesterCloses(h)
  BY <1>1, GoOnTyped DEF TesterCloses, RestTyped, WorkersTyped
<1>2. AfterRead(h) \in [Timers -> SUBSET Hosts]
  BY DEF AfterRead, Restarted, RestTyped
<1>3. Receive(h) => received' \in 0 .. MaxMessages
  BY DEF Receive, RestTyped
<1>4. CASE ReceiveOther(h)
  <2>1. ThreadsTyped'
    BY <1>4, GoTyped DEF ReceiveOther
  <2> QED BY <1>2, <1>3, <1>4, <2>1 DEF ReceiveOther, Receive, RestTyped, WorkersTyped
<1>5. ASSUME NEW a \in OptionalAddress, ReceiveDiagnosticMessage(h, a)
      PROVE  RestTyped' /\ ThreadsTyped' /\ WorkersTyped'
  <2>1. ThreadsTyped'
    BY <1>5, GoTyped DEF ReceiveDiagnosticMessage
  <2> QED BY <1>2, <1>3, <1>5, <2>1 DEF ReceiveDiagnosticMessage, Receive, RestTyped, WorkersTyped
<1>6. ASSUME NEW a \in OptionalAddress, ReceiveAliveCheckResponse(h, a)
      PROVE  RestTyped' /\ ThreadsTyped' /\ WorkersTyped'
  <2>1. /\ ThreadFits([Ended EXCEPT !.at = "answered", !.addr = a])
        /\ ThreadFits([Ended EXCEPT !.at = "read"])
    BY EndedFits
  <2>3. ThreadsTyped'
    BY <1>6, <2>1, SetThread DEF ReceiveAliveCheckResponse, Go
  <2> QED BY <1>2, <1>3, <1>6, <2>3 DEF ReceiveAliveCheckResponse, Receive, Overlaps, RestTyped, WorkersTyped
<1>7. ASSUME NEW a \in OptionalAddress, ReceiveRoutingActivationRequest(h, a)
      PROVE  RestTyped' /\ ThreadsTyped' /\ WorkersTyped'
  <2>1. ThreadFits([Ended EXCEPT !.at = "lock", !.addr = a])
    BY EndedFits
  <2>3. ThreadsTyped'
    BY <1>7, <2>1, SetThread DEF ReceiveRoutingActivationRequest
  <2>4. timer' \in [Timers -> SUBSET Hosts]
    BY <1>2, <1>7 DEF ReceiveRoutingActivationRequest
  <2> QED BY <1>3, <1>7, <2>3, <2>4 DEF ReceiveRoutingActivationRequest, Receive, RestTyped, WorkersTyped
<1> QED BY <1>1, <1>4, <1>5, <1>6, <1>7 DEF Arrives

(* A thread with another list of connections to ask is well typed.         *)
LEMMA PeersTyped ==
  ASSUME NEW t \in ThreadState, NEW at \in ThreadPositions, NEW rest \in Seq(Hosts), NEW all \in BOOLEAN
  PROVE  /\ [t EXCEPT !.rest = rest] \in ThreadState
         /\ [t EXCEPT !.at = at, !.rest = rest] \in ThreadState
         /\ [t EXCEPT !.at = at, !.rest = rest, !.all = all] \in ThreadState
BY DEF ThreadState

(* Each step of an activation preserves the types.                         *)
LEMMA ActivatesTyped ==
  ASSUME RestTyped, ThreadsTyped, WorkersTyped, NEW h \in Hosts, Activates(h)
  PROVE  RestTyped' /\ ThreadsTyped' /\ WorkersTyped'
<1> USE DEF ThreadPositions, HoldingPositions, ExitPositions
<1> DEFINE peers == thread[h].rest
           a == thread[h].addr
<1>0. peers \in Seq(Hosts) /\ a \in OptionalAddress /\ thread[h].all \in BOOLEAN
  BY DEF ThreadsTyped, ThreadState
<1>1. ASSUME NEW rest \in Seq(Hosts), NEW all \in BOOLEAN, Alive(h, rest, all), a # None,
             rest # << >> \/ all
      PROVE  ThreadsTyped'
  <2> DEFINE t == [thread[h] EXCEPT !.at = IF all THEN "select" ELSE "check", !.rest = rest, !.all = all]
  <2>1. /\ t \in ThreadState
        /\ t.at = (IF all THEN "select" ELSE "check") /\ t.rest = rest /\ t.addr = a
    <3>1. thread[h] \in ThreadState
      BY DEF ThreadsTyped
    <3>2. t \in ThreadState
      BY <1>1, <3>1, PeersTyped
    <3> QED BY <3>1, <3>2 DEF ThreadState
  <2>2. ThreadFits(t)
    BY <1>1, <2>1 DEF ThreadFits
  <2> QED BY <1>1, <2>2, SetThread DEF Alive
<1>2. CASE ConnectionRoutingActivation(h)
  <2>1. ThreadsTyped'
    <3>1. CASE Refuse(h)
      BY <3>1, GoTyped DEF Refuse
    <3>2. CASE GoOn(h, "grant") /\ InRange(a)
      BY <3>2, GoOnTyped DEF InRange
    <3>3. ASSUME NEW c \in Hosts, Alive(h, <<c>>, FALSE), InRange(a)
          PROVE  ThreadsTyped'
      <4>1. <<c>> \in Seq(Hosts) /\ <<c>> # << >>
        OBVIOUS
      <4> QED BY <1>1, <3>3, <4>1 DEF InRange
    <3>4. CASE Alive(h, connections, TRUE) /\ InRange(a)
      BY <1>1, <3>4 DEF InRange, RestTyped
    <3> QED BY <1>2, <3>1, <3>2, <3>3, <3>4 DEF ConnectionRoutingActivation
  <2>2. doubtful' \subseteq Hosts
    BY <1>2 DEF ConnectionRoutingActivation, RestTyped
  <2> QED BY <1>2, <2>1, <2>2 DEF ConnectionRoutingActivation, RestTyped, WorkersTyped
<1>3. ASSUME thread[h].at \in HoldingPositions \ {"register"}
      PROVE  a # None /\ (thread[h].at # "grant" /\ thread[h].at # "select" => peers # << >>)
  BY <1>3 DEF ThreadsTyped, ThreadFits
<1>4. ASSUME NEW at \in {"select"}, peers # << >>, thread[h].at \in HoldingPositions \ {"register"},
             thread' = [thread EXCEPT ![h].at = at, ![h].rest = Tail(@)]
      PROVE  ThreadsTyped'
  <2> DEFINE t == [thread[h] EXCEPT !.at = at, !.rest = Tail(@)]
  <2>1. Tail(peers) \in Seq(Hosts)
    BY <1>0, <1>4
  <2>2. thread[h] \in ThreadState
    BY DEF ThreadsTyped
  <2>3. t \in ThreadState
    BY <1>0, <2>1, <2>2, PeersTyped
  <2>4. t.at = at /\ t.addr = a
    BY <2>2 DEF ThreadState
  <2>5. ThreadFits(t)
    BY <1>3, <1>4, <2>3, <2>4 DEF ThreadFits
  <2>6. thread' = [thread EXCEPT ![h] = t]
    BY <1>4 DEF ThreadsTyped, ThreadState
  <2> QED BY <2>6, <2>5, SetThread
<1>5. CASE SelectRegistered(h)
  <2>1. ThreadsTyped'
    <3>1. CASE Refuse(h)
      BY <3>1, GoTyped DEF Refuse
    <3>2. CASE peers # << >> /\ GoOn(h, "check")
      BY <1>3, <1>5, <3>2, GoOnTyped DEF SelectRegistered
    <3>3. CASE peers # << >> /\ thread' = [thread EXCEPT ![h].rest = Tail(peers)]
      <4> DEFINE t == [thread[h] EXCEPT !.rest = Tail(peers)]
      <4>1. Tail(peers) \in Seq(Hosts)
        BY <1>0, <3>3
      <4>2. t \in ThreadState /\ t.at = thread[h].at /\ t.addr = a
        <5>1. thread[h] \in ThreadState
          BY DEF ThreadsTyped
        <5>2. t \in ThreadState
          BY <4>1, <5>1, PeersTyped
        <5> QED BY <5>1, <5>2 DEF ThreadState
      <4>3. ThreadFits(t)
        BY <1>3, <1>5, <4>2 DEF SelectRegistered, ThreadFits
      <4> QED BY <3>3, <4>3, SetThread
    <3> QED BY <1>5, <3>1, <3>2, <3>3 DEF SelectRegistered
  <2> QED BY <1>5, <2>1 DEF SelectRegistered, RestTyped, WorkersTyped
<1>6. CASE PerformAliveCheck(h)
  <2>1. ThreadsTyped'
    BY <1>3, <1>6, GoOnTyped DEF PerformAliveCheck
  <2>2. doubtful' \subseteq Hosts
    BY <1>6 DEF PerformAliveCheck, RestTyped
  <2> QED BY <1>6, <2>1, <2>2 DEF PerformAliveCheck, RestTyped, WorkersTyped
<1>7. CASE SendAliveCheckRequest(h)
  <2>1. Head(peers) \in Hosts
    BY <1>0, <1>3, <1>7 DEF SendAliveCheckRequest
  <2>2. ThreadsTyped'
    BY <1>3, <1>7, GoOnTyped DEF SendAliveCheckRequest
  <2> QED BY <1>7, <2>1, <2>2 DEF SendAliveCheckRequest, Restarted, Overlaps, RestTyped, WorkersTyped
<1>8. CASE AliveCheckResult(h)
  <2>1. ThreadsTyped'
    <3>1. CASE GoOn(h, "grant")
      BY <1>3, <1>8, <3>1, GoOnTyped DEF AliveCheckResult
    <3>2. CASE Refuse(h)
      BY <3>2, GoTyped DEF Refuse
    <3>3. CASE thread' = [thread EXCEPT ![h].at = "select", ![h].rest = Tail(@)]
      BY <1>3, <1>4, <1>8, <3>3 DEF AliveCheckResult
    <3> QED BY <1>8, <3>1, <3>2, <3>3 DEF AliveCheckResult
  <2> QED BY <1>8, <2>1 DEF AliveCheckResult, RestTyped, WorkersTyped
<1>9. CASE SetSourceAddress(h)
  BY <1>0, <1>9, GoTyped DEF SetSourceAddress, RestTyped, WorkersTyped
<1>10. CASE SetRegistered(h)
  BY <1>10, GoTyped DEF SetRegistered, RestTyped, WorkersTyped
<1> QED BY <1>2, <1>5, <1>6, <1>7, <1>8, <1>9, <1>10 DEF Activates

(* What the timers and the sending threads do besides Cancel preserves     *)
(* the types.                                                              *)
LEMMA TimersTyped ==
  ASSUME RestTyped, ThreadsTyped, WorkersTyped,
         \/ \E k \in Timers : Timeout(k) \/ \E h \in Hosts : Expires(k, h)
         \/ AliveCheckTimedOut \/ RestartGeneralInactivity
         \/ \E h \in Hosts : Transmit(h)
  PROVE  RestTyped' /\ ThreadsTyped' /\ WorkersTyped'
<1> USE DEF AcceptPositions, TimerPositions, TransmitPositions, Cancelling
<1>0. ASSUME NEW w \in Workers, worker[w].at # "idle"
      PROVE  worker[w].host \in Hosts
  BY <1>0 DEF WorkersTyped, WorkerFits, WorkerState
<1>1. ASSUME NEW w \in Workers \ {"accept"}, NEW h \in Hosts, NEW at \in {"finalize", "restart"},
             worker' = [worker EXCEPT ![w] = [Idle EXCEPT !.at = at, !.host = h]]
      PROVE  WorkersTyped'
  <2>1. WorkerFits(w, [Idle EXCEPT !.at = at, !.host = h])
    BY DEF WorkerFits, WorkerState, Idle
  <2> QED BY <1>1, <2>1, SetWorker
<1>2. ASSUME NEW k \in Timers, Timeout(k)
      PROVE  RestTyped' /\ ThreadsTyped' /\ WorkersTyped'
  <2>1. WorkersTyped'
    BY <1>2, MoveTyped DEF Timeout
  <2> QED BY <1>0, <1>2, <2>1 DEF Timeout, RestTyped, ThreadsTyped
<1>3. ASSUME NEW k \in Timers, NEW h \in Hosts, Expires(k, h)
      PROVE  RestTyped' /\ ThreadsTyped' /\ WorkersTyped'
  <2>1. WorkersTyped'
    BY <1>1, <1>3 DEF Expires
  <2>2. timer' \in [Timers -> SUBSET Hosts]
    BY <1>3 DEF Expires, Stopped, RestTyped
  <2> QED BY <1>3, <2>1, <2>2 DEF Expires, Overlaps, RestTyped, ThreadsTyped
<1>4. CASE AliveCheckTimedOut
  <2>1. WorkersTyped'
    BY <1>4, IdleTyped DEF AliveCheckTimedOut
  <2>2. promise' \in [Hosts -> {"unset", "true", "false"}] /\ terminated' \in BOOLEAN
    <3>1. PICK h : SetAliveCheckResult(h, "false")
      BY <1>4 DEF AliveCheckTimedOut
    <3>2. promise' \in [Hosts -> {"unset", "true", "false"}]
      BY <3>1 DEF SetAliveCheckResult, RestTyped
    <3>3. terminated' \in BOOLEAN
      BY <3>1 DEF SetAliveCheckResult, RestTyped
    <3> QED BY <3>2, <3>3
  <2> QED BY <1>4, <2>1, <2>2 DEF AliveCheckTimedOut, RestTyped, ThreadsTyped
<1>5. CASE RestartGeneralInactivity
  <2>1. WorkersTyped'
    BY <1>5, IdleTyped DEF RestartGeneralInactivity
  <2>2. timer' \in [Timers -> SUBSET Hosts]
    BY <1>0, <1>5 DEF RestartGeneralInactivity, Restarted, RestTyped
  <2> QED BY <1>5, <2>1, <2>2 DEF RestartGeneralInactivity, RestTyped, ThreadsTyped
<1>6. ASSUME NEW h \in Hosts, Transmit(h)
      PROVE  RestTyped' /\ ThreadsTyped' /\ WorkersTyped'
  <2>1. WorkersTyped'
    BY <1>1, <1>6 DEF Transmit
  <2> QED BY <1>6, <2>1 DEF Transmit, RestTyped, ThreadsTyped
<1> QED BY <1>2, <1>3, <1>4, <1>5, <1>6

(* Every step preserves the types.                                         *)
LEMMA NextTyped == TypeOK /\ [Next]_vars => TypeOK'
<1> SUFFICES ASSUME RestTyped, ThreadsTyped, WorkersTyped, [Next]_vars
             PROVE  RestTyped' /\ ThreadsTyped' /\ WorkersTyped'
  <2>1. TypeOK' <=> RestTyped' /\ ThreadsTyped' /\ WorkersTyped'
    BY TypeParts, PTL
  <2> QED BY <2>1, TypeParts
<1>1. CASE UNCHANGED vars
  BY <1>1 DEF vars, RestTyped, ThreadsTyped, WorkersTyped
<1> QED
  BY <1>1, CancelTyped, AcceptTyped, ReceivesTyped, ArrivesTyped, ActivatesTyped, TimersTyped
  DEF Next, Accepts, TimesOut

-----------------------------------------------------------------------------
(* What a step leaves to the others, position by position.                 *)

OthersStay(h) == \A d \in Hosts \ {h} : thread'[d] = thread[d]
WorkersStay(w) == \A v \in Workers \ {w} : worker'[v] = worker[v]

(* What Go sets and what it leaves.                                        *)
LEMMA GoFacts ==
  ASSUME ThreadsTyped, NEW h \in Hosts, NEW at, Go(h, at)
  PROVE  OthersStay(h) /\ thread'[h].at = at
BY DEF ThreadsTyped, Go, Ended, OthersStay

(* What GoOn sets and what it leaves.                                      *)
LEMMA GoOnFacts ==
  ASSUME ThreadsTyped, NEW h \in Hosts, NEW at, GoOn(h, at)
  PROVE  /\ OthersStay(h) /\ thread'[h].at = at
         /\ thread'[h].socket = thread[h].socket /\ thread'[h].addr = thread[h].addr
         /\ thread'[h].rest = thread[h].rest /\ thread'[h].all = thread[h].all
BY DEF ThreadsTyped, ThreadState, GoOn, OthersStay

(* What Move sets and what it leaves.                                      *)
LEMMA MoveFacts ==
  ASSUME WorkersTyped, NEW w \in Workers, NEW at, Move(w, at)
  PROVE  /\ WorkersStay(w) /\ worker'[w].at = at
         /\ worker'[w].host = worker[w].host /\ worker'[w].socket = worker[w].socket
BY DEF WorkersTyped, WorkerState, Move, WorkersStay

(* What becoming idle sets and what it leaves.                             *)
LEMMA IdleFacts ==
  ASSUME WorkersTyped, NEW w \in Workers, worker' = [worker EXCEPT ![w] = Idle]
  PROVE  /\ WorkersStay(w) /\ worker'[w].at = "idle" /\ worker'[w] = Idle
         /\ worker'[w].host = None /\ worker'[w].socket = None
BY DEF WorkersTyped, Idle, WorkersStay

(* What leaving idleness sets and what it leaves.                          *)
LEMMA BusyFacts ==
  ASSUME WorkersTyped, NEW w \in Workers, NEW h, NEW at,
         worker' = [worker EXCEPT ![w] = [Idle EXCEPT !.at = at, !.host = h]]
  PROVE  WorkersStay(w) /\ worker'[w].at = at
BY DEF WorkersTyped, WorkersStay, Idle

(* Most steps of a receiving thread change nothing but its own position,   *)
(* as far as the other connections see.                                    *)
Quiet(h) ==
  /\ UNCHANGED <<connections, descriptor, tcp_socket, state, source_addr, worker, taken_over, crossed>>
  /\ OthersStay(h)
  /\ thread[h].at \notin {"none", "unset", "source", "state"}
  /\ thread'[h].at \notin {"unset", "source", "state", "start"}
  /\ thread'[h].at = "none" => thread[h].at = "start"
  /\ thread'[h].at \in HoldingPositions => Holding(h) \/ MutexFree
  /\ thread'[h].at = "reading" => thread'[h].socket = tcp_socket[h]

QuietReceives(h) ==
  \/ StartReceiving(h) \/ SocketRead(h) \/ SocketReadFails(h) \/ AnswerActivation(h)
QuietActivates(h) ==
  \/ ConnectionRoutingActivation(h) \/ SelectRegistered(h) \/ PerformAliveCheck(h)
  \/ SendAliveCheckRequest(h) \/ AliveCheckResult(h)

(* Reading, arriving messages, and an activation before it registers are   *)
(* quiet.                                                                  *)
LEMMA QuietStep ==
  ASSUME ThreadsTyped, NEW h \in Hosts,
         QuietReceives(h) \/ QuietActivates(h) \/ Arrives(h)
  PROVE  Quiet(h)
<1> USE DEF HoldingPositions
<1>1. CASE StartReceiving(h)
  BY <1>1, GoFacts DEF StartReceiving, Quiet
<1>2. CASE SocketRead(h)
  <2>1. OthersStay(h) /\ thread'[h].at = "reading" /\ thread'[h].socket = tcp_socket[h]
    BY <1>2 DEF SocketRead, ThreadsTyped, Ended, OthersStay
  <2> QED BY <1>2, <2>1 DEF SocketRead, Quiet
<1>3. CASE SocketReadFails(h) \/ TesterCloses(h)
  BY <1>3, GoOnFacts DEF SocketReadFails, TesterCloses, Quiet
<1>4. CASE AnswerActivation(h)
  BY <1>4, GoFacts DEF AnswerActivation, Quiet
<1>5. CASE ConnectionRoutingActivation(h)
  <2>1. OthersStay(h) /\ thread'[h].at \in {"grant", "close", "select", "check"}
    <3>1. CASE Refuse(h) \/ GoOn(h, "grant")
      BY <3>1, GoFacts, GoOnFacts DEF Refuse
    <3>2. ASSUME NEW rest, NEW all \in BOOLEAN, Alive(h, rest, all)
          PROVE  OthersStay(h) /\ thread'[h].at \in {"select", "check"}
      BY <3>2 DEF Alive, ThreadsTyped, ThreadState, OthersStay
    <3>3. \/ Refuse(h) \/ GoOn(h, "grant") \/ Alive(h, connections, TRUE)
          \/ \E c \in Hosts : Alive(h, <<c>>, FALSE)
      BY <1>5 DEF ConnectionRoutingActivation
    <3> QED BY <3>1, <3>2, <3>3
  <2> QED BY <1>5, <2>1 DEF ConnectionRoutingActivation, Quiet
<1>6. CASE SelectRegistered(h)
  <2>1. OthersStay(h) /\ thread'[h].at \in {"close", "check", "select"}
    <3>1. CASE thread' = [thread EXCEPT ![h].rest = Tail(thread[h].rest)]
      BY <1>6, <3>1 DEF SelectRegistered, ThreadsTyped, ThreadState, OthersStay
    <3>2. CASE Refuse(h) \/ GoOn(h, "check")
      BY <3>2, GoFacts, GoOnFacts DEF Refuse
    <3> QED BY <1>6, <3>1, <3>2 DEF SelectRegistered
  <2> QED BY <1>6, <2>1 DEF SelectRegistered, Holding, Quiet
<1>7. CASE PerformAliveCheck(h)
  BY <1>7, GoOnFacts DEF PerformAliveCheck, Holding, Quiet
<1>8. CASE SendAliveCheckRequest(h)
  BY <1>8, GoOnFacts DEF SendAliveCheckRequest, Holding, Quiet
<1>9. CASE AliveCheckResult(h)
  <2>1. OthersStay(h) /\ thread'[h].at \in {"grant", "close", "select"}
    <3>1. CASE thread' = [thread EXCEPT ![h].at = "select", ![h].rest = Tail(@)]
      BY <3>1 DEF ThreadsTyped, ThreadState, OthersStay
    <3>2. CASE Refuse(h) \/ GoOn(h, "grant")
      BY <3>2, GoFacts, GoOnFacts DEF Refuse
    <3> QED BY <1>9, <3>1, <3>2 DEF AliveCheckResult
  <2> QED BY <1>9, <2>1 DEF AliveCheckResult, Holding, Quiet
<1>10. CASE Arrives(h)
  <2>1. CASE TesterCloses(h)
    BY <1>3, <2>1
  <2>2. ASSUME Receive(h), OthersStay(h), UNCHANGED state,
               thread'[h].at \in {"read", "close", "answered", "lock"}
        PROVE  Quiet(h)
    BY <2>2 DEF Receive, Quiet
  <2>3. CASE ReceiveOther(h)
    BY <2>2, <2>3, GoFacts DEF ReceiveOther
  <2>4. ASSUME NEW a \in OptionalAddress, ReceiveDiagnosticMessage(h, a)
        PROVE  Quiet(h)
    BY <2>2, <2>4, GoFacts DEF ReceiveDiagnosticMessage
  <2>5. ASSUME NEW a \in OptionalAddress, ReceiveAliveCheckResponse(h, a)
        PROVE  Quiet(h)
    <3>1. OthersStay(h) /\ thread'[h].at \in {"read", "answered"}
      <4>1. CASE Go(h, "read") BY <4>1, GoFacts
      <4>2. CASE thread' = [thread EXCEPT ![h] = [Ended EXCEPT !.at = "answered", !.addr = a]]
        BY <4>2 DEF ThreadsTyped, Ended, OthersStay
      <4> QED BY <2>5, <4>1, <4>2 DEF ReceiveAliveCheckResponse
    <3> QED BY <2>2, <2>5, <3>1 DEF ReceiveAliveCheckResponse
  <2>6. ASSUME NEW a \in OptionalAddress, ReceiveRoutingActivationRequest(h, a)
        PROVE  Quiet(h)
    <3>1. OthersStay(h) /\ thread'[h].at = "lock"
      BY <2>6 DEF ReceiveRoutingActivationRequest, ThreadsTyped, Ended, OthersStay
    <3> QED BY <2>2, <2>6, <3>1 DEF ReceiveRoutingActivationRequest
  <2> QED BY <1>10, <2>1, <2>3, <2>4, <2>5, <2>6 DEF Arrives
<1> QED BY <1>1, <1>2, <1>3, <1>4, <1>5, <1>6, <1>7, <1>8, <1>9, <1>10 DEF QuietReceives, QuietActivates

-----------------------------------------------------------------------------
(* The shape of the connections is kept.                                   *)

(* Without the types, which have been proved above.                        *)
ShapeRest ==
  /\ WorkersKeepTo /\ OneActivation /\ WorkedOnIsCreated /\ RegisteredRuns
  /\ SocketsAccepted /\ ClosedWhileCleaning

(* A quiet step preserves Shape.                                           *)
LEMMA QuietShape ==
  ASSUME RestTyped, ThreadsTyped, WorkersTyped, ShapeRest, NEW h \in Hosts, Quiet(h)
  PROVE  ShapeRest'
<1> USE DEF ShapeRest, Quiet, OthersStay, Registered
<1>1. WorkersKeepTo' /\ SocketsAccepted'
  BY DEF WorkersKeepTo, SocketsAccepted
<1>2. OneActivation'
  BY DEF OneActivation, Holding, MutexFree
<1>3. WorkedOnIsCreated' /\ RegisteredRuns'
  BY DEF WorkedOnIsCreated, Created, RegisteredRuns
<1>4. ClosedWhileCleaning'
  BY DEF ClosedWhileCleaning, CleaningUp, IsOpen
<1> QED BY <1>1, <1>2, <1>3, <1>4

(* The other steps of a receiving thread.                                  *)
LEMMA ReceivesShape ==
  ASSUME RestTyped, ThreadsTyped, WorkersTyped, ShapeRest, NEW h \in Hosts,
         \/ AliveCheckAnswered(h) \/ CloseReceived(h) \/ UnsetSocket(h)
         \/ UnsetSource(h) \/ EndReceiving(h) \/ SetSourceAddress(h) \/ SetRegistered(h)
  PROVE  ShapeRest'
<1> USE DEF ShapeRest, Registered
<1>1. ASSUME OthersStay(h), thread[h].at \notin {"none", "start"}, UNCHANGED <<worker, connections>>,
             thread'[h].at # "start",
             thread'[h].at = "none" => state'[h] # "registered",
             thread'[h].at \in HoldingPositions => Holding(h),
             \A d \in Hosts \ {h} : state'[d] = state[d]
      PROVE  WorkersKeepTo' /\ OneActivation' /\ WorkedOnIsCreated' /\ RegisteredRuns'
  <2>1. WorkersKeepTo'
    BY <1>1 DEF WorkersKeepTo
  <2>2. OneActivation'
    BY <1>1 DEF OneActivation, Holding, OthersStay
  <2>3. WorkedOnIsCreated' /\ RegisteredRuns'
    BY <1>1 DEF WorkedOnIsCreated, RegisteredRuns, Created, OthersStay
  <2> QED BY <2>1, <2>2, <2>3
<1>2. ASSUME OthersStay(h), UNCHANGED <<worker, descriptor, tcp_socket, taken_over>>,
             thread'[h].at \in {"unset", "source", "state"} => CleaningUp(h)
      PROVE  SocketsAccepted' /\ ClosedWhileCleaning'
  <2>1. SocketsAccepted'
    BY <1>2 DEF SocketsAccepted
  <2>2. ClosedWhileCleaning'
    BY <1>2 DEF ClosedWhileCleaning, CleaningUp, IsOpen, OthersStay
  <2> QED BY <2>1, <2>2
<1>3. CASE AliveCheckAnswered(h)
  <2>1. OthersStay(h) /\ thread'[h].at \in {"read", "close"}
    BY <1>3, GoFacts DEF AliveCheckAnswered
  <2>2. \A d \in Hosts \ {h} : state'[d] = state[d]
    BY <1>3 DEF AliveCheckAnswered, RestTyped
  <2> QED BY <1>1, <1>2, <1>3, <2>1, <2>2 DEF AliveCheckAnswered, HoldingPositions
<1>4. CASE CloseReceived(h)
  <2>1. OthersStay(h) /\ thread'[h].at = "unset"
    BY <1>4, GoFacts DEF CloseReceived
  <2>2. /\ \A s \in Sockets : descriptor'[s] = descriptor[s] \/ descriptor'[s] = "closed"
        /\ tcp_socket[h] # None => descriptor'[tcp_socket[h]] = "closed"
    BY <1>4 DEF CloseReceived, CloseSocket, RestTyped
  <2>3. UNCHANGED <<worker, connections, tcp_socket, state, taken_over>>
    BY <1>4 DEF CloseReceived
  <2>4. SocketsAccepted'
    BY <2>2, <2>3 DEF SocketsAccepted, RestTyped, WorkersTyped, WorkerFits, WorkerState
  <2>5. ClosedWhileCleaning'
    BY <2>1, <2>2, <2>3 DEF ClosedWhileCleaning, CleaningUp, IsOpen, OthersStay, RestTyped
  <2>6. thread[h].at = "close"
    BY <1>4 DEF CloseReceived
  <2> QED BY <1>1, <2>1, <2>3, <2>4, <2>5, <2>6 DEF HoldingPositions
<1>5. CASE UnsetSocket(h)
  <2>1. OthersStay(h) /\ thread'[h].at = "source"
    BY <1>5, GoOnFacts DEF UnsetSocket
  <2>2. tcp_socket'[h] = None /\ \A d \in Hosts \ {h} : tcp_socket'[d] = tcp_socket[d]
    BY <1>5 DEF UnsetSocket, RestTyped
  <2>3. UNCHANGED <<worker, connections, descriptor, state, taken_over>> /\ thread[h].at = "unset"
    BY <1>5 DEF UnsetSocket
  <2>4. SocketsAccepted'
    BY <2>2, <2>3 DEF SocketsAccepted
  <2>5. ClosedWhileCleaning'
    BY <2>1, <2>2, <2>3 DEF ClosedWhileCleaning, CleaningUp, IsOpen, OthersStay
  <2> QED BY <1>1, <2>1, <2>3, <2>4, <2>5 DEF HoldingPositions
<1>6. CASE UnsetSource(h)
  <2>1. OthersStay(h) /\ thread'[h].at = "state"
    BY <1>6, GoOnFacts DEF UnsetSource
  <2> QED BY <1>1, <1>2, <1>6, <2>1 DEF UnsetSource, HoldingPositions, CleaningUp
<1>7. CASE EndReceiving(h)
  <2>1. OthersStay(h) /\ thread'[h].at = "none"
    BY <1>7, GoFacts DEF EndReceiving
  <2>2. state'[h] = "listen" /\ \A d \in Hosts \ {h} : state'[d] = state[d]
    BY <1>7 DEF EndReceiving, RestTyped
  <2> QED BY <1>1, <1>2, <1>7, <2>1, <2>2 DEF EndReceiving, HoldingPositions
<1>8. CASE SetSourceAddress(h)
  <2>1. OthersStay(h) /\ thread'[h].at = "register"
    BY <1>8, GoFacts DEF SetSourceAddress
  <2> QED BY <1>1, <1>2, <1>8, <2>1 DEF SetSourceAddress, HoldingPositions, Holding
<1>9. CASE SetRegistered(h)
  <2>1. OthersStay(h) /\ thread'[h].at = "granted"
    BY <1>9, GoFacts DEF SetRegistered
  <2>2. \A d \in Hosts \ {h} : state'[d] = state[d]
    BY <1>9 DEF SetRegistered, RestTyped
  <2> QED BY <1>1, <1>2, <1>9, <2>1, <2>2 DEF SetRegistered, HoldingPositions
<1> QED BY <1>3, <1>4, <1>5, <1>6, <1>7, <1>8, <1>9

(* The steps of Cancel, whoever calls it.                                  *)
LEMMA CancelShape ==
  ASSUME RestTyped, ThreadsTyped, WorkersTyped, ShapeRest, NEW w \in Timers \cup {"accept"}, Cancel(w)
  PROVE  ShapeRest'
<1> USE DEF ShapeRest, Registered
<1> DEFINE h == worker[w].host
<1>0. /\ worker[w].at # "idle" /\ h \in Hosts /\ w \in Workers
      /\ UNCHANGED <<connections, thread, taken_over>>
  BY DEF WorkersTyped, WorkerFits, WorkerState, Cancel, CancelAliveCheck, CancelStopsAliveCheck, CancelSetsPromise, CancelSocket,
         CancelUnsetSocket, CancelSource, CancelState, history_vars
<1>1. ASSUME \A d \in Hosts : state'[d] = "registered" => Registered(d),
             WorkersStay(w), worker'[w].at # "idle" => worker'[w].host = h,
             w = "accept" => worker'[w].at # "idle"
      PROVE  OneActivation' /\ WorkedOnIsCreated' /\ RegisteredRuns'
  <2>1. OneActivation' /\ RegisteredRuns'
    BY <1>0, <1>1 DEF OneActivation, Holding, RegisteredRuns
  <2>2. WorkedOnIsCreated'
    BY <1>0, <1>1 DEF WorkedOnIsCreated, Created, WorkersStay
  <2> QED BY <2>1, <2>2
<1>2. ASSUME NEW at, WorkersStay(w), worker'[w].at = at, worker'[w].host = h,
             worker'[w].socket = worker[w].socket,
             \/ at \in {"stop", "promise", "close", "source", "unset", "state"}
             \/ at = "set_socket" /\ w = "accept"
             \/ at = "result" /\ w = "alive_check"
      PROVE  WorkersKeepTo'
  BY <1>0, <1>2 DEF WorkersKeepTo, WorkersStay, AcceptPositions, TimerPositions, Cancelling
<1>3. ASSUME UNCHANGED <<descriptor, tcp_socket>>, WorkersStay(w),
             \/ /\ worker'[w].host = h /\ worker'[w].socket = worker[w].socket
                /\ CleaningUp(h) \/ worker'[w].at \in {"stop", "promise", "close"}
             \/ worker'[w].at = "idle"
      PROVE  SocketsAccepted' /\ ClosedWhileCleaning'
  <2>1. SocketsAccepted'
    BY <1>0, <1>3 DEF SocketsAccepted, WorkersStay
  <2>2. ClosedWhileCleaning'
    BY <1>0, <1>3 DEF ClosedWhileCleaning, CleaningUp, IsOpen, WorkersStay
  <2> QED BY <2>1, <2>2
<1>4. CASE CancelAliveCheck(w) \/ CancelStopsAliveCheck(w) \/ CancelSetsPromise(w)
  <2>1. PICK at \in {"stop", "promise", "close"} :
          Move(w, at) /\ UNCHANGED <<state, descriptor, tcp_socket>>
    BY <1>4 DEF CancelAliveCheck, CancelStopsAliveCheck, CancelSetsPromise
  <2> QED BY <1>0, <1>1, <1>2, <1>3, <2>1, MoveFacts
<1>5. CASE CancelSocket(w)
  <2>1. PICK at \in {"source", "unset"} : Move(w, at) /\ (tcp_socket[h] # None => at = "unset")
    BY <1>5 DEF CancelSocket
  <2>2. /\ WorkersStay(w) /\ worker'[w].at = at
        /\ worker'[w].host = h /\ worker'[w].socket = worker[w].socket
    BY <1>0, <2>1, MoveFacts
  <2>3. /\ \A s \in Sockets : descriptor'[s] = descriptor[s] \/ descriptor'[s] = "closed"
        /\ tcp_socket[h] # None => descriptor'[tcp_socket[h]] = "closed"
    BY <1>0, <1>5 DEF CancelSocket, CloseSocket, RestTyped
  <2>4. UNCHANGED <<tcp_socket, state>>
    BY <1>5 DEF CancelSocket
  <2>5. SocketsAccepted'
    <3>1. /\ worker'["accept"].at # "idle" => worker["accept"].at # "idle"
          /\ worker'["accept"].host = worker["accept"].host
          /\ worker'["accept"].socket = worker["accept"].socket
      BY <1>0, <2>2 DEF WorkersStay
    <3>2. worker["accept"].at # "idle" => worker["accept"].socket \in Sockets
      BY DEF WorkersTyped, WorkerFits, WorkerState
    <3> QED BY <2>3, <2>4, <3>1, <3>2 DEF SocketsAccepted, RestTyped
  <2>6. ClosedWhileCleaning'
    BY <1>0, <2>2, <2>3, <2>4 DEF ClosedWhileCleaning, CleaningUp, IsOpen, WorkersStay, RestTyped
  <2> QED BY <1>1, <1>2, <2>2, <2>4, <2>5, <2>6
<1>6. CASE CancelUnsetSocket(w)
  <2>1. Move(w, "source") /\ UNCHANGED <<descriptor, state>>
    BY <1>6 DEF CancelUnsetSocket
  <2>2. /\ WorkersStay(w) /\ worker'[w].at = "source"
        /\ worker'[w].host = h /\ worker'[w].socket = worker[w].socket
    BY <1>0, <2>1, MoveFacts
  <2>3. tcp_socket'[h] = None /\ \A d \in Hosts \ {h} : tcp_socket'[d] = tcp_socket[d]
    BY <1>0, <1>6 DEF CancelUnsetSocket, RestTyped
  <2>4. SocketsAccepted'
    BY <1>0, <2>1, <2>2, <2>3 DEF SocketsAccepted, WorkersStay
  <2>5. ClosedWhileCleaning'
    BY <1>0, <2>1, <2>2, <2>3 DEF ClosedWhileCleaning, CleaningUp, IsOpen, WorkersStay
  <2> QED BY <1>1, <1>2, <2>1, <2>2, <2>4, <2>5
<1>7. CASE CancelSource(w)
  <2>1. Move(w, "state") /\ UNCHANGED <<state, descriptor, tcp_socket>> /\ worker[w].at = "source"
    BY <1>7 DEF CancelSource
  <2>2. CleaningUp(h)
    BY <2>1 DEF CleaningUp
  <2> QED BY <1>0, <1>1, <1>2, <1>3, <2>1, <2>2, MoveFacts
<1>8. CASE CancelState(w)
  <2>1. /\ UNCHANGED <<descriptor, tcp_socket>> /\ worker[w].at = "state"
        /\ \A d \in Hosts : state'[d] = "registered" => Registered(d)
    BY <1>0, <1>8 DEF CancelState, RestTyped
  <2>2. CleaningUp(h)
    BY <2>1 DEF CleaningUp
  <2>3. CASE w = "accept"
    <3>1. Move(w, "set_socket")
      BY <1>8, <2>3 DEF CancelState
    <3> QED BY <1>0, <1>1, <1>2, <1>3, <2>1, <2>2, <2>3, <3>1, MoveFacts
  <2>4. CASE w = "alive_check"
    <3>1. Move(w, "result")
      BY <1>8, <2>4 DEF CancelState
    <3> QED BY <1>0, <1>1, <1>2, <1>3, <2>1, <2>2, <2>4, <3>1, MoveFacts
  <2>5. CASE w \notin {"accept", "alive_check"}
    <3>1. worker' = [worker EXCEPT ![w] = Idle]
      BY <1>8, <2>5 DEF CancelState
    <3>2. WorkersStay(w) /\ worker'[w].at = "idle" /\ worker'[w] = Idle
      BY <1>0, <3>1, IdleFacts
    <3>3. WorkersKeepTo'
      BY <1>0, <2>5, <3>2 DEF WorkersKeepTo, WorkersStay, TimerPositions
    <3> QED BY <1>0, <1>1, <1>3, <2>1, <2>5, <3>2, <3>3
  <2> QED BY <2>3, <2>4, <2>5
<1> QED BY <1>4, <1>5, <1>6, <1>7, <1>8 DEF Cancel

(* Accepting, and what the timers and the sending thread do besides.       *)
LEMMA AcceptShape ==
  ASSUME RestTyped, ThreadsTyped, WorkersTyped, ShapeRest,
         AddTcpSocket \/ SpawnReceiver \/ \E s \in Sockets : Accept(s)
  PROVE  ShapeRest'
<1> USE DEF ShapeRest, Registered
<1> DEFINE w == worker["accept"]
<1>0. w.at # "idle" => w.host \in Hosts /\ w.socket \in Sockets
  BY DEF WorkersTyped, WorkerFits, WorkerState
<1>1. ASSUME NEW s \in Sockets, Accept(s)
      PROVE  ShapeRest'
  <2>1. UNCHANGED <<tcp_socket, state, thread, taken_over>> /\ w.at = "idle"
    BY <1>1 DEF Accept
  <2>2. Created \subseteq Created' /\ (worker' # worker => HostOf[s] \in Created')
    <3>1. CASE UNCHANGED connections
      BY <1>1, <3>1 DEF Accept, Created
    <3>2. CASE connections' = Append(connections, HostOf[s])
      <4>1. connections \in Seq(Hosts)
        BY DEF RestTyped
      <4>2. /\ Len(connections') = Len(connections) + 1
            /\ \A i \in 1 .. Len(connections) : connections'[i] = connections[i]
            /\ connections'[Len(connections) + 1] = HostOf[s]
        BY <3>2, <4>1
      <4>3. connections' \in Seq(Hosts)
        BY <3>2, <4>1
      <4> QED BY <4>1, <4>2, <4>3 DEF Created
    <3> QED BY <1>1, <3>1, <3>2 DEF Accept
  <2>3. /\ worker' = worker \/ worker' = [worker EXCEPT !["accept"] = [at |-> "alive", host |-> HostOf[s], socket |-> s]]
        /\ descriptor[s] = "new" /\ descriptor'[s] # "new"
        /\ \A d \in Sockets \ {s} : descriptor'[d] = descriptor[d]
    BY <1>1 DEF Accept, RestTyped
  <2>4. /\ WorkersStay("accept")
        /\ \/ worker'["accept"] = w
           \/ /\ worker'["accept"].at = "alive" /\ worker'["accept"].host = HostOf[s]
              /\ worker'["accept"].socket = s /\ worker' # worker
    BY <2>1, <2>3 DEF WorkersTyped, WorkersStay
  <2>5. WorkersKeepTo'
    BY <2>4 DEF WorkersKeepTo, WorkersStay, AcceptPositions, Cancelling
  <2>6. OneActivation' /\ RegisteredRuns'
    BY <2>1 DEF OneActivation, Holding, RegisteredRuns
  <2>7. WorkedOnIsCreated'
    BY <2>1, <2>2, <2>4 DEF WorkedOnIsCreated
  <2>8. SocketsAccepted'
    BY <2>1, <2>3, <2>4 DEF SocketsAccepted, RestTyped, WorkersTyped, WorkerFits, WorkerState
  <2>9. ClosedWhileCleaning'
    BY <2>1, <2>3, <2>4 DEF ClosedWhileCleaning, CleaningUp, IsOpen, WorkersStay, RestTyped, SocketsAccepted
  <2> QED BY <2>5, <2>6, <2>7, <2>8, <2>9
<1>2. CASE AddTcpSocket
  <2>1. /\ w.at = "set_socket" /\ UNCHANGED <<connections, descriptor, state, thread>>
        /\ WorkersStay("accept") /\ worker'["accept"].at = "join"
        /\ worker'["accept"].host = w.host /\ worker'["accept"].socket = w.socket
    BY <1>2, MoveFacts DEF AddTcpSocket
  <2>2. /\ tcp_socket'[w.host] = w.socket
        /\ \A d \in Hosts \ {w.host} : tcp_socket'[d] = tcp_socket[d]
        /\ InUse(w.host) => w.host \in taken_over'
        /\ taken_over \subseteq taken_over'
    BY <1>0, <1>2, <2>1 DEF AddTcpSocket, RestTyped
  <2>3. WorkersKeepTo' /\ OneActivation' /\ RegisteredRuns' /\ WorkedOnIsCreated'
    BY <2>1 DEF WorkersKeepTo, WorkersStay, AcceptPositions, OneActivation, Holding, RegisteredRuns,
                WorkedOnIsCreated, Created
  <2>4. SocketsAccepted'
    BY <1>0, <2>1, <2>2 DEF SocketsAccepted
  <2>5. ClosedWhileCleaning'
    BY <1>0, <2>1, <2>2 DEF ClosedWhileCleaning, CleaningUp, IsOpen, WorkersStay, InUse
  <2> QED BY <2>3, <2>4, <2>5
<1>3. CASE SpawnReceiver
  <2>1. /\ w.at = "join" /\ thread[w.host].at = "none"
        /\ UNCHANGED <<connections, descriptor, tcp_socket, taken_over>>
        /\ WorkersStay("accept") /\ worker'["accept"].at = "idle" /\ worker'["accept"] = Idle
        /\ worker'["accept"].host = None /\ worker'["accept"].socket = None
    BY <1>3, IdleFacts DEF SpawnReceiver
  <2>2. OthersStay(w.host) /\ thread'[w.host].at = "start"
    BY <1>0, <1>3, <2>1, GoFacts DEF SpawnReceiver
  <2>3. state'[w.host] = "initialized" /\ \A d \in Hosts \ {w.host} : state'[d] = state[d]
    BY <1>0, <1>3, <2>1 DEF SpawnReceiver, RestTyped
  <2>4. WorkersKeepTo' /\ OneActivation'
    BY <1>0, <2>1, <2>2 DEF WorkersKeepTo, WorkersStay, OthersStay, AcceptPositions, OneActivation,
                      Holding, HoldingPositions
  <2>5. RegisteredRuns' /\ WorkedOnIsCreated'
    BY <1>0, <2>1, <2>2, <2>3 DEF OthersStay, RegisteredRuns, WorkedOnIsCreated, Created
  <2>6. SocketsAccepted'
    BY <2>1 DEF SocketsAccepted
  <2>7. ClosedWhileCleaning'
    BY <1>0, <2>1, <2>2 DEF ClosedWhileCleaning, CleaningUp, IsOpen, WorkersStay, OthersStay
  <2> QED BY <2>4, <2>5, <2>6, <2>7
<1> QED BY <1>1, <1>2, <1>3

(* What the timers and the sending threads do besides Cancel preserves     *)
(* Shape.                                                                  *)
LEMMA TimersShape ==
  ASSUME RestTyped, ThreadsTyped, WorkersTyped, ShapeRest,
         \/ \E k \in Timers : Timeout(k) \/ \E h \in Hosts : Expires(k, h)
         \/ AliveCheckTimedOut \/ RestartGeneralInactivity
         \/ \E h \in Hosts : Transmit(h)
  PROVE  ShapeRest'
<1> USE DEF ShapeRest, Registered
<1>1. ASSUME NEW w \in Timers \cup {"transmit"}, WorkersStay(w),
             UNCHANGED <<connections, descriptor, tcp_socket, thread, taken_over>>,
             \A d \in Hosts : state'[d] = "registered" => Registered(d),
             \/ worker'[w].at = "idle" /\ worker'[w] = Idle
             \/ w \in Timers /\ worker'[w].at \in {"finalize", "alive"}
             \/ w = "transmit" /\ worker'[w].at = "restart"
      PROVE  ShapeRest'
  <2>1. WorkersKeepTo'
    BY <1>1 DEF WorkersKeepTo, WorkersStay, TimerPositions, TransmitPositions, Cancelling
  <2>2. OneActivation' /\ RegisteredRuns' /\ WorkedOnIsCreated' /\ SocketsAccepted'
    BY <1>1 DEF OneActivation, Holding, RegisteredRuns, WorkedOnIsCreated, Created, SocketsAccepted, WorkersStay
  <2>3. ClosedWhileCleaning'
    BY <1>1 DEF ClosedWhileCleaning, CleaningUp, IsOpen, WorkersStay
  <2> QED BY <2>1, <2>2, <2>3
<1>2. ASSUME NEW k \in Timers, Timeout(k)
      PROVE  ShapeRest'
  <2>1. WorkersStay(k) /\ worker'[k].at = "alive"
    BY <1>2, MoveFacts DEF Timeout
  <2>2. \A d \in Hosts : state'[d] = "registered" => Registered(d)
    BY <1>2 DEF Timeout, RestTyped
  <2> QED BY <1>1, <1>2, <2>1, <2>2 DEF Timeout
<1>4. ASSUME NEW k \in Timers, NEW h \in Hosts, Expires(k, h)
      PROVE  ShapeRest'
  <2>1. WorkersStay(k) /\ worker'[k].at = "finalize"
    BY <1>4, BusyFacts DEF Expires
  <2>2. UNCHANGED <<connections, descriptor, tcp_socket, state, thread, taken_over>>
    BY <1>4 DEF Expires
  <2> QED BY <1>1, <2>1, <2>2
<1>5. ASSUME NEW h \in Hosts, Transmit(h)
      PROVE  ShapeRest'
  <2>0. worker' = [worker EXCEPT !["transmit"] = [Idle EXCEPT !.at = "restart", !.host = h]]
    BY <1>5 DEF Transmit
  <2>1. WorkersStay("transmit") /\ worker'["transmit"].at = "restart"
    BY <2>0, BusyFacts
  <2>2. UNCHANGED <<connections, descriptor, tcp_socket, state, thread, taken_over>>
    BY <1>5 DEF Transmit
  <2> QED BY <1>1, <2>1, <2>2
<1>6. CASE AliveCheckTimedOut \/ RestartGeneralInactivity
  BY <1>1, <1>6, IdleFacts DEF AliveCheckTimedOut, RestartGeneralInactivity
<1> QED BY <1>2, <1>4, <1>5, <1>6

(* Shape is inductive.                                                     *)
LEMMA ShapeStep == Shape /\ [Next]_vars => Shape'
<1> SUFFICES ASSUME Shape, [Next]_vars PROVE Shape'
  OBVIOUS
<1>1. TypeOK'
  BY NextTyped DEF Shape
<1>2. RestTyped /\ ThreadsTyped /\ WorkersTyped /\ ShapeRest
  BY TypeParts DEF Shape, ShapeRest
<1>3. CASE UNCHANGED vars
  <2> USE <1>3 DEF vars
  <2>1. WorkersKeepTo' /\ OneActivation' /\ WorkedOnIsCreated' /\ RegisteredRuns'
    BY <1>2 DEF ShapeRest, WorkersKeepTo, OneActivation, Holding, WorkedOnIsCreated, Created,
                RegisteredRuns, Registered
  <2>2. SocketsAccepted' /\ ClosedWhileCleaning'
    BY <1>2 DEF ShapeRest, SocketsAccepted, ClosedWhileCleaning, CleaningUp, IsOpen
  <2> QED BY <1>1, <2>1, <2>2 DEF Shape
<1>4. CASE Next
  <2>1. ShapeRest'
    BY <1>2, <1>4, QuietStep, QuietShape, ReceivesShape, CancelShape, AcceptShape, TimersShape
    DEF Next, Accepts, TimesOut, Receives, Activates, QuietReceives, QuietActivates
  <2> QED BY <1>1, <2>1 DEF Shape, ShapeRest
<1> QED BY <1>3, <1>4

(* Shape holds initially.                                                  *)
LEMMA InitShape == Init => Shape
<1> SUFFICES ASSUME Init PROVE Shape
  OBVIOUS
<1> USE DEF Init
<1>1. /\ \A h \in Hosts : thread[h].at = "none" /\ state[h] = "listen" /\ tcp_socket[h] = None
      /\ \A w \in Workers : worker[w].at = "idle" /\ worker[w].socket = None
  BY DEF Ended, Idle
<1>0. (\A h \in Hosts : thread[h] = Ended) /\ \A w \in Workers : worker[w] = Idle
  OBVIOUS
<1>2. RestTyped
  <2>1. << >> \in Seq(Hosts) /\ {} \in SUBSET Hosts
    OBVIOUS
  <2>2. connections \in Seq(Hosts) /\ timer \in [Timers -> SUBSET Hosts]
    BY <2>1
  <2>3. /\ received \in 0 .. MaxMessages /\ crossed \subseteq Sockets
        /\ taken_over \subseteq Hosts /\ doubtful \subseteq Hosts
    OBVIOUS
  <2>4. /\ descriptor \in [Sockets -> {"new", "open", "closed", "refused"}]
        /\ tcp_socket \in [Hosts -> OptionalSocket] /\ source_addr \in [Hosts -> OptionalAddress]
        /\ state \in [Hosts -> States] /\ promise \in [Hosts -> {"unset", "true", "false"}]
    OBVIOUS
  <2>5. overlapped \in BOOLEAN /\ terminated \in BOOLEAN
    OBVIOUS
  <2> HIDE DEF Init
  <2> QED BY <2>2, <2>3, <2>4, <2>5 DEF RestTyped
<1>3. ThreadsTyped
  <2>1. Ended \in ThreadState
    BY DEF Ended, ThreadState, ThreadPositions
  <2>2. ThreadFits(Ended)
    BY <2>1 DEF Ended, ThreadFits, HoldingPositions
  <2> QED BY <2>1, <2>2 DEF ThreadsTyped
<1>4. WorkersTyped
  <2>1. \A w \in Workers : Idle \in WorkerState /\ WorkerFits(w, Idle)
    BY DEF Idle, WorkerState, WorkerFits, AcceptPositions
  <2> QED BY <2>1 DEF WorkersTyped
<1>5. WorkersKeepTo /\ OneActivation /\ WorkedOnIsCreated /\ RegisteredRuns
  BY <1>0, <1>1 DEF WorkersKeepTo, AcceptPositions, TimerPositions, TransmitPositions, OneActivation,
              Holding, HoldingPositions, WorkedOnIsCreated, RegisteredRuns, Registered
<1>6. SocketsAccepted /\ ClosedWhileCleaning
  BY <1>0, <1>1 DEF SocketsAccepted, ClosedWhileCleaning, CleaningUp
<1> QED BY <1>2, <1>3, <1>4, <1>5, <1>6, TypeParts DEF Shape

(* Who holds mutex_, which connections exist, and which sockets are        *)
(* closed while a connection is cleaned up: Shape, in every reachable      *)
(* state.                                                                  *)
THEOREM ShapeInvariant == Spec => []Shape
BY InitShape, ShapeStep, PTL DEF Spec

(* Types: every connection, thread and worker is in one of its states.     *)
THEOREM TypeCorrect == Spec => []TypeOK
<1>1. Shape => TypeOK
  BY DEF Shape
<1> QED BY <1>1, ShapeInvariant, PTL

-----------------------------------------------------------------------------
(* What an activation, and what everyone else, can do to a connection that *)
(* is in use.                                                              *)

(* A step of an activation changes nothing of another connection, and of   *)
(* its own only the address and the state it registers.                    *)
LEMMA ActivatesFacts ==
  ASSUME Shape, NEW h \in Hosts, Activates(h)
  PROVE  /\ UNCHANGED <<connections, descriptor, tcp_socket, worker, taken_over>>
         /\ OthersStay(h) /\ thread[h].at \in {"lock"} \cup HoldingPositions
         /\ \A d \in Hosts \ {h} : /\ state'[d] = state[d] /\ source_addr'[d] = source_addr[d]
                                   /\ d \in doubtful' <=> d \in doubtful
         /\ SetRegistered(h) \/ UNCHANGED state
         /\ SetSourceAddress(h) \/ UNCHANGED source_addr
<1>t. RestTyped /\ ThreadsTyped /\ WorkersTyped
  BY TypeParts DEF Shape
<1>1. CASE QuietActivates(h)
  <2>1. Quiet(h)
    BY <1>t, <1>1, QuietStep
  <2>2. thread[h].at \in {"lock"} \cup HoldingPositions
    BY <1>1 DEF HoldingPositions, QuietActivates, ConnectionRoutingActivation, SelectRegistered,
       PerformAliveCheck, SendAliveCheckRequest, AliveCheckResult
  <2>3. \A d \in Hosts \ {h} : d \in doubtful' <=> d \in doubtful
    BY <1>1 DEF QuietActivates, ConnectionRoutingActivation, SelectRegistered,
       PerformAliveCheck, SendAliveCheckRequest, AliveCheckResult
  <2> QED BY <2>1, <2>2, <2>3 DEF Quiet
<1>2. CASE SetSourceAddress(h)
  <2>1. OthersStay(h)
    BY <1>t, <1>2, GoFacts DEF SetSourceAddress
  <2>2. \A d \in Hosts \ {h} : source_addr'[d] = source_addr[d]
    BY <1>t, <1>2 DEF SetSourceAddress, RestTyped
  <2> QED BY <1>2, <2>1, <2>2 DEF SetSourceAddress, HoldingPositions
<1>3. CASE SetRegistered(h)
  <2>1. OthersStay(h)
    BY <1>t, <1>3, GoFacts DEF SetRegistered
  <2>2. \A d \in Hosts \ {h} : state'[d] = state[d]
    BY <1>t, <1>3 DEF SetRegistered, RestTyped
  <2> QED BY <1>3, <2>1, <2>2 DEF SetRegistered, HoldingPositions
<1> QED BY <1>1, <1>2, <1>3 DEF Activates, QuietActivates

(* An activation makes no other connection usable, and no doomed one safe. *)
LEMMA ActivatesOthers ==
  ASSUME Shape, NEW h \in Hosts, Activates(h)
  PROVE  /\ \A d \in Hosts \ {h} : /\ Trusted(d)' <=> Trusted(d)
                                   /\ Usable(d)' <=> Usable(d)
         /\ Doomed(h) => Doomed(h)'
         /\ Others(h)' = Others(h)
<1>1. \A d \in Hosts \ {h} : (Trusted(d)' <=> Trusted(d)) /\ (Usable(d)' <=> Usable(d))
  BY ActivatesFacts DEF Trusted, Usable, Registered, IsOpen, Closing, OthersStay
<1>2. Doomed(h) => Doomed(h)'
  BY ActivatesFacts DEF Doomed, IsOpen, Closing, HoldingPositions
<1> QED BY <1>1, <1>2 DEF Others

Background == Next /\ \A h \in Hosts : ~Activates(h)

(* While nobody is activating, no connection becomes registered or usable, *)
(* and a usable one keeps its address.                                     *)
KeepsTo(d) ==
  /\ d \in taken_over => d \in taken_over'
  /\ d \in doubtful' <=> d \in doubtful
  /\ Registered(d)' => Registered(d)
  /\ d \notin taken_over' /\ thread[d].at # "none" /\ ~Doomed(d)' =>
       ~Doomed(d) /\ source_addr'[d] = source_addr[d]

(* Every other step keeps to that.                                         *)
LEMMA BackgroundKeeps ==
  ASSUME Shape, Background, NEW d \in Hosts
  PROVE  KeepsTo(d)
<1>t. RestTyped /\ ThreadsTyped /\ WorkersTyped
  BY TypeParts DEF Shape
<1>1. ASSUME UNCHANGED <<descriptor, tcp_socket, source_addr, worker, taken_over, doubtful>>,
             Registered(d)' => Registered(d),
             NEW h \in Hosts, OthersStay(h), thread[h].at # "close"
      PROVE  KeepsTo(d)
  BY <1>1 DEF KeepsTo, Doomed, IsOpen, Closing, OthersStay
<1>2. ASSUME UNCHANGED <<descriptor, tcp_socket, thread, taken_over, doubtful>>,
             Registered(d)' => Registered(d),
             NEW w \in Workers, WorkersStay(w),
             worker[w].at \in ClosingPositions =>
               worker'[w].at \in ClosingPositions /\ worker'[w].host = worker[w].host,
             ~Doomed(d)' /\ d \notin taken_over => source_addr'[d] = source_addr[d]
      PROVE  KeepsTo(d)
  <2>1. Doomed(d) => Doomed(d)'
    BY <1>2 DEF Doomed, IsOpen, Closing, WorkersStay
  <2> QED BY <1>2, <2>1 DEF KeepsTo
<1>3. ASSUME NEW h \in Hosts, QuietReceives(h) \/ Arrives(h)
      PROVE  KeepsTo(d)
  <2>1. Quiet(h)
    BY <1>t, <1>3, QuietStep
  <2>2. thread[h].at # "close" /\ UNCHANGED doubtful
    BY <1>3 DEF QuietReceives, StartReceiving, SocketRead, SocketReadFails, AnswerActivation,
       Arrives, TesterCloses, ReceiveOther, Receive, ReceiveDiagnosticMessage,
       ReceiveAliveCheckResponse, ReceiveRoutingActivationRequest, history_vars
  <2> QED BY <1>1, <2>1, <2>2 DEF Quiet, Registered
<1>4. ASSUME NEW h \in Hosts, AliveCheckAnswered(h)
      PROVE  KeepsTo(d)
  <2>1. OthersStay(h) /\ thread[h].at # "close"
    BY <1>t, <1>4, GoFacts DEF AliveCheckAnswered
  <2>2. Registered(d)' => Registered(d)
    BY <1>t, <1>4 DEF AliveCheckAnswered, Registered, RestTyped
  <2> QED BY <1>1, <1>4, <2>1, <2>2 DEF AliveCheckAnswered
<1>5. ASSUME NEW h \in Hosts, CloseReceived(h)
      PROVE  KeepsTo(d)
  <2>1. OthersStay(h)
    BY <1>t, <1>5, GoFacts DEF CloseReceived
  <2>2. /\ \A s \in Sockets : descriptor'[s] = "open" => descriptor[s] = "open"
        /\ tcp_socket[h] # None => descriptor'[tcp_socket[h]] = "closed"
    BY <1>t, <1>5 DEF CloseReceived, CloseSocket, RestTyped
  <2>3. UNCHANGED <<tcp_socket, worker>>
    BY <1>5 DEF CloseReceived
  <2>4. d = h => Doomed(d)'
    BY <2>2, <2>3 DEF Doomed, IsOpen
  <2>5. d # h /\ Doomed(d) => Doomed(d)'
    BY <1>t, <2>1, <2>2, <2>3 DEF Doomed, IsOpen, Closing, OthersStay, RestTyped
  <2> QED BY <1>5, <2>4, <2>5 DEF CloseReceived, KeepsTo, Registered
<1>6. ASSUME NEW h \in Hosts, UnsetSocket(h)
      PROVE  KeepsTo(d)
  <2>1. OthersStay(h) /\ thread[h].at # "close"
    BY <1>t, <1>6, GoOnFacts DEF UnsetSocket
  <2>2. tcp_socket'[h] = None /\ \A c \in Hosts \ {h} : tcp_socket'[c] = tcp_socket[c]
    BY <1>t, <1>6 DEF UnsetSocket, RestTyped
  <2>3. Doomed(d) => Doomed(d)'
    BY <1>6, <2>1, <2>2 DEF UnsetSocket, Doomed, IsOpen, Closing, OthersStay
  <2> QED BY <1>6, <2>3 DEF UnsetSocket, KeepsTo, Registered
<1>7. ASSUME NEW h \in Hosts, UnsetSource(h)
      PROVE  KeepsTo(d)
  <2>1. OthersStay(h) /\ thread[h].at = "source"
    BY <1>t, <1>7, GoOnFacts DEF UnsetSource
  <2>2. \A c \in Hosts \ {h} : source_addr'[c] = source_addr[c]
    BY <1>t, <1>7 DEF UnsetSource, RestTyped
  <2>3. d = h => Doomed(d)' \/ d \in taken_over
    <3>1. d = h => CleaningUp(d) /\ UNCHANGED <<descriptor, tcp_socket, taken_over>>
      BY <1>7, <2>1 DEF UnsetSource, CleaningUp
    <3> QED BY <3>1 DEF Shape, ClosedWhileCleaning, Doomed, IsOpen
  <2>4. Doomed(d) => Doomed(d)'
    BY <1>7, <2>1 DEF UnsetSource, Doomed, IsOpen, Closing, OthersStay
  <2> QED BY <1>7, <2>2, <2>3, <2>4 DEF UnsetSource, KeepsTo, Registered
<1>8. ASSUME NEW h \in Hosts, EndReceiving(h)
      PROVE  KeepsTo(d)
  <2>1. OthersStay(h) /\ thread[h].at # "close"
    BY <1>t, <1>8, GoFacts DEF EndReceiving
  <2>2. Registered(d)' => Registered(d)
    BY <1>t, <1>8 DEF EndReceiving, Registered, RestTyped
  <2> QED BY <1>1, <1>8, <2>1, <2>2 DEF EndReceiving
<1>9. ASSUME NEW w \in Timers \cup {"accept"}, Cancel(w)
      PROVE  KeepsTo(d)
  <2> DEFINE h == worker[w].host
  <2>0. h \in Hosts /\ w \in Workers
    BY <1>t, <1>9 DEF WorkersTyped, WorkerFits, WorkerState, Cancel, CancelAliveCheck, CancelStopsAliveCheck, CancelSetsPromise, CancelSocket,
       CancelUnsetSocket, CancelSource, CancelState
  <2>1. CASE CancelAliveCheck(w) \/ CancelStopsAliveCheck(w) \/ CancelSetsPromise(w)
    <3>1. PICK at \in {"stop", "promise", "close"} : Move(w, at)
      BY <2>1 DEF CancelAliveCheck, CancelStopsAliveCheck, CancelSetsPromise
    <3>2. WorkersStay(w) /\ worker'[w].at = at /\ worker'[w].host = h
      BY <1>t, <2>0, <3>1, MoveFacts
    <3>3. UNCHANGED <<descriptor, tcp_socket, thread, taken_over, doubtful, state, source_addr>>
      BY <2>1 DEF CancelAliveCheck, CancelStopsAliveCheck, CancelSetsPromise
    <3> QED BY <1>2, <2>0, <3>2, <3>3 DEF Registered
  <2>2. CASE CancelSocket(w)
    <3>1. WorkersStay(w)
      BY <1>t, <2>0, <2>2, MoveFacts DEF CancelSocket
    <3>2. /\ \A s \in Sockets : descriptor'[s] = "open" => descriptor[s] = "open"
          /\ tcp_socket[h] # None => descriptor'[tcp_socket[h]] = "closed"
      BY <1>t, <2>0, <2>2 DEF CancelSocket, CloseSocket, RestTyped
    <3>3. Doomed(d) => Doomed(d)'
      BY <1>t, <2>0, <2>2, <3>1, <3>2 DEF CancelSocket, Doomed, IsOpen, Closing, WorkersStay, RestTyped
    <3> QED BY <2>2, <3>3 DEF CancelSocket, KeepsTo, Registered
  <2>3. CASE CancelUnsetSocket(w)
    <3>1. WorkersStay(w) /\ worker[w].at = "unset"
      BY <1>t, <2>0, <2>3, MoveFacts DEF CancelUnsetSocket
    <3>2. tcp_socket'[h] = None /\ \A c \in Hosts \ {h} : tcp_socket'[c] = tcp_socket[c]
      BY <1>t, <2>0, <2>3 DEF CancelUnsetSocket, RestTyped
    <3>3. Doomed(d) => Doomed(d)'
      BY <2>3, <3>1, <3>2 DEF CancelUnsetSocket, Doomed, IsOpen, Closing, WorkersStay
    <3> QED BY <2>3, <3>3 DEF CancelUnsetSocket, KeepsTo, Registered
  <2>4. CASE CancelSource(w)
    <3>1. WorkersStay(w) /\ worker[w].at = "source" /\ CleaningUp(h)
      BY <1>t, <2>0, <1>9, <2>4, MoveFacts DEF CancelSource, CleaningUp
    <3>2. \A c \in Hosts \ {h} : source_addr'[c] = source_addr[c]
      BY <1>t, <2>0, <2>4 DEF CancelSource, RestTyped
    <3>3. ~Doomed(d)' /\ d \notin taken_over => d # h
      BY <2>0, <2>4, <3>1 DEF CancelSource, Shape, ClosedWhileCleaning, Doomed, IsOpen
    <3> QED BY <1>2, <2>0, <2>4, <3>1, <3>2, <3>3 DEF CancelSource, Registered
  <2>5. CASE CancelState(w)
    <3>1. WorkersStay(w) /\ worker[w].at = "state"
      BY <1>t, <2>0, <2>5, MoveFacts, IdleFacts DEF CancelState
    <3>2. Registered(d)' => Registered(d)
      BY <1>t, <2>0, <2>5 DEF CancelState, Registered, RestTyped
    <3> QED BY <1>2, <2>0, <2>5, <3>1, <3>2 DEF CancelState
  <2> QED BY <1>9, <2>1, <2>2, <2>3, <2>4, <2>5 DEF Cancel
<1>10. ASSUME NEW s \in Sockets, Accept(s)
       PROVE  KeepsTo(d)
  <2>1. WorkersStay("accept") /\ worker["accept"].at = "idle"
    BY <1>t, <1>10 DEF Accept, WorkersTyped, WorkersStay
  <2>2. /\ descriptor[s] = "new" /\ \A c \in Sockets \ {s} : descriptor'[c] = descriptor[c]
        /\ UNCHANGED <<tcp_socket, thread>>
    BY <1>t, <1>10 DEF Accept, RestTyped
  <2>3. tcp_socket[d] # None => descriptor[tcp_socket[d]] # "new" /\ tcp_socket[d] \in Sockets
    BY <1>t DEF Shape, SocketsAccepted, RestTyped
  <2>4. Doomed(d) => Doomed(d)'
    <3>1. IsOpen(tcp_socket[d])' => IsOpen(tcp_socket[d])
      BY <2>2, <2>3 DEF IsOpen
    <3>2. Closing(d) => Closing(d)'
      BY <2>1, <2>2 DEF Closing, WorkersStay
    <3> QED BY <3>1, <3>2 DEF Doomed
  <2> QED BY <1>10, <2>4 DEF Accept, KeepsTo, Registered
<1>11. CASE AddTcpSocket
  <2> DEFINE h == worker["accept"].host
  <2>1. /\ WorkersStay("accept") /\ worker["accept"].at = "set_socket" /\ UNCHANGED <<descriptor, thread>>
        /\ h \in Hosts
    BY <1>t, <1>11, MoveFacts DEF AddTcpSocket, WorkersTyped, WorkerFits, WorkerState
  <2>2. /\ \A c \in Hosts \ {h} : tcp_socket'[c] = tcp_socket[c]
        /\ thread[h].at # "none" => h \in taken_over'
        /\ taken_over \subseteq taken_over'
    BY <1>t, <1>11, <2>1 DEF AddTcpSocket, RestTyped, InUse
  <2>3. d = h => thread[d].at = "none" \/ d \in taken_over'
    BY <2>2
  <2>4. d # h /\ Doomed(d) => Doomed(d)'
    BY <2>1, <2>2 DEF Doomed, IsOpen, Closing, WorkersStay
  <2> QED BY <1>11, <2>2, <2>3, <2>4 DEF AddTcpSocket, KeepsTo, Registered
<1>12. CASE SpawnReceiver
  <2> DEFINE h == worker["accept"].host
  <2>1. /\ WorkersStay("accept") /\ worker["accept"].at = "join" /\ h \in Hosts
        /\ OthersStay(h) /\ thread[h].at = "none"
        /\ UNCHANGED <<descriptor, tcp_socket, source_addr, taken_over, doubtful>>
    BY <1>t, <1>12, IdleFacts, GoFacts DEF SpawnReceiver, WorkersTyped, WorkerFits, WorkerState
  <2>2. Registered(d)' => Registered(d)
    BY <1>t, <1>12, <2>1 DEF SpawnReceiver, Registered, RestTyped
  <2>3. Doomed(d) => Doomed(d)'
    BY <2>1 DEF Doomed, IsOpen, Closing, WorkersStay, OthersStay
  <2> QED BY <2>1, <2>2, <2>3 DEF KeepsTo
<1>13. ASSUME NEW k \in Timers, Timeout(k)
       PROVE  KeepsTo(d)
  <2>1. WorkersStay(k) /\ worker'[k].at = "alive" /\ worker'[k].host = worker[k].host
    BY <1>t, <1>13, MoveFacts DEF Timeout
  <2>2. Registered(d)' => Registered(d)
    BY <1>t, <1>13 DEF Timeout, Registered, RestTyped
  <2> QED BY <1>2, <1>13, <2>1, <2>2 DEF Timeout
<1>14. ASSUME NEW k \in Timers, NEW h \in Hosts, Expires(k, h)
       PROVE  KeepsTo(d)
  <2>1. WorkersStay(k) /\ worker[k].at = "idle"
    BY <1>t, <1>14 DEF Expires, WorkersTyped, WorkersStay
  <2> QED BY <1>2, <1>14, <2>1 DEF Expires, Registered
<1>15. CASE AliveCheckTimedOut
  <2>1. WorkersStay("alive_check") /\ worker["alive_check"].at = "result"
    BY <1>t, <1>15, IdleFacts DEF AliveCheckTimedOut
  <2> QED BY <1>2, <1>15, <2>1 DEF AliveCheckTimedOut, Registered
<1>16. ASSUME RestartGeneralInactivity \/ \E h \in Hosts : Transmit(h)
       PROVE  KeepsTo(d)
  <2>1. WorkersStay("transmit") /\ worker["transmit"].at \in {"restart", "idle"}
    BY <1>t, <1>16 DEF RestartGeneralInactivity, Transmit, WorkersTyped, WorkersStay
  <2> QED BY <1>2, <1>16, <2>1 DEF RestartGeneralInactivity, Transmit, Registered
<1> QED
  BY <1>3, <1>4, <1>5, <1>6, <1>7, <1>8, <1>9, <1>10, <1>11, <1>12, <1>13, <1>14, <1>15, <1>16
  DEF Background, Next, Accepts, TimesOut, Receives, QuietReceives

-----------------------------------------------------------------------------
(* Nobody waits for an answer that nobody will give.                       *)

Coming(c) ==
  \/ promise[c] # "unset"
  \/ c \in timer["alive_check"] \/ worker["alive_check"].host = c
  \/ thread[c].at = "answered"
  \/ \E w \in Workers : worker[w].host = c /\ worker[w].at = "promise"

(* A step that neither asks c, nor decides its check, leaves it decided by *)
(* whoever was to decide it.                                               *)
Undecided(c) ==
  /\ promise'[c] = promise[c]
  /\ c \in timer["alive_check"] => c \in timer'["alive_check"]
  /\ worker["alive_check"].host = c => worker'["alive_check"].host = c
  /\ thread[c].at = "answered" => thread'[c].at = "answered"
  /\ \A w \in Workers : worker[w].host = c /\ worker[w].at = "promise" =>
       worker'[w].host = c /\ worker'[w].at = "promise"

Asks(h) == SendAliveCheckRequest(h)

(* A step that asks nobody leaves an answer coming that was.               *)
LEMMA ComingKept ==
  ASSUME Shape, Next, NEW c \in Hosts, Coming(c), \A h \in Hosts : ~Asks(h)
  PROVE  Coming(c)' \/ terminated'
<1>t. RestTyped /\ ThreadsTyped /\ WorkersTyped
  BY TypeParts DEF Shape
<1> DEFINE Done == Coming(c)' \/ terminated'
<1>1. Undecided(c) => Done
  BY DEF Undecided, Coming
<1>2. ASSUME UNCHANGED <<promise, worker>>, NEW h \in Hosts, OthersStay(h), thread[h].at # "answered",
             timer'["alive_check"] = timer["alive_check"]
      PROVE  Done
  BY <1>1, <1>2 DEF Undecided, OthersStay
<1>3. ASSUME UNCHANGED <<promise, thread>>, timer'["alive_check"] = timer["alive_check"],
             worker'["alive_check"].host = worker["alive_check"].host,
             NEW w \in Workers, WorkersStay(w), worker[w].at # "promise"
      PROVE  Done
  BY <1>1, <1>3 DEF Undecided, WorkersStay
<1>4. ASSUME NEW h \in Hosts, QuietReceives(h) \/ QuietActivates(h) \/ Arrives(h)
      PROVE  Done
  <2>1. OthersStay(h) /\ UNCHANGED worker
    BY <1>t, <1>4, QuietStep DEF Quiet
  <2>2. CASE QuietReceives(h) \/ QuietActivates(h)
    <3>1. timer'["alive_check"] = timer["alive_check"] /\ UNCHANGED promise /\ thread[h].at # "answered"
      BY <1>t, <2>2 DEF QuietReceives, StartReceiving, SocketRead, SocketReadFails, AnswerActivation,
         QuietActivates, ConnectionRoutingActivation, SelectRegistered, PerformAliveCheck, Asks,
         AliveCheckResult, Restarted, RestTyped
    <3> QED BY <1>2, <2>1, <3>1
  <2>3. CASE Arrives(h)
    <3>1. AfterRead(h)["alive_check"] = timer["alive_check"] /\ AfterRead(h) \in [Timers -> SUBSET Hosts]
      BY <1>t DEF AfterRead, Restarted, RestTyped
    <3>2. timer'["alive_check"] = timer["alive_check"] /\ UNCHANGED promise /\ thread[h].at # "answered"
      BY <2>3, <3>1 DEF Arrives, TesterCloses, ReceiveOther, ReceiveDiagnosticMessage,
         ReceiveAliveCheckResponse, ReceiveRoutingActivationRequest, Receive
    <3> QED BY <1>2, <2>1, <3>2
  <2> QED BY <1>4, <2>2, <2>3
<1>5. ASSUME NEW h \in Hosts, AliveCheckAnswered(h)
      PROVE  Done
  <2>1. /\ OthersStay(h) /\ UNCHANGED worker
        /\ \A d \in Hosts \ {h} : d \in timer["alive_check"] => d \in timer'["alive_check"]
    BY <1>t, <1>5, GoFacts DEF AliveCheckAnswered, Stopped, RestTyped
  <2>2. /\ \A d \in Hosts \ {h} : promise'[d] = promise[d]
        /\ promise'[h] # "unset" \/ terminated'
    BY <1>t, <1>5 DEF AliveCheckAnswered, SetAliveCheckResult, RestTyped
  <2> QED BY <1>1, <2>1, <2>2 DEF Undecided, OthersStay, Coming
<1>6. ASSUME NEW h \in Hosts,
             \/ CloseReceived(h) \/ UnsetSocket(h) \/ UnsetSource(h) \/ EndReceiving(h)
             \/ SetSourceAddress(h) \/ SetRegistered(h)
      PROVE  Done
  <2>1. OthersStay(h)
    BY <1>t, <1>6, GoFacts, GoOnFacts DEF CloseReceived, UnsetSocket, UnsetSource, EndReceiving,
       SetSourceAddress, SetRegistered
  <2>2. /\ timer'["alive_check"] = timer["alive_check"] /\ UNCHANGED <<promise, worker>>
        /\ thread[h].at # "answered"
    BY <1>6 DEF CloseReceived, UnsetSocket, UnsetSource, EndReceiving, SetSourceAddress,
       SetRegistered, InactivityStopped
  <2> QED BY <1>2, <2>1, <2>2
<1>7. ASSUME NEW w \in Timers \cup {"accept"}, Cancel(w)
      PROVE  Done
  <2> DEFINE h == worker[w].host
  <2>1. worker[w].at # "idle" /\ h \in Hosts /\ w \in Workers /\ UNCHANGED thread
    BY <1>t, <1>7 DEF WorkersTyped, WorkerFits, WorkerState, Cancel, CancelAliveCheck, CancelStopsAliveCheck, CancelSetsPromise, CancelSocket,
       CancelUnsetSocket, CancelSource, CancelState
  <2>2. worker'["alive_check"].host = worker["alive_check"].host
    <3>1. ASSUME NEW at, Move(w, at)
          PROVE  worker'["alive_check"].host = worker["alive_check"].host
      BY <1>t, <2>1, <3>1, MoveFacts DEF WorkersStay
    <3>2. ASSUME w # "alive_check", worker' = [worker EXCEPT ![w] = Idle]
          PROVE  worker'["alive_check"].host = worker["alive_check"].host
      BY <1>t, <2>1, <3>2, IdleFacts DEF WorkersStay
    <3> QED BY <1>7, <3>1, <3>2 DEF Cancel, CancelAliveCheck, CancelStopsAliveCheck, CancelSetsPromise, CancelSocket, CancelUnsetSocket,
               CancelSource, CancelState
  <2>3. WorkersStay(w)
    <3>1. \/ \E at : Move(w, at)
          \/ worker' = [worker EXCEPT ![w] = Idle]
      BY <1>7 DEF Cancel, CancelAliveCheck, CancelStopsAliveCheck, CancelSetsPromise, CancelSocket,
         CancelUnsetSocket, CancelSource, CancelState
    <3> QED BY <1>t, <2>1, <3>1, MoveFacts, IdleFacts
  <2>4. CASE CancelStopsAliveCheck(w)
    <3>1. /\ worker'[w].host = h /\ worker'[w].at = "promise" /\ UNCHANGED promise
          /\ \A d \in Hosts \ {h} : d \in timer["alive_check"] => d \in timer'["alive_check"]
      BY <1>t, <2>1, <2>4, MoveFacts DEF CancelStopsAliveCheck, Stopped, RestTyped
    <3>2. c = h => Coming(c)'
      BY <2>1, <3>1 DEF Coming
    <3>3. c # h => Undecided(c)
      BY <2>1, <2>2, <2>3, <3>1 DEF Undecided, WorkersStay
    <3> QED BY <1>1, <3>2, <3>3
  <2>5. CASE CancelSetsPromise(w)
    <3>1. /\ promise'[h] # "unset" /\ UNCHANGED timer
          /\ \A d \in Hosts \ {h} : promise'[d] = promise[d]
      BY <1>t, <2>1, <2>5 DEF CancelSetsPromise, RestTyped
    <3>2. c = h => Coming(c)'
      BY <3>1 DEF Coming
    <3>3. c # h => Undecided(c)
      BY <2>1, <2>2, <2>3, <3>1 DEF Undecided, WorkersStay
    <3> QED BY <1>1, <3>2, <3>3
  <2>6. CASE \/ CancelAliveCheck(w) \/ CancelSocket(w) \/ CancelUnsetSocket(w)
             \/ CancelSource(w) \/ CancelState(w)
    <3>1. timer'["alive_check"] = timer["alive_check"] /\ UNCHANGED promise /\ worker[w].at # "promise"
      BY <2>6 DEF CancelAliveCheck, CancelSocket, CancelUnsetSocket, CancelSource, CancelState,
         InactivityStopped
    <3> QED BY <1>3, <2>1, <2>2, <2>3, <3>1
  <2> QED BY <1>7, <2>4, <2>5, <2>6 DEF Cancel
<1>8. ASSUME AddTcpSocket \/ \E s \in Sockets : Accept(s)
      PROVE  Done
  <2>1. WorkersStay("accept") /\ worker["accept"].at # "promise"
    BY <1>t, <1>8 DEF AddTcpSocket, Accept, Move, WorkersTyped, WorkersStay
  <2>2. worker'["alive_check"] = worker["alive_check"]
    BY <2>1 DEF WorkersStay
  <2> QED BY <1>3, <1>8, <2>1, <2>2 DEF AddTcpSocket, Accept
<1>9. CASE SpawnReceiver
  <2>1. /\ worker'["alive_check"] = worker["alive_check"] /\ UNCHANGED promise
        /\ timer'["alive_check"] = timer["alive_check"]
    BY <1>t, <1>9 DEF SpawnReceiver, WorkersTyped, Restarted
  <2>2. worker["accept"].host \in Hosts
    BY <1>t, <1>9 DEF SpawnReceiver, WorkersTyped, WorkerFits, WorkerState
  <2>3. OthersStay(worker["accept"].host) /\ thread[worker["accept"].host].at # "answered"
    BY <1>t, <1>9, <2>2, GoFacts DEF SpawnReceiver
  <2>4. WorkersStay("accept") /\ worker["accept"].at # "promise"
    BY <1>t, <1>9, IdleFacts DEF SpawnReceiver
  <2> QED BY <1>1, <2>1, <2>2, <2>3, <2>4 DEF Undecided, OthersStay, WorkersStay
<1>10. ASSUME NEW k \in Timers, NEW h \in Hosts, Expires(k, h)
       PROVE  Done
  <2>1. CASE k = "alive_check"
    <3>1. /\ worker'["alive_check"].host = h /\ UNCHANGED <<promise, thread>>
          /\ \A d \in Hosts \ {h} : d \in timer["alive_check"] => d \in timer'["alive_check"]
          /\ worker["alive_check"].at = "idle"
      BY <1>t, <1>10, <2>1 DEF Expires, Stopped, Idle, RestTyped, WorkersTyped
    <3>2. worker["alive_check"].host # c
      BY <3>1 DEF Shape, WorkersKeepTo, Idle
    <3>3. \A w \in Workers \ {"alive_check"} : worker'[w] = worker[w]
      BY <1>t, <1>10, <2>1 DEF Expires, WorkersTyped
    <3> QED BY <3>1, <3>2, <3>3 DEF Coming
  <2>2. CASE k # "alive_check"
    <3>1. WorkersStay(k) /\ worker[k].at # "promise"
      BY <1>t, <1>10 DEF Expires, WorkersTyped, WorkersStay
    <3>2. worker'["alive_check"] = worker["alive_check"]
      BY <2>2, <3>1 DEF WorkersStay
    <3>3. timer'["alive_check"] = timer["alive_check"] /\ UNCHANGED <<promise, thread>>
      BY <1>t, <1>10, <2>2 DEF Expires, Stopped, RestTyped
    <3> QED BY <1>3, <3>1, <3>2, <3>3
  <2> QED BY <2>1, <2>2
<1>11. CASE AliveCheckTimedOut
  <2> DEFINE h == worker["alive_check"].host
  <2>1. h \in Hosts /\ UNCHANGED <<timer, thread>>
    BY <1>t, <1>11 DEF AliveCheckTimedOut, WorkersTyped, WorkerFits, WorkerState
  <2>2. /\ \A d \in Hosts \ {h} : promise'[d] = promise[d]
        /\ promise'[h] # "unset" \/ terminated'
    BY <1>t, <1>11, <2>1 DEF AliveCheckTimedOut, SetAliveCheckResult, RestTyped
  <2>3. WorkersStay("alive_check") /\ worker["alive_check"].at # "promise"
    BY <1>t, <1>11, IdleFacts DEF AliveCheckTimedOut
  <2> QED BY <2>1, <2>2, <2>3 DEF Coming, WorkersStay
<1>12. ASSUME NEW k \in Timers, Timeout(k)
       PROVE  Done
  <2>1. worker'["alive_check"].host = worker["alive_check"].host
    BY <1>t, <1>12, MoveFacts DEF Timeout, WorkersStay
  <2>2. WorkersStay(k) /\ worker[k].at # "promise"
    BY <1>t, <1>12, MoveFacts DEF Timeout
  <2> QED BY <1>3, <1>12, <2>1, <2>2 DEF Timeout
<1>13. ASSUME RestartGeneralInactivity \/ \E h \in Hosts : Transmit(h)
       PROVE  Done
  <2>1. /\ worker'["alive_check"] = worker["alive_check"]
        /\ WorkersStay("transmit") /\ worker["transmit"].at # "promise"
    BY <1>t, <1>13 DEF RestartGeneralInactivity, Transmit, WorkersTyped, WorkersStay
  <2>2. timer'["alive_check"] = timer["alive_check"]
    BY <1>t, <1>13 DEF RestartGeneralInactivity, Transmit, Restarted, RestTyped
  <2>3. UNCHANGED <<promise, thread>>
    BY <1>13 DEF RestartGeneralInactivity, Transmit
  <2> QED BY <1>3, <2>1, <2>2, <2>3
<1> QED
  BY <1>4, <1>5, <1>6, <1>7, <1>8, <1>9, <1>10, <1>11, <1>12, <1>13
  DEF Next, Accepts, TimesOut, Receives, Activates, QuietReceives, QuietActivates

(* Whoever holds mutex_ after a step has just acted, or has held it before. *)
LEMMA HoldsOn ==
  ASSUME Shape, Next, NEW h \in Hosts, Holding(h)'
  PROVE  Activates(h) \/ thread'[h] = thread[h]
<1>t. RestTyped /\ ThreadsTyped /\ WorkersTyped
  BY TypeParts DEF Shape
<1>1. ASSUME NEW d \in Hosts, OthersStay(d), d = h => thread'[h].at \notin HoldingPositions
      PROVE  thread'[h] = thread[h]
  BY <1>1 DEF OthersStay, Holding
<1>2. ASSUME NEW d \in Hosts, NEW at, Go(d, at) \/ GoOn(d, at), at \notin HoldingPositions
      PROVE  thread'[h] = thread[h]
  BY <1>1, <1>2, <1>t, GoFacts, GoOnFacts
<1> USE DEF HoldingPositions
<1>3. ASSUME NEW d \in Hosts, Receives(d)
      PROVE  thread'[h] = thread[h]
  <2>1. CASE SocketRead(d)
    <3>1. OthersStay(d) /\ thread'[d].at = "reading"
      BY <2>1, <1>t DEF SocketRead, ThreadsTyped, Ended, OthersStay
    <3> QED BY <1>1, <3>1
  <2> QED BY <1>2, <1>3, <2>1 DEF Receives, StartReceiving, SocketReadFails, AliveCheckAnswered,
         CloseReceived, UnsetSocket, UnsetSource, EndReceiving, AnswerActivation
<1>4. ASSUME NEW d \in Hosts, Arrives(d)
      PROVE  thread'[h] = thread[h]
  <2>1. ASSUME NEW a \in OptionalAddress, NEW at \in {"answered", "lock", "read"},
               thread' = [thread EXCEPT ![d] = [Ended EXCEPT !.at = at, !.addr = a]]
        PROVE  thread'[h] = thread[h]
    <3>1. OthersStay(d) /\ thread'[d].at = at
      BY <2>1, <1>t DEF ThreadsTyped, Ended, OthersStay
    <3> QED BY <1>1, <3>1
  <2>2. ASSUME thread' = [thread EXCEPT ![d] = [Ended EXCEPT !.at = "read"]]
        PROVE  thread'[h] = thread[h]
    <3>1. Go(d, "read")
      BY <2>2 DEF Go
    <3> QED BY <1>2, <3>1
  <2> QED BY <1>2, <1>4, <2>1, <2>2 DEF Arrives, TesterCloses, ReceiveOther, ReceiveDiagnosticMessage,
         ReceiveAliveCheckResponse, ReceiveRoutingActivationRequest
<1>5. ASSUME NEW d \in Hosts, Activates(d), ~Activates(h)
      PROVE  thread'[h] = thread[h]
  BY <1>5, ActivatesFacts DEF OthersStay
<1>6. CASE SpawnReceiver
  <2>1. worker["accept"].host \in Hosts
    BY <1>t, <1>6 DEF SpawnReceiver, WorkersTyped, WorkerFits, WorkerState
  <2> QED BY <1>2, <1>6, <2>1 DEF SpawnReceiver
<1>7. ASSUME NEW w, Cancel(w)
      PROVE  UNCHANGED thread
  BY <1>7 DEF Cancel, CancelAliveCheck, CancelStopsAliveCheck, CancelSetsPromise, CancelSocket, CancelUnsetSocket, CancelSource, CancelState
<1>8. ASSUME NEW k \in Timers, TimesOut(k) \/ \E d \in Hosts : Expires(k, d)
      PROVE  UNCHANGED thread
  BY <1>7, <1>8 DEF TimesOut, Timeout, Expires, AliveCheckTimedOut
<1>9. CASE \/ AddTcpSocket \/ RestartGeneralInactivity
           \/ (\E s \in Sockets : Accept(s)) \/ \E d \in Hosts : Transmit(d)
  BY <1>9 DEF AddTcpSocket, RestartGeneralInactivity, Accept, Transmit
<1> QED
  BY <1>3, <1>4, <1>5, <1>6, <1>7, <1>8, <1>9 DEF Next, Accepts

(* Whoever waits after a step has just asked, or has been waiting.         *)
LEMMA WaitsOn ==
  ASSUME Shape, Next, NEW h \in Hosts, thread'[h].at = "await"
  PROVE  Asks(h) \/ thread'[h] = thread[h]
<1>t. ThreadsTyped
  BY TypeParts DEF Shape
<1>1. CASE Activates(h)
  <2>1. ASSUME NEW at, Go(h, at) \/ GoOn(h, at)
        PROVE  at = "await"
    BY <1>t, <2>1, GoFacts, GoOnFacts
  <2>2. CASE ConnectionRoutingActivation(h)
    <3>1. ASSUME NEW rest, NEW all \in BOOLEAN, Alive(h, rest, all)
          PROVE  FALSE
      BY <1>t, <3>1 DEF Alive, ThreadsTyped, ThreadState
    <3> QED BY <2>1, <2>2, <3>1 DEF ConnectionRoutingActivation, Refuse
  <2>3. CASE SelectRegistered(h)
    <3>1. CASE thread' = [thread EXCEPT ![h].rest = Tail(thread[h].rest)]
      BY <1>t, <2>3, <3>1 DEF SelectRegistered, ThreadsTyped, ThreadState
    <3> QED BY <2>1, <2>3, <3>1 DEF SelectRegistered, Refuse
  <2>4. CASE AliveCheckResult(h)
    <3>1. CASE thread' = [thread EXCEPT ![h].at = "select", ![h].rest = Tail(@)]
      BY <1>t, <3>1 DEF ThreadsTyped, ThreadState
    <3> QED BY <2>1, <2>4, <3>1 DEF AliveCheckResult, Refuse
  <2>5. CASE PerformAliveCheck(h) \/ SetSourceAddress(h) \/ SetRegistered(h)
    BY <2>1, <2>5 DEF PerformAliveCheck, SetSourceAddress, SetRegistered
  <2> QED BY <1>1, <2>2, <2>3, <2>4, <2>5 DEF Activates, Asks
<1> QED BY <1>1, HoldsOn DEF Holding, HoldingPositions

(* No step is taken after the process has ended.                           *)
LEMMA Running == Next => ~terminated
<1>1. ASSUME NEW w, Cancel(w)
      PROVE  ~terminated
  BY <1>1 DEF Cancel, CancelAliveCheck, CancelStopsAliveCheck, CancelSetsPromise, CancelSocket, CancelUnsetSocket, CancelSource, CancelState
<1>2. ASSUME NEW h \in Hosts, Receives(h)
      PROVE  ~terminated
  BY <1>2 DEF Receives, StartReceiving, SocketRead, SocketReadFails, AliveCheckAnswered,
     CloseReceived, UnsetSocket, UnsetSource, EndReceiving, AnswerActivation
<1>3. ASSUME NEW h \in Hosts, Activates(h)
      PROVE  ~terminated
  BY <1>3 DEF Activates, ConnectionRoutingActivation, SelectRegistered, PerformAliveCheck,
     SendAliveCheckRequest, AliveCheckResult, SetSourceAddress, SetRegistered
<1>4. ASSUME NEW h \in Hosts, Arrives(h)
      PROVE  ~terminated
  BY <1>4 DEF Arrives, TesterCloses, ReceiveOther, ReceiveDiagnosticMessage, Receive,
     ReceiveAliveCheckResponse, ReceiveRoutingActivationRequest
<1>5. ASSUME NEW k \in Timers, TimesOut(k) \/ \E d \in Hosts : Expires(k, d)
      PROVE  ~terminated
  BY <1>1, <1>5 DEF TimesOut, Timeout, Expires, AliveCheckTimedOut
<1>6. CASE \/ AddTcpSocket \/ SpawnReceiver \/ RestartGeneralInactivity
           \/ (\E s \in Sockets : Accept(s)) \/ \E d \in Hosts : Transmit(d)
  BY <1>6 DEF AddTcpSocket, SpawnReceiver, RestartGeneralInactivity, Accept, Transmit
<1> QED
  BY <1>1, <1>2, <1>3, <1>4, <1>5, <1>6 DEF Next, Accepts

(* AnswerIsComing is inductive, given Shape.                               *)
LEMMA AnswerStep == Shape /\ AnswerIsComing /\ [Next]_vars => AnswerIsComing'
<1> SUFFICES ASSUME Shape, AnswerIsComing, [Next]_vars,
                    NEW h \in Hosts, thread'[h].at = "await", ~terminated',
                    NEW c, c = Head(thread'[h].rest)
             PROVE  Coming(c)'
  BY DEF AnswerIsComing, Coming
<1>t. RestTyped /\ ThreadsTyped /\ WorkersTyped
  BY TypeParts DEF Shape
<1>1. CASE UNCHANGED vars
  <2>1. UNCHANGED <<thread, worker, promise, timer, terminated>>
    BY <1>1 DEF vars
  <2> QED BY <2>1 DEF AnswerIsComing, Coming
<1>2. ASSUME Next, Asks(h)
      PROVE  Coming(c)'
  <2>1. /\ thread'[h].rest = thread[h].rest
        /\ thread[h].at = "request"
    BY <1>t, <1>2, GoOnFacts DEF Asks, SendAliveCheckRequest
  <2>2. thread[h].rest \in Seq(Hosts) /\ thread[h].rest # << >>
    BY <1>t, <2>1 DEF ThreadsTyped, ThreadFits, ThreadState
  <2>3. c = Head(thread[h].rest) /\ c \in Hosts
    BY <2>1, <2>2
  <2>4. c \in timer'["alive_check"]
    BY <1>t, <1>2, <2>3 DEF Asks, SendAliveCheckRequest, Restarted, RestTyped
  <2> QED BY <2>4 DEF Coming
<1>3. ASSUME Next, ~Asks(h)
      PROVE  Coming(c)'
  <2>1. thread'[h] = thread[h] /\ thread[h].at = "await" /\ ~terminated
    BY <1>3, WaitsOn, Running
  <2>2. thread[h].rest \in Seq(Hosts) /\ thread[h].rest # << >>
    BY <1>t, <2>1 DEF ThreadsTyped, ThreadFits, ThreadState
  <2>3. c \in Hosts /\ Coming(c)
    BY <2>1, <2>2 DEF AnswerIsComing, Coming
  <2>4. ASSUME NEW d \in Hosts, Asks(d)
        PROVE  FALSE
    <3>1. Holding(d) /\ Holding(h)
      BY <2>1, <2>4 DEF Asks, SendAliveCheckRequest, Holding, HoldingPositions
    <3> QED BY <1>3, <2>4, <3>1 DEF Shape, OneActivation
  <2> QED BY <1>3, <2>3, <2>4, ComingKept
<1> QED BY <1>1, <1>2, <1>3

(* As long as an activation waits for another tester's answer, someone is  *)
(* there who gives it: the timer, the thread that has received it, or the  *)
(* worker that cancels the connection.                                     *)
THEOREM AnswerComes == Spec => []AnswerIsComing
<1>1. Init => AnswerIsComing
  BY InitShape DEF Init, AnswerIsComing, Ended
<1> QED BY <1>1, AnswerStep, ShapeInvariant, PTL DEF Spec

-----------------------------------------------------------------------------
(* An alive check is ended once.                                           *)

EndsAt(c, w) == worker[w].host = c /\ worker[w].at \in {"stop", "promise"}

(* One at most is ending the check of c; whoever is to set the promise and *)
(* does not expect an exception finds it unset; who has gone on to set it  *)
(* has left no timer behind.                                               *)
EndedByOne(c) ==
  /\ (c \in timer["alive_check"] \/ thread[c].at = "answered" \/ worker["alive_check"].host = c)
       => promise[c] = "unset"
  /\ worker["alive_check"].host = c => c \notin timer["alive_check"]
  /\ \A w \in Workers :
       EndsAt(c, w) =>
         /\ worker[w].at = "promise" => c \notin timer["alive_check"]
         /\ thread[c].at # "answered" /\ worker["alive_check"].host # c
         /\ \A v \in Workers : EndsAt(c, v) => v = w
  /\ thread[c].at = "answered" => worker["alive_check"].host # c

EndedOnce == ~overlapped => ~terminated /\ \A c \in Hosts : EndedByOne(c)

(* A step that brings nobody to end the check of c and sets nothing.       *)
EndsNothing(c) ==
  /\ promise'[c] = promise[c]
  /\ c \in timer'["alive_check"] => c \in timer["alive_check"]
  /\ thread'[c].at = "answered" => thread[c].at = "answered"
  /\ worker'["alive_check"].host = c => worker["alive_check"].host = c
  /\ \A w \in Workers : EndsAt(c, w)' => EndsAt(c, w) /\ worker'[w].at = worker[w].at

LEMMA NothingEnded ==
  ASSUME NEW c \in Hosts, EndedByOne(c), EndsNothing(c)
  PROVE  EndedByOne(c)'
  BY DEF EndedByOne, EndsNothing

(* How a step records that checks overlap; only an answer and a timeout end*)
(* the process.                                                            *)
Recorded ==
  /\ UNCHANGED overlapped \/ \E c : Overlaps(c)
  /\ UNCHANGED terminated \/ AliveCheckTimedOut \/ \E h \in Hosts : AliveCheckAnswered(h)

LEMMA NextRecords == Next => Recorded
<1>1. ASSUME NEW w \in Workers, Cancel(w)
      PROVE  Recorded
  BY <1>1 DEF Recorded, Cancel, CancelAliveCheck, CancelStopsAliveCheck,
     CancelSetsPromise, CancelSocket, CancelUnsetSocket, CancelSource, CancelState
<1>2. ASSUME NEW h \in Hosts, Receives(h)
      PROVE  Recorded
  BY <1>2 DEF Recorded, Receives, StartReceiving, SocketRead, SocketReadFails,
     AliveCheckAnswered, CloseReceived, UnsetSocket, UnsetSource, EndReceiving, AnswerActivation
<1>3. ASSUME NEW h \in Hosts, Activates(h)
      PROVE  Recorded
  BY <1>3 DEF Recorded, Activates, ConnectionRoutingActivation, SelectRegistered,
     PerformAliveCheck, SendAliveCheckRequest, AliveCheckResult, SetSourceAddress, SetRegistered
<1>4. ASSUME NEW h \in Hosts, Arrives(h)
      PROVE  Recorded
  BY <1>4 DEF Recorded, Arrives, TesterCloses, ReceiveOther, ReceiveDiagnosticMessage,
     Receive, ReceiveAliveCheckResponse, ReceiveRoutingActivationRequest
<1>5. CASE AliveCheckTimedOut
  BY <1>5 DEF Recorded, AliveCheckTimedOut
<1>6. ASSUME NEW k \in Timers, Timeout(k) \/ \E d \in Hosts : Expires(k, d)
      PROVE  Recorded
  BY <1>6 DEF Recorded, Timeout, Expires
<1>7. CASE \/ AddTcpSocket \/ SpawnReceiver \/ RestartGeneralInactivity
           \/ (\E s \in Sockets : Accept(s)) \/ \E d \in Hosts : Transmit(d)
  BY <1>7 DEF Recorded, AddTcpSocket, SpawnReceiver, RestartGeneralInactivity, Accept, Transmit
<1> QED
  BY <1>1, <1>2, <1>3, <1>4, <1>5, <1>6, <1>7 DEF Next, Accepts, TimesOut

(* The steps of Cancel.                                                    *)
LEMMA CancelEndsByOne ==
  ASSUME Shape, NEW w \in Workers, Cancel(w), ~overlapped', \A c \in Hosts : EndedByOne(c),
         NEW c \in Hosts
  PROVE  EndedByOne(c)'
<1>t. RestTyped /\ ThreadsTyped /\ WorkersTyped
  BY TypeParts DEF Shape
<1>1. EndedByOne(c)
  OBVIOUS
<1>2. UNCHANGED thread
  BY DEF Cancel, CancelAliveCheck, CancelStopsAliveCheck, CancelSetsPromise, CancelSocket,
     CancelUnsetSocket, CancelSource, CancelState
<1>3. CASE CancelAliveCheck(w)
  <2>1. CASE worker[w].host = c /\ c \in timer["alive_check"]
    <3>1. /\ ~Ending(c) /\ UNCHANGED <<promise, timer>>
          /\ WorkersStay(w) /\ worker'[w].at = "stop" /\ worker'[w].host = c
      BY <1>t, <1>3, <2>1, MoveFacts DEF CancelAliveCheck, Overlaps
    <3> QED BY <1>1, <1>2, <2>1, <3>1 DEF EndedByOne, EndsAt, Ending, WorkersStay
  <2>2. CASE ~(worker[w].host = c /\ c \in timer["alive_check"])
    <3>1. /\ UNCHANGED <<promise, timer>>
          /\ WorkersStay(w) /\ worker'[w].host = worker[w].host
          /\ worker[w].host = c => worker'[w].at = "close"
      BY <1>t, <1>3, <2>2, MoveFacts DEF CancelAliveCheck
    <3> QED BY <1>1, <1>2, <3>1, NothingEnded DEF EndsNothing, EndsAt, WorkersStay
  <2> QED BY <2>1, <2>2
<1>4. CASE CancelStopsAliveCheck(w)
  <2>1. /\ UNCHANGED promise
        /\ timer'["alive_check"] = timer["alive_check"] \ {worker[w].host}
        /\ WorkersStay(w) /\ worker'[w].host = worker[w].host
        /\ worker[w].at = "stop" /\ worker'[w].at = "promise"
    BY <1>t, <1>4, MoveFacts DEF CancelStopsAliveCheck, Stopped, RestTyped
  <2> QED BY <1>1, <1>2, <2>1 DEF EndedByOne, EndsAt, WorkersStay
<1>5. CASE CancelSetsPromise(w)
  <2>1. /\ UNCHANGED timer
        /\ worker[w].host # c => promise'[c] = promise[c]
        /\ WorkersStay(w) /\ worker'[w].host = worker[w].host
        /\ worker[w].at = "promise" /\ worker'[w].at = "close"
    BY <1>t, <1>5, MoveFacts DEF CancelSetsPromise, RestTyped
  <2>2. CASE worker[w].host # c
    <3>1. \A v \in Workers : EndsAt(c, v)' => EndsAt(c, v) /\ worker'[v].at = worker[v].at
      BY <2>1, <2>2 DEF EndsAt, WorkersStay
    <3>2. worker'["alive_check"].host = worker["alive_check"].host BY <2>1 DEF WorkersStay
    <3>3. EndsNothing(c) BY <1>2, <2>1, <2>2, <3>1, <3>2 DEF EndsNothing, EndsAt
    <3> QED BY <1>1, <3>3, NothingEnded
  <2>3. CASE worker[w].host = c
    <3>1. /\ EndsAt(c, w) /\ c \notin timer["alive_check"]
          /\ thread[c].at # "answered" /\ worker["alive_check"].host # c
      BY <1>1, <2>1, <2>3 DEF EndedByOne, EndsAt
    <3>2. \A v \in Workers : ~EndsAt(c, v)'
      BY <1>1, <2>1, <3>1 DEF EndedByOne, EndsAt, WorkersStay
    <3>3. worker'["alive_check"].host # c BY <2>1, <3>1 DEF WorkersStay
    <3>4. c \notin timer'["alive_check"] /\ thread'[c].at # "answered"
      BY <1>2, <2>1, <3>1
    <3> QED BY <3>2, <3>3, <3>4 DEF EndedByOne
  <2> QED BY <2>2, <2>3
<1>6. CASE CancelSocket(w) \/ CancelUnsetSocket(w) \/ CancelSource(w) \/ CancelState(w)
  <2>1. UNCHANGED promise /\ timer'["alive_check"] = timer["alive_check"]
    BY <1>t, <1>6 DEF CancelSocket, CancelUnsetSocket, CancelSource, CancelState,
       InactivityStopped, RestTyped
  <2>2. /\ WorkersStay(w) /\ worker'[w].at \notin {"stop", "promise"}
        /\ worker'[w].host \in {worker[w].host, None}
    BY <1>t, <1>6, MoveFacts, IdleFacts DEF CancelSocket, CancelUnsetSocket, CancelSource, CancelState
  <2>3. c # None
    OBVIOUS
  <2> QED BY <1>1, <1>2, <2>1, <2>2, <2>3, NothingEnded DEF EndsNothing, EndsAt, WorkersStay
<1> QED BY <1>3, <1>4, <1>5, <1>6 DEF Cancel

(* The steps of the threads.                                               *)
LEMMA ThreadsEndByOne ==
  ASSUME Shape, NEW h \in Hosts, Receives(h) \/ Activates(h) \/ Arrives(h),
         ~overlapped', \A c \in Hosts : EndedByOne(c), NEW c \in Hosts
  PROVE  EndedByOne(c)'
<1>t. RestTyped /\ ThreadsTyped /\ WorkersTyped
  BY TypeParts DEF Shape
<1>1. EndedByOne(c)
  OBVIOUS
<1>2. ASSUME UNCHANGED <<promise, worker>>, timer'["alive_check"] = timer["alive_check"],
             OthersStay(h), thread'[h].at # "answered"
      PROVE  EndedByOne(c)'
  BY <1>1, <1>2, NothingEnded DEF EndsNothing, EndsAt, OthersStay
<1>3. ASSUME NEW a \in OptionalAddress, ReceiveAliveCheckResponse(h, a)
      PROVE  EndedByOne(c)'
  <2>1. timer'["alive_check"] = timer["alive_check"] /\ UNCHANGED <<promise, worker>>
    BY <1>t, <1>3 DEF ReceiveAliveCheckResponse, Receive, AfterRead, Restarted, RestTyped
  <2>2. CASE Go(h, "read")
    BY <1>t, <1>2, <2>1, <2>2, GoFacts
  <2>3. CASE /\ h \in timer["alive_check"] /\ ~Ending(h)
             /\ thread' = [thread EXCEPT ![h] = [Ended EXCEPT !.at = "answered", !.addr = a]]
    <3>1. OthersStay(h)
      BY <1>t, <2>3 DEF ThreadsTyped, OthersStay
    <3> QED BY <1>1, <2>1, <2>3, <3>1 DEF EndedByOne, EndsAt, Ending, OthersStay
  <2> QED BY <1>3, <2>2, <2>3 DEF ReceiveAliveCheckResponse, Overlaps
<1>4. CASE AliveCheckAnswered(h)
  <2>1. OthersStay(h) /\ thread'[h].at # "answered" /\ thread[h].at = "answered" /\ UNCHANGED worker
    BY <1>t, <1>4, GoFacts DEF AliveCheckAnswered
  <2>2. timer'["alive_check"] = timer["alive_check"] \ {h}
    BY <1>t, <1>4 DEF AliveCheckAnswered, Stopped, RestTyped
  <2>3. c # h => promise'[c] = promise[c]
    BY <1>t, <1>4 DEF AliveCheckAnswered, SetAliveCheckResult, RestTyped
  <2>4. CASE c # h
    BY <1>1, <2>1, <2>2, <2>3, <2>4, NothingEnded DEF EndsNothing, EndsAt, OthersStay
  <2>5. CASE c = h
    BY <1>1, <2>1, <2>2, <2>5 DEF EndedByOne, EndsAt
  <2> QED BY <2>4, <2>5
<1>5. CASE SendAliveCheckRequest(h)
  <2> DEFINE d == Head(thread[h].rest)
  <2>1. d \in Hosts
    BY <1>t, <1>5 DEF SendAliveCheckRequest, ThreadsTyped, ThreadFits, ThreadState
  <2>2. /\ OthersStay(h) /\ thread'[h].at = "await" /\ UNCHANGED worker /\ ~Ending(d)
        /\ thread[h].at = "request"
    BY <1>t, <1>5, GoOnFacts DEF SendAliveCheckRequest, Overlaps
  <2>3. /\ timer'["alive_check"] = timer["alive_check"] \cup {d}
        /\ promise'[d] = "unset" /\ (c # d => promise'[c] = promise[c])
    BY <1>t, <1>5, <2>1 DEF SendAliveCheckRequest, Restarted, RestTyped
  <2> HIDE DEF d
  <2>4. CASE c # d
    BY <1>1, <2>2, <2>3, <2>4, NothingEnded DEF EndsNothing, EndsAt, OthersStay
  <2>5. CASE c = d
    BY <1>1, <2>2, <2>3, <2>5 DEF EndedByOne, EndsAt, Ending, OthersStay
  <2> QED BY <2>4, <2>5
<1>6. CASE CloseReceived(h) \/ UnsetSocket(h) \/ UnsetSource(h) \/ EndReceiving(h)
  <2>1. OthersStay(h) /\ thread'[h].at # "answered"
    BY <1>t, <1>6, GoFacts, GoOnFacts DEF CloseReceived, UnsetSocket, UnsetSource, EndReceiving
  <2>2. UNCHANGED <<promise, worker>> /\ timer'["alive_check"] = timer["alive_check"]
    BY <1>t, <1>6 DEF CloseReceived, UnsetSocket, UnsetSource, EndReceiving, InactivityStopped, RestTyped
  <2> QED BY <1>2, <2>1, <2>2
<1>7. CASE QuietReceives(h)
  <2>1. OthersStay(h) /\ thread'[h].at # "answered" /\ UNCHANGED <<promise, worker>>
    <3>1. CASE SocketRead(h)
      BY <1>t, <3>1 DEF SocketRead, ThreadsTyped, OthersStay, Ended
    <3>2. CASE StartReceiving(h) \/ SocketReadFails(h) \/ AnswerActivation(h)
      BY <1>t, <3>2, GoFacts, GoOnFacts DEF StartReceiving, SocketReadFails, AnswerActivation
    <3> QED BY <1>7, <3>1, <3>2 DEF QuietReceives, SocketRead, StartReceiving, SocketReadFails,
              AnswerActivation
  <2>2. timer'["alive_check"] = timer["alive_check"]
    BY <1>t, <1>7 DEF QuietReceives, StartReceiving, SocketRead, SocketReadFails, AnswerActivation,
       Restarted, RestTyped
  <2> QED BY <1>2, <2>1, <2>2
<1>8. CASE /\ Activates(h) /\ ~SendAliveCheckRequest(h)
  <2>1. UNCHANGED <<promise, worker, timer>>
    BY <1>8 DEF Activates, ConnectionRoutingActivation, SelectRegistered, PerformAliveCheck,
       AliveCheckResult, SetSourceAddress, SetRegistered
  <2>2. OthersStay(h) /\ thread'[h].at # "answered"
    <3>1. ASSUME NEW rest, NEW all, Alive(h, rest, all)
          PROVE  OthersStay(h) /\ thread'[h].at # "answered"
      BY <1>t, <3>1 DEF Alive, ThreadsTyped, ThreadState, OthersStay
    <3>2. CASE ConnectionRoutingActivation(h)
      <4>1. \/ Go(h, "close") \/ GoOn(h, "grant") \/ Alive(h, connections, TRUE)
            \/ \E d \in Hosts : Alive(h, <<d>>, FALSE)
        BY <3>2 DEF ConnectionRoutingActivation, Refuse
      <4>2. CASE Go(h, "close") BY <1>t, <4>2, GoFacts
      <4>3. CASE GoOn(h, "grant") BY <1>t, <4>3, GoOnFacts
      <4> QED BY <3>1, <4>1, <4>2, <4>3
    <3>3. CASE thread' = [thread EXCEPT ![h].at = "select", ![h].rest = Tail(@)]
      BY <1>t, <3>3 DEF ThreadsTyped, ThreadState, OthersStay
    <3>4. CASE thread[h].at = "select" /\ thread' = [thread EXCEPT ![h].rest = Tail(thread[h].rest)]
      BY <1>t, <3>4 DEF ThreadsTyped, ThreadState, OthersStay
    <3>6. CASE SelectRegistered(h) \/ AliveCheckResult(h)
      <4>1. CASE Go(h, "close") \/ GoOn(h, "check") \/ GoOn(h, "grant")
        BY <1>t, <4>1, GoFacts, GoOnFacts
      <4> QED BY <3>3, <3>4, <3>6, <4>1 DEF SelectRegistered, AliveCheckResult, Refuse
    <3>5. CASE PerformAliveCheck(h) \/ SetSourceAddress(h) \/ SetRegistered(h)
      BY <1>t, <3>5, GoFacts, GoOnFacts DEF PerformAliveCheck, SetSourceAddress, SetRegistered
    <3> QED BY <1>8, <3>2, <3>5, <3>6 DEF Activates
  <2> QED BY <1>2, <2>1, <2>2
<1>9. CASE /\ Arrives(h) /\ \A a \in OptionalAddress : ~ReceiveAliveCheckResponse(h, a)
  <2>1. AfterRead(h)["alive_check"] = timer["alive_check"] /\ AfterRead(h) \in [Timers -> SUBSET Hosts]
    BY <1>t DEF AfterRead, Restarted, RestTyped
  <2>2. timer'["alive_check"] = timer["alive_check"] /\ UNCHANGED <<promise, worker>>
    BY <1>9, <2>1 DEF Arrives, TesterCloses, ReceiveOther, ReceiveDiagnosticMessage,
       ReceiveRoutingActivationRequest, Receive
  <2>3. ASSUME NEW a \in OptionalAddress, ReceiveRoutingActivationRequest(h, a)
        PROVE  OthersStay(h) /\ thread'[h].at # "answered"
    BY <1>t, <2>3 DEF ReceiveRoutingActivationRequest, ThreadsTyped, Ended, OthersStay
  <2>4. OthersStay(h) /\ thread'[h].at # "answered"
    BY <1>t, <1>9, <2>3, GoFacts, GoOnFacts DEF Arrives, TesterCloses, ReceiveOther,
       ReceiveDiagnosticMessage
  <2> QED BY <1>2, <2>2, <2>4
<1> QED BY <1>3, <1>4, <1>5, <1>6, <1>7, <1>8, <1>9 DEF Receives, QuietReceives, Arrives

(* The steps of the accepting thread and of the timers, besides Cancel.    *)
LEMMA WorkersEndByOne ==
  ASSUME Shape, ~overlapped', \A c \in Hosts : EndedByOne(c), NEW c \in Hosts,
         \/ AddTcpSocket \/ SpawnReceiver \/ RestartGeneralInactivity \/ AliveCheckTimedOut
         \/ (\E s \in Sockets : Accept(s)) \/ (\E d \in Hosts : Transmit(d))
         \/ \E k \in Timers : Timeout(k) \/ \E h \in Hosts : Expires(k, h)
  PROVE  EndedByOne(c)'
<1>t. RestTyped /\ ThreadsTyped /\ WorkersTyped
  BY TypeParts DEF Shape
<1>1. EndedByOne(c) /\ c # None
  OBVIOUS
<1>2. ASSUME UNCHANGED promise, timer'["alive_check"] = timer["alive_check"],
             thread'[c].at = "answered" => thread[c].at = "answered",
             NEW w \in Workers, WorkersStay(w), worker'[w].at \notin {"stop", "promise"},
             w = "alive_check" => worker'[w].host \in {worker[w].host, None}
      PROVE  EndedByOne(c)'
  BY <1>1, <1>2, NothingEnded DEF EndsNothing, EndsAt, WorkersStay
<1>3. CASE AddTcpSocket
  <2>1. UNCHANGED <<promise, timer, thread>> /\ WorkersStay("accept") /\ worker'["accept"].at = "join"
    BY <1>t, <1>3, MoveFacts DEF AddTcpSocket
  <2> QED BY <1>2, <2>1
<1>4. CASE SpawnReceiver
  <2>1. /\ UNCHANGED promise /\ timer'["alive_check"] = timer["alive_check"]
        /\ WorkersStay("accept") /\ worker'["accept"].at = "idle"
    BY <1>t, <1>4, IdleFacts DEF SpawnReceiver, Restarted, RestTyped
  <2>2. worker["accept"].host \in Hosts
    BY <1>t, <1>4 DEF SpawnReceiver, WorkersTyped, WorkerFits, WorkerState
  <2>3. thread'[c].at = "answered" => thread[c].at = "answered"
    BY <1>t, <1>4, <2>2, GoFacts DEF SpawnReceiver, OthersStay
  <2> QED BY <1>2, <2>1, <2>3
<1>5. CASE RestartGeneralInactivity
  <2>1. /\ UNCHANGED <<promise, thread>> /\ timer'["alive_check"] = timer["alive_check"]
        /\ WorkersStay("transmit") /\ worker'["transmit"].at = "idle"
    BY <1>t, <1>5, IdleFacts DEF RestartGeneralInactivity, Restarted, RestTyped
  <2> QED BY <1>2, <2>1
<1>6. ASSUME NEW s \in Sockets, Accept(s)
      PROVE  EndedByOne(c)'
  <2>1. UNCHANGED <<promise, timer, thread>> /\ worker["accept"].at = "idle"
    BY <1>6 DEF Accept
  <2>2. WorkersStay("accept") /\ worker'["accept"].at \in {"idle", "alive"}
    BY <1>t, <1>6, <2>1 DEF Accept, WorkersTyped, WorkersStay
  <2> QED BY <1>2, <2>1, <2>2
<1>7. ASSUME NEW d \in Hosts, Transmit(d)
      PROVE  EndedByOne(c)'
  <2>1. /\ UNCHANGED <<promise, timer, thread>>
        /\ WorkersStay("transmit") /\ worker'["transmit"].at = "restart"
    BY <1>t, <1>7, BusyFacts DEF Transmit
  <2> QED BY <1>2, <2>1
<1>8. ASSUME NEW k \in Timers, Timeout(k)
      PROVE  EndedByOne(c)'
  <2>1. /\ UNCHANGED <<promise, timer, thread>> /\ WorkersStay(k) /\ worker'[k].at = "alive"
        /\ worker'[k].host = worker[k].host
    BY <1>t, <1>8, MoveFacts DEF Timeout
  <2> QED BY <1>2, <2>1
<1>9. CASE AliveCheckTimedOut
  <2> DEFINE d == worker["alive_check"].host
  <2>1. /\ WorkersStay("alive_check") /\ worker'["alive_check"].at = "idle"
        /\ worker'["alive_check"].host = None /\ UNCHANGED <<thread, timer>>
    BY <1>t, <1>9, IdleFacts DEF AliveCheckTimedOut
  <2>2. c # d => promise'[c] = promise[c]
    BY <1>t, <1>9 DEF AliveCheckTimedOut, SetAliveCheckResult, RestTyped
  <2>3. CASE c # d
    BY <1>1, <2>1, <2>2, <2>3, NothingEnded DEF EndsNothing, EndsAt, WorkersStay
  <2>4. CASE c = d
    BY <1>1, <2>1, <2>4 DEF EndedByOne, EndsAt, WorkersStay
  <2> QED BY <2>3, <2>4
<1>10. ASSUME NEW k \in Timers, NEW h \in Hosts, Expires(k, h)
       PROVE  EndedByOne(c)'
  <2>1. /\ UNCHANGED <<promise, thread>> /\ h \in timer[k]
        /\ timer'["alive_check"] = IF k = "alive_check" THEN timer[k] \ {h} ELSE timer["alive_check"]
        /\ k = "alive_check" => ~Ending(h)
    BY <1>t, <1>10 DEF Expires, Stopped, Overlaps, RestTyped
  <2>2. /\ WorkersStay(k) /\ worker'[k].at = "finalize" /\ worker'[k].host = h
        /\ worker[k].at = "idle"
    BY <1>t, <1>10 DEF Expires, Idle, WorkersTyped, WorkersStay
  <2>3. CASE k # "alive_check"
    BY <1>2, <2>1, <2>2, <2>3
  <2>4. CASE k = "alive_check" /\ c # h
    BY <1>1, <2>1, <2>2, <2>4, NothingEnded DEF EndsNothing, EndsAt, WorkersStay
  <2>5. CASE k = "alive_check" /\ c = h
    BY <1>1, <2>1, <2>2, <2>5 DEF EndedByOne, EndsAt, Ending, WorkersStay
  <2> QED BY <2>3, <2>4, <2>5
<1> QED BY <1>3, <1>4, <1>5, <1>6, <1>7, <1>8, <1>9, <1>10

(* EndedOnce is inductive, given Shape.                                    *)
LEMMA EndedOnceStep == Shape /\ EndedOnce /\ [Next]_vars => EndedOnce'
<1> SUFFICES ASSUME Shape, EndedOnce, [Next]_vars, ~overlapped'
             PROVE  ~terminated' /\ \A c \in Hosts : EndedByOne(c)'
  BY DEF EndedOnce
<1>1. CASE UNCHANGED vars
  <2>1. UNCHANGED <<thread, worker, promise, timer, overlapped, terminated>>
    BY <1>1 DEF vars
  <2> QED BY <2>1 DEF EndedOnce, EndedByOne, EndsAt
<1>2. CASE Next
  <2>1. ~terminated /\ \A c \in Hosts : EndedByOne(c)
    <3>1. overlapped \in BOOLEAN BY TypeParts DEF Shape, RestTyped
    <3>2. ~overlapped BY <1>2, <3>1, NextRecords DEF Recorded, Overlaps
    <3> QED BY <3>2 DEF EndedOnce
  <2>2. \A c \in Hosts : EndedByOne(c)'
    BY <1>2, <2>1, CancelEndsByOne, ThreadsEndByOne, WorkersEndByOne DEF Next, Accepts, TimesOut
  <2>3. ASSUME NEW h \in Hosts, AliveCheckAnswered(h)
        PROVE  UNCHANGED terminated
    <3>1. thread[h].at = "answered" BY <2>3 DEF AliveCheckAnswered
    <3>2. promise[h] = "unset" BY <2>1, <3>1 DEF EndedByOne
    <3> QED BY <2>3, <3>2 DEF AliveCheckAnswered, SetAliveCheckResult
  <2>4. ASSUME AliveCheckTimedOut
        PROVE  UNCHANGED terminated
    <3>1. PICK d \in Hosts : d = worker["alive_check"].host
      BY <2>4, TypeParts DEF Shape, AliveCheckTimedOut, WorkersTyped, WorkerFits, WorkerState
    <3>2. EndedByOne(d) BY <2>1
    <3>3. promise[worker["alive_check"].host] = "unset" BY <3>1, <3>2 DEF EndedByOne
    <3> QED BY <2>4, <3>3 DEF AliveCheckTimedOut, SetAliveCheckResult
  <2>5. UNCHANGED terminated BY <1>2, <2>3, <2>4, NextRecords DEF Recorded
  <2> QED BY <2>1, <2>2, <2>5
<1> QED BY <1>1, <1>2

(* The answer to an alive check is given once: the process ends by a second*)
(* one only where two were ending a check at once, or a check was begun    *)
(* while the last one of the connection was being ended.                   *)
THEOREM PromiseSetOnce == Spec => []PromiseIsSetOnce
<1>1. Init => EndedOnce
  BY InitShape DEF Init, EndedOnce, EndedByOne, EndsAt, Ended, Idle
<1>2. EndedOnce => PromiseIsSetOnce
  BY DEF EndedOnce, PromiseIsSetOnce
<1> QED BY <1>1, <1>2, EndedOnceStep, ShapeInvariant, PTL DEF Spec

-----------------------------------------------------------------------------
(* No socket is forgotten while it is open.                                *)

Served == SocketsKept /\ ClosedWhileResetting /\ JoinsWithSocket

(* A thread that works goes on, or the socket of its connection is closed; *)
(* it reads the socket that the connection has.                            *)
ThreadServes(h) ==
  /\ Working(h) => Working(h)' \/ ~IsOpen(tcp_socket[h])'
  /\ thread'[h].at = "reading" => thread'[h].socket = tcp_socket[h] \/ thread'[h] = thread[h]

(* Nobody comes to reset a socket that is open.                            *)
ResetServes(h) == Resetting(h)' => Resetting(h) \/ ~IsOpen(tcp_socket[h])'

(* A step serves the sockets when none is opened, given or taken away.     *)
LEMMA ServedKept ==
  ASSUME Shape, Served, crossed \subseteq crossed', UNCHANGED tcp_socket,
         \A s \in Sockets : descriptor'[s] = "open" => descriptor[s] = "open",
         UNCHANGED <<worker["accept"].host, worker["accept"].socket>>,
         worker'["accept"].at = "join" => worker["accept"].at = "join",
         \A h \in Hosts : ThreadServes(h) /\ ResetServes(h)
  PROVE  Served'
<1>t. RestTyped /\ ThreadsTyped /\ WorkersTyped
  BY TypeParts DEF Shape
<1>0. ASSUME NEW s \in OptionalSocket, IsOpen(s)'
      PROVE  IsOpen(s)
  BY <1>0 DEF IsOpen
<1>1. JoinsWithSocket'
  <2>1. worker["accept"].socket \in OptionalSocket
    BY <1>t DEF WorkersTyped, WorkerState
  <2> QED BY <1>0, <2>1 DEF Served, JoinsWithSocket
<1>2. ASSUME NEW s \in Sockets, IsOpen(s)', s \notin crossed', worker'["accept"].socket # s
      PROVE  LET h == HostOf[s]
             IN  /\ tcp_socket'[h] = s /\ Working(h)'
                 /\ thread'[h].at = "reading" => thread'[h].socket = s
  <2> DEFINE h == HostOf[s]
  <2>1. h \in Hosts /\ IsOpen(s) /\ s \notin crossed /\ worker["accept"].socket # s
    BY <1>0, <1>2
  <2>2. tcp_socket[h] = s /\ Working(h) /\ (thread[h].at = "reading" => thread[h].socket = s)
    BY <2>1 DEF Served, SocketsKept
  <2>3. Working(h)'
    BY <1>2, <2>1, <2>2 DEF ThreadServes
  <2> QED BY <2>1, <2>2, <2>3 DEF ThreadServes
<1>3. ASSUME NEW h \in Hosts, Resetting(h)', IsOpen(tcp_socket[h])'
      PROVE  tcp_socket'[h] \in crossed'
  <2>1. IsOpen(tcp_socket[h]) /\ Resetting(h)
    BY <1>0, <1>3, <1>t DEF RestTyped, ResetServes
  <2> QED BY <2>1 DEF Served, ClosedWhileResetting
<1> QED BY <1>1, <1>2, <1>3 DEF Served, SocketsKept, ClosedWhileResetting

(* Resetting tcp_socket_ after close() forgets no socket.                  *)
LEMMA UnsetServes ==
  ASSUME Shape, Served, NEW h \in Hosts, Unsetting(h), tcp_socket' = [tcp_socket EXCEPT ![h] = None],
         UNCHANGED <<descriptor, crossed>>,
         UNCHANGED <<worker["accept"].host, worker["accept"].socket>>,
         worker'["accept"].at = "join" => worker["accept"].at = "join",
         \A d \in Hosts : ThreadServes(d) /\ ResetServes(d)
  PROVE  Served'
<1>t. RestTyped /\ ThreadsTyped /\ WorkersTyped
  BY TypeParts DEF Shape
<1>1. IsOpen(tcp_socket[h]) => tcp_socket[h] \in crossed
  BY DEF Served, ClosedWhileResetting, Resetting
<1>2. tcp_socket'[h] = None /\ \A d \in Hosts \ {h} : tcp_socket'[d] = tcp_socket[d]
  BY <1>t DEF RestTyped
<1>3. JoinsWithSocket'
  BY <1>1, <1>2, <1>t DEF Served, JoinsWithSocket, IsOpen, WorkersTyped, WorkerFits, WorkerState
<1>4. ASSUME NEW s \in Sockets, IsOpen(s)', s \notin crossed', worker'["accept"].socket # s
      PROVE  /\ tcp_socket'[HostOf[s]] = s /\ Working(HostOf[s])'
             /\ thread'[HostOf[s]].at = "reading" => thread'[HostOf[s]].socket = s
  <2> DEFINE d == HostOf[s]
  <2>1. d \in Hosts /\ IsOpen(s) /\ s \notin crossed /\ worker["accept"].socket # s
    BY <1>4 DEF IsOpen
  <2>2. tcp_socket[d] = s /\ Working(d) /\ (thread[d].at = "reading" => thread[d].socket = s)
    BY <2>1 DEF Served, SocketsKept
  <2>3. d # h
    BY <1>1, <2>1, <2>2
  <2>4. tcp_socket'[d] = s
    BY <1>2, <2>1, <2>2, <2>3
  <2>5. Working(d)'
    BY <1>4, <2>1, <2>2, <2>4 DEF ThreadServes
  <2> QED BY <2>1, <2>2, <2>4, <2>5 DEF ThreadServes
<1>5. ASSUME NEW d \in Hosts, Resetting(d)', IsOpen(tcp_socket[d])'
      PROVE  tcp_socket'[d] \in crossed'
  <2>1. d # h /\ tcp_socket'[d] = tcp_socket[d]
    BY <1>2, <1>5 DEF IsOpen
  <2>2. Resetting(d) /\ IsOpen(tcp_socket[d])
    BY <1>5, <2>1 DEF ResetServes, IsOpen
  <2> QED BY <2>1, <2>2 DEF Served, ClosedWhileResetting
<1> QED BY <1>3, <1>4, <1>5 DEF Served, SocketsKept, ClosedWhileResetting

(* A worker that does not come to reset a socket starts no reset.          *)
LEMMA WorkerResets ==
  ASSUME UNCHANGED thread, NEW w \in Workers, WorkersStay(w), worker'[w].at # "unset",
         w = "accept" /\ worker'[w].at \in {"source", "state", "set_socket"} =>
           /\ worker[w].at \in {"unset", "source", "state", "set_socket"}
           /\ worker'[w].host = worker[w].host,
         NEW h \in Hosts
  PROVE  Resetting(h)' => Resetting(h)
BY DEF Resetting, Unsetting, WorkersStay

(* Served is inductive, given Shape.                                       *)
LEMMA ServedStep == Shape /\ Served /\ [Next]_vars => Served'
<1> SUFFICES ASSUME Shape, Served, [Next]_vars PROVE Served'
  OBVIOUS
<1>t. RestTyped /\ ThreadsTyped /\ WorkersTyped
  BY TypeParts DEF Shape
<1>1. ASSUME UNCHANGED <<tcp_socket, descriptor, crossed, thread>>,
             UNCHANGED <<worker["accept"].host, worker["accept"].socket>>,
             worker'["accept"].at = "join" => worker["accept"].at = "join",
             \A h \in Hosts : Resetting(h)' => Resetting(h)
      PROVE  Served'
  BY <1>1, ServedKept DEF ThreadServes, ResetServes, Working
<1>2. ASSUME UNCHANGED <<tcp_socket, crossed, worker>>,
             \A s \in Sockets : descriptor'[s] = "open" => descriptor[s] = "open",
             NEW h \in Hosts, OthersStay(h), ThreadServes(h),
             thread'[h].at = "unset" => ~IsOpen(tcp_socket[h])'
      PROVE  Served'
  <2>1. ASSUME NEW d \in Hosts
        PROVE  ThreadServes(d) /\ ResetServes(d)
    <3>1. CASE d = h
      BY <1>2, <3>1 DEF ResetServes, Resetting, Unsetting
    <3>2. CASE d # h
      BY <1>2, <3>2 DEF ThreadServes, ResetServes, Resetting, Unsetting, OthersStay, Working
    <3> QED BY <3>1, <3>2
  <2> QED BY <1>2, <2>1, ServedKept
<1>3. CASE UNCHANGED vars
  BY <1>1, <1>3 DEF vars, Resetting, Unsetting
<1>4. ASSUME NEW h \in Hosts, QuietReceives(h) \/ QuietActivates(h) \/ Arrives(h)
      PROVE  Served'
  <2>1. Quiet(h)
    BY <1>t, <1>4, QuietStep
  <2>2. thread'[h].at = "none" => tcp_socket[h] = None
    <3>1. CASE StartReceiving(h)
      BY <1>t, <3>1, GoFacts DEF StartReceiving
    <3>2. CASE ~StartReceiving(h)
      BY <1>4, <2>1, <3>2 DEF Quiet, QuietReceives, SocketRead, SocketReadFails, AnswerActivation,
         QuietActivates, ConnectionRoutingActivation, SelectRegistered, PerformAliveCheck,
         SendAliveCheckRequest, AliveCheckResult, Arrives, TesterCloses, ReceiveOther, Receive,
         ReceiveDiagnosticMessage, ReceiveAliveCheckResponse, ReceiveRoutingActivationRequest
    <3> QED BY <3>1, <3>2
  <2>3. ThreadServes(h)
    BY <2>1, <2>2 DEF Quiet, ThreadServes, Working, IsOpen
  <2> QED BY <1>2, <2>1, <2>3 DEF Quiet
<1>5. ASSUME NEW h \in Hosts,
             \/ AliveCheckAnswered(h) \/ SetSourceAddress(h) \/ SetRegistered(h)
             \/ UnsetSource(h) \/ EndReceiving(h)
      PROVE  Served'
  <2>1. /\ OthersStay(h) /\ thread'[h].at \in {"read", "close", "register", "granted", "state", "none"}
        /\ thread'[h].at \in {"state", "none"} => thread[h].at \in {"source", "state"}
    BY <1>t, <1>5, GoFacts, GoOnFacts
    DEF AliveCheckAnswered, SetSourceAddress, SetRegistered, UnsetSource, EndReceiving
  <2>2. UNCHANGED <<tcp_socket, descriptor, crossed, worker>>
    BY <1>5 DEF AliveCheckAnswered, SetSourceAddress, SetRegistered, UnsetSource, EndReceiving
  <2>3. ThreadServes(h)
    BY <2>1 DEF ThreadServes, Working
  <2> QED BY <1>2, <2>1, <2>2, <2>3
<1>6. ASSUME NEW h \in Hosts, CloseReceived(h)
      PROVE  Served'
  <2>1. OthersStay(h) /\ thread'[h].at = "unset"
    BY <1>t, <1>6, GoFacts DEF CloseReceived
  <2>2. /\ \A s \in Sockets : descriptor'[s] = "open" => descriptor[s] = "open"
        /\ tcp_socket'[h] # None => descriptor'[tcp_socket'[h]] # "open"
    BY <1>t, <1>6 DEF CloseReceived, CloseSocket, RestTyped
  <2>3. ~IsOpen(tcp_socket[h])'
    BY <2>2 DEF IsOpen
  <2> QED BY <1>2, <1>6, <2>1, <2>2, <2>3 DEF CloseReceived, ThreadServes
<1>7. ASSUME NEW h \in Hosts, UnsetSocket(h)
      PROVE  Served'
  <2>1. OthersStay(h) /\ thread'[h].at = "source" /\ thread[h].at = "unset" /\ Unsetting(h)
    BY <1>t, <1>7, GoOnFacts DEF UnsetSocket, Unsetting
  <2>2. \A d \in Hosts : ThreadServes(d)
    <3>1. \A d \in Hosts \ {h} : ThreadServes(d)
      BY <2>1 DEF ThreadServes, OthersStay, Working
    <3>2. ThreadServes(h)
      BY <2>1 DEF ThreadServes, Working
    <3> QED BY <3>1, <3>2
  <2>3. UNCHANGED worker
    BY <1>7 DEF UnsetSocket
  <2>4. \A d \in Hosts : ResetServes(d)
    BY <2>1, <2>3 DEF ResetServes, Resetting, Unsetting, OthersStay
  <2> QED BY <1>7, <2>1, <2>2, <2>3, <2>4, UnsetServes DEF UnsetSocket
<1>8. ASSUME NEW w \in Timers \cup {"accept"}, Cancel(w)
      PROVE  Served'
  <2> DEFINE h == worker[w].host
  <2>0. worker[w].at # "idle" /\ h \in Hosts /\ w \in Workers
    BY <1>t, <1>8 DEF WorkersTyped, WorkerFits, WorkerState, Cancel, CancelAliveCheck,
       CancelStopsAliveCheck, CancelSetsPromise, CancelSocket, CancelUnsetSocket, CancelSource, CancelState
  <2>1. /\ UNCHANGED <<worker["accept"].host, worker["accept"].socket, thread, crossed>>
        /\ worker'["accept"].at = "join" => worker["accept"].at = "join"
        /\ WorkersStay(w)
    <3>1. PICK at : /\ Move(w, at) \/ (w # "accept" /\ worker' = [worker EXCEPT ![w] = Idle])
                    /\ at # "join"
      BY <1>8 DEF Cancel, CancelAliveCheck, CancelStopsAliveCheck, CancelSetsPromise, CancelSocket,
         CancelUnsetSocket, CancelSource, CancelState
    <3>2. UNCHANGED <<worker["accept"].host, worker["accept"].socket>> /\
          (worker'["accept"].at = "join" => worker["accept"].at = "join") /\ WorkersStay(w)
      BY <1>t, <2>0, <3>1, MoveFacts, IdleFacts DEF WorkersStay
    <3> QED BY <1>8, <3>2 DEF Cancel, CancelAliveCheck, CancelStopsAliveCheck, CancelSetsPromise,
               CancelSocket, CancelUnsetSocket, CancelSource, CancelState
  <2>2. \A d \in Hosts : \A at \in {"stop", "promise", "close"} :
          Move(w, at) => (Resetting(d)' => Resetting(d))
    <3> SUFFICES ASSUME NEW d \in Hosts, NEW at \in {"stop", "promise", "close"}, Move(w, at)
                 PROVE  Resetting(d)' => Resetting(d)
      OBVIOUS
    <3>1. worker'[w].at = at
      BY <1>t, <2>0, MoveFacts
    <3> QED BY <2>0, <2>1, <3>1, WorkerResets
  <2>3. CASE CancelAliveCheck(w) \/ CancelStopsAliveCheck(w) \/ CancelSetsPromise(w)
    <3>1. PICK at \in {"stop", "promise", "close"} : Move(w, at)
      BY <2>3 DEF CancelAliveCheck, CancelStopsAliveCheck, CancelSetsPromise
    <3>2. UNCHANGED <<tcp_socket, descriptor>>
      BY <2>3 DEF CancelAliveCheck, CancelStopsAliveCheck, CancelSetsPromise
    <3> QED BY <1>1, <2>1, <2>2, <3>1, <3>2
  <2>4. CASE CancelSource(w) \/ CancelState(w)
    <3>1. /\ worker[w].at \in {"source", "state"} /\ UNCHANGED <<tcp_socket, descriptor>>
          /\ w # "accept" => worker'[w].at \in {"state", "result", "idle"}
          /\ w = "accept" => worker'[w].at \in {"state", "set_socket"} /\ worker'[w].host = h
      BY <1>t, <2>0, <2>4, MoveFacts, IdleFacts DEF CancelSource, CancelState
    <3>2. \A d \in Hosts : Resetting(d)' => Resetting(d)
      BY <2>0, <2>1, <3>1, WorkerResets
    <3> QED BY <1>1, <2>1, <3>1, <3>2
  <2>5. CASE CancelSocket(w)
    <3>1. UNCHANGED tcp_socket /\ \E at \in {"source", "unset"} : Move(w, at)
      BY <2>5 DEF CancelSocket
    <3>2. worker'[w].at \in {"source", "unset"} /\ worker'[w].host = h
      BY <1>t, <2>0, <3>1, MoveFacts
    <3>3. /\ \A s \in Sockets : descriptor'[s] = "open" => descriptor[s] = "open"
          /\ \A s \in Sockets : s = tcp_socket[h] => descriptor'[s] = "closed"
      BY <2>5 DEF CancelSocket, CloseSocket
    <3>4. ~IsOpen(tcp_socket[h])'
      <4>1. tcp_socket[h] \in Sockets \cup {None}
        BY <1>t, <2>0 DEF RestTyped
      <4>2. tcp_socket'[worker'[w].host] = tcp_socket[h]
        BY <3>1, <3>2
      <4> QED BY <3>3, <4>1, <4>2 DEF IsOpen
    <3>5. \A d \in Hosts : ResetServes(d)
      BY <2>1, <3>2, <3>4 DEF ResetServes, Resetting, Unsetting, WorkersStay
    <3>6. \A d \in Hosts : ThreadServes(d)
      BY <2>1 DEF ThreadServes, Working
    <3> QED BY <2>1, <3>1, <3>3, <3>5, <3>6, ServedKept
  <2>6. CASE CancelUnsetSocket(w)
    <3>1. worker'[w].at = "source" /\ worker'[w].host = h /\ worker[w].at = "unset"
      BY <1>t, <2>0, <2>6, MoveFacts DEF CancelUnsetSocket
    <3>2. Unsetting(h)
      BY <2>0, <3>1 DEF Unsetting
    <3>3. \A d \in Hosts : ResetServes(d)
      BY <2>1, <3>1, <3>2 DEF ResetServes, Resetting, Unsetting, WorkersStay
    <3>4. \A d \in Hosts : ThreadServes(d)
      BY <2>1 DEF ThreadServes, Working
    <3> QED BY <2>0, <2>1, <2>6, <3>2, <3>3, <3>4, UnsetServes DEF CancelUnsetSocket
  <2> QED BY <1>8, <2>3, <2>4, <2>5, <2>6 DEF Cancel
<1>10. ASSUME NEW s \in Sockets, Accept(s)
       PROVE  Served'
  <2>1. /\ UNCHANGED <<tcp_socket, thread, crossed>> /\ worker["accept"].socket = None
        /\ descriptor[s] = "new" /\ \A d \in Sockets \ {s} : descriptor'[d] = descriptor[d]
    BY <1>t, <1>10 DEF Accept, Shape, WorkersKeepTo, Idle, RestTyped
  <2>2. /\ worker'["accept"].at \in {"idle", "alive"} /\ WorkersStay("accept")
        /\ descriptor'[s] = "open" => worker'["accept"].socket = s
    BY <1>t, <1>10 DEF Accept, WorkersTyped, RestTyped, WorkersStay
  <2>3. SocketsKept' /\ JoinsWithSocket'
    BY <2>1, <2>2 DEF Served, SocketsKept, JoinsWithSocket, IsOpen, Working
  <2>4. ClosedWhileResetting'
    <3> SUFFICES ASSUME NEW h \in Hosts, Resetting(h)', IsOpen(tcp_socket[h])'
                 PROVE  tcp_socket[h] \in crossed
      BY <2>1 DEF ClosedWhileResetting
    <3>1. Resetting(h)
      BY <2>1, <2>2, WorkerResets
    <3>2. tcp_socket[h] \in Sockets /\ descriptor[tcp_socket[h]] # "new"
      BY <1>t, <2>1 DEF IsOpen, RestTyped, Shape, SocketsAccepted
    <3>3. IsOpen(tcp_socket[h])
      BY <2>1, <3>2 DEF IsOpen
    <3> QED BY <3>1, <3>3 DEF Served, ClosedWhileResetting
  <2> QED BY <2>3, <2>4 DEF Served
<1>11. CASE AddTcpSocket
  <2> DEFINE w == worker["accept"]
  <2>1. /\ w.host \in Hosts /\ w.at = "set_socket" /\ UNCHANGED <<descriptor, thread>>
        /\ worker'["accept"].host = w.host /\ worker'["accept"].socket = w.socket
        /\ worker'["accept"].at = "join" /\ WorkersStay("accept")
    BY <1>t, <1>11, MoveFacts DEF AddTcpSocket, WorkersTyped, WorkerFits, WorkerState
  <2>2. /\ tcp_socket'[w.host] = w.socket
        /\ \A d \in Hosts \ {w.host} : tcp_socket'[d] = tcp_socket[d]
        /\ Unsetting(w.host) => w.socket \in crossed'
        /\ crossed \subseteq crossed'
    BY <1>t, <1>11, <2>1 DEF AddTcpSocket, RestTyped
  <2>3. JoinsWithSocket'
    BY <2>1, <2>2 DEF JoinsWithSocket
  <2>4. IsOpen(tcp_socket[w.host]) => tcp_socket[w.host] \in crossed
    BY <2>1 DEF Served, ClosedWhileResetting, Resetting
  <2>5. SocketsKept'
    <3> SUFFICES ASSUME NEW s \in Sockets, IsOpen(s), s \notin crossed', w.socket # s
                 PROVE  /\ tcp_socket'[HostOf[s]] = s /\ Working(HostOf[s])'
                        /\ thread'[HostOf[s]].at = "reading" => thread'[HostOf[s]].socket = s
      BY <2>1 DEF SocketsKept, IsOpen
    <3>1. /\ HostOf[s] \in Hosts /\ tcp_socket[HostOf[s]] = s /\ Working(HostOf[s])
          /\ thread[HostOf[s]].at = "reading" => thread[HostOf[s]].socket = s
      BY <2>2 DEF Served, SocketsKept
    <3>2. HostOf[s] # w.host
      BY <2>2, <2>4, <3>1
    <3> QED BY <2>1, <2>2, <3>1, <3>2 DEF Working
  <2>6. ClosedWhileResetting'
    <3> SUFFICES ASSUME NEW d \in Hosts, Resetting(d)', IsOpen(tcp_socket[d])'
                 PROVE  tcp_socket'[d] \in crossed'
      BY DEF ClosedWhileResetting
    <3>1. Unsetting(d)
      BY <2>1 DEF Resetting, Unsetting, WorkersStay
    <3>2. CASE d # w.host
      BY <2>1, <2>2, <3>1, <3>2 DEF Served, ClosedWhileResetting, Resetting, IsOpen
    <3> QED BY <2>2, <3>1, <3>2
  <2> QED BY <2>3, <2>5, <2>6 DEF Served
<1>12. CASE SpawnReceiver
  <2> DEFINE w == worker["accept"]
  <2>1. /\ w.at = "join" /\ w.host \in Hosts /\ thread[w.host].at = "none" /\ HostOf[w.socket] = w.host
        /\ UNCHANGED <<descriptor, tcp_socket, crossed>>
        /\ worker'["accept"].at = "idle" /\ worker'["accept"].socket = None /\ WorkersStay("accept")
    BY <1>t, <1>12, IdleFacts
    DEF SpawnReceiver, WorkersTyped, WorkerFits, WorkerState, Shape, SocketsAccepted
  <2>2. OthersStay(w.host) /\ thread'[w.host].at = "start"
    BY <1>t, <1>12, <2>1, GoFacts DEF SpawnReceiver
  <2>3. SocketsKept'
    <3> SUFFICES ASSUME NEW s \in Sockets, IsOpen(s), s \notin crossed
                 PROVE  /\ tcp_socket[HostOf[s]] = s /\ Working(HostOf[s])'
                        /\ thread'[HostOf[s]].at = "reading" => thread'[HostOf[s]].socket = s
      BY <2>1 DEF SocketsKept, IsOpen
    <3>1. CASE w.socket = s
      BY <2>1, <2>2, <3>1 DEF Served, JoinsWithSocket, Working
    <3>2. CASE w.socket # s
      <4>1. /\ HostOf[s] \in Hosts /\ tcp_socket[HostOf[s]] = s /\ Working(HostOf[s])
            /\ thread[HostOf[s]].at = "reading" => thread[HostOf[s]].socket = s
        BY <3>2 DEF Served, SocketsKept
      <4>2. HostOf[s] # w.host
        BY <2>1, <4>1 DEF Working
      <4> QED BY <2>1, <2>2, <4>1, <4>2 DEF OthersStay, Working
    <3> QED BY <3>1, <3>2
  <2>4. ClosedWhileResetting'
    <3>1. \A d \in Hosts : Resetting(d)' => Resetting(d)
      BY <2>1, <2>2 DEF Resetting, Unsetting, WorkersStay, OthersStay
    <3> QED BY <2>1, <3>1 DEF Served, ClosedWhileResetting, IsOpen
  <2> QED BY <2>1, <2>3, <2>4 DEF Served, JoinsWithSocket
<1>13. ASSUME NEW k \in Timers, Timeout(k) \/ (\E h \in Hosts : Expires(k, h)) \/ AliveCheckTimedOut
       PROVE  Served'
  <2>1. \E v \in Timers : WorkersStay(v) /\ worker'[v].at # "unset"
    <3>1. CASE Timeout(k)
      BY <1>t, <3>1, MoveFacts DEF Timeout
    <3>2. CASE \E h \in Hosts : Expires(k, h)
      <4>1. PICK h \in Hosts : worker' = [worker EXCEPT ![k] = [Idle EXCEPT !.at = "finalize", !.host = h]]
        BY <3>2 DEF Expires
      <4>2. WorkersStay(k) /\ worker'[k].at = "finalize"
        BY <1>t, <4>1 DEF WorkersTyped, WorkersStay, Idle
      <4> QED BY <4>2
    <3>3. CASE AliveCheckTimedOut
      BY <1>t, <3>3, IdleFacts DEF AliveCheckTimedOut
    <3> QED BY <1>13, <3>1, <3>2, <3>3
  <2>2. worker'["accept"] = worker["accept"] /\ UNCHANGED thread
    BY <1>13, <2>1 DEF WorkersStay, Timeout, Expires, AliveCheckTimedOut
  <2>3. \A h \in Hosts : Resetting(h)' => Resetting(h)
    BY <2>1, <2>2, WorkerResets
  <2> QED BY <1>1, <1>13, <2>2, <2>3 DEF Timeout, Expires, AliveCheckTimedOut
<1>14. ASSUME RestartGeneralInactivity \/ \E h \in Hosts : Transmit(h)
       PROVE  Served'
  <2>1. WorkersStay("transmit") /\ worker'["transmit"].at # "unset"
    <3>1. CASE RestartGeneralInactivity
      BY <1>t, <3>1, IdleFacts DEF RestartGeneralInactivity
    <3>2. CASE \E h \in Hosts : Transmit(h)
      <4>1. PICK h \in Hosts :
              worker' = [worker EXCEPT !["transmit"] = [Idle EXCEPT !.at = "restart", !.host = h]]
        BY <3>2 DEF Transmit
      <4>2. "transmit" \in Workers
        OBVIOUS
      <4> QED BY <1>t, <4>1, <4>2 DEF WorkersTyped, WorkersStay, Idle
    <3> QED BY <1>14, <3>1, <3>2
  <2>2. worker'["accept"] = worker["accept"] /\ UNCHANGED thread
    BY <1>14, <2>1 DEF WorkersStay, RestartGeneralInactivity, Transmit
  <2>3. \A h \in Hosts : Resetting(h)' => Resetting(h)
    BY <2>1, <2>2, WorkerResets
  <2> QED BY <1>1, <1>14, <2>2, <2>3 DEF RestartGeneralInactivity, Transmit
<1> QED
  BY <1>3, <1>4, <1>5, <1>6, <1>7, <1>8, <1>10, <1>11, <1>12, <1>13, <1>14
  DEF Next, Accepts, TimesOut, Receives, Activates, QuietReceives, QuietActivates

(* Unless it was stored between another thread's close() and reset of      *)
(* tcp_socket_, an open socket is the one that its connection has and its  *)
(* thread reads, or the accepting thread is bringing it there.             *)
THEOREM SocketServed == Spec => []OpenSocketIsServed
<1>1. Init => Served
  BY DEF Init, Served, SocketsKept, ClosedWhileResetting, JoinsWithSocket, IsOpen, Idle
<1>2. Served => OpenSocketIsServed
  BY DEF Served, SocketsKept, OpenSocketIsServed, Working
<1> QED BY <1>1, <1>2, ServedStep, ShapeInvariant, PTL DEF Spec

-----------------------------------------------------------------------------
(* Who is registered for an address, and how many are registered, is       *)
(* decided under mutex_.                                                   *)

Decided == DeadIsUnusable /\ AddressDecided /\ OneConnectionPerAddress

(* While an activation holds mutex_ and others act, no connection joins    *)
(* those it has to mind, and what it relies on stays.                      *)
LEMMA OthersShrink ==
  ASSUME Shape, Background
  PROVE  /\ \A d \in Hosts : Trusted(d)' => Trusted(d)
         /\ \A d \in Hosts : Trusted(d)' /\ Usable(d)' => Usable(d) /\ source_addr'[d] = source_addr[d]
         /\ \A d \in Hosts : Registered(d)' => Registered(d)
         /\ \A h \in Hosts : Others(h)' \subseteq Others(h)
<1>1. ASSUME NEW d \in Hosts, Trusted(d)'
      PROVE  /\ Trusted(d)
             /\ Usable(d)' => Usable(d) /\ source_addr'[d] = source_addr[d]
  <2>1. KeepsTo(d)
    BY <1>1, BackgroundKeeps DEF Trusted
  <2>2. Trusted(d)
    BY <1>1, <2>1 DEF KeepsTo, Trusted
  <2>3. Usable(d)' => Registered(d) /\ ~Doomed(d)'
    BY <2>1 DEF KeepsTo, Usable, Doomed
  <2>4. Registered(d) => thread[d].at # "none"
    BY DEF Shape, RegisteredRuns
  <2> QED BY <1>1, <2>1, <2>2, <2>3, <2>4 DEF KeepsTo, Trusted, Usable, Doomed
<1>2. \A d \in Hosts : Registered(d)' => Registered(d)
  BY BackgroundKeeps DEF KeepsTo
<1> QED BY <1>1, <1>2 DEF Others

(* While one activation holds mutex_, no other one acts.                   *)
LEMMA MutexHeld ==
  ASSUME Shape, NEW h \in Hosts, Holding(h), NEW g \in Hosts, Activates(g)
  PROVE  g = h
<1>1. CASE ConnectionRoutingActivation(g)
  BY <1>1 DEF ConnectionRoutingActivation, MutexFree
<1>2. CASE ~ConnectionRoutingActivation(g)
  <2>1. Holding(g)
    BY <1>2 DEF Activates, SelectRegistered, PerformAliveCheck, SendAliveCheckRequest,
       AliveCheckResult, SetSourceAddress, SetRegistered, Holding, HoldingPositions
  <2> QED BY <2>1 DEF Shape, OneActivation
<1> QED BY <1>1, <1>2

(* Who asks, asks a connection.                                            *)
LEMMA AskedIsHost ==
  ASSUME Shape, NEW h \in Hosts, Asking(h)
  PROVE  Asked(h) \in Hosts
<1>1. thread[h].rest \in Seq(Hosts) /\ thread[h].rest # << >>
  BY TypeParts DEF Shape, ThreadsTyped, ThreadFits, ThreadState, Asking
<1> QED BY <1>1 DEF Asked

(* What Alive sets and what it leaves.                                     *)
LEMMA AliveFacts ==
  ASSUME ThreadsTyped, NEW h \in Hosts, NEW rest, NEW all \in BOOLEAN, Alive(h, rest, all)
  PROVE  /\ thread'[h].at = (IF all THEN "select" ELSE "check")
         /\ thread'[h].rest = rest /\ thread'[h].all = all /\ thread'[h].addr = thread[h].addr
BY DEF Alive, ThreadsTyped, ThreadState

(* What passing on to the next connection sets and what it leaves.         *)
LEMMA NextPeerFacts ==
  ASSUME ThreadsTyped, NEW h \in Hosts,
         \/ thread' = [thread EXCEPT ![h].at = "select", ![h].rest = Tail(@)]
         \/ thread[h].at = "select" /\ thread' = [thread EXCEPT ![h].rest = Tail(thread[h].rest)]
  PROVE  thread'[h].at = "select" /\ thread'[h].addr = thread[h].addr /\ thread'[h].all = thread[h].all
<1>1. CASE thread' = [thread EXCEPT ![h].at = "select", ![h].rest = Tail(@)]
  BY <1>1 DEF ThreadsTyped, ThreadState
<1>2. CASE thread[h].at = "select" /\ thread' = [thread EXCEPT ![h].rest = Tail(thread[h].rest)]
  BY <1>2 DEF ThreadsTyped, ThreadState
<1> QED BY <1>1, <1>2

(* A connection that fails its check is closing, or closed already, when   *)
(* the promise is set.                                                     *)
LEMMA DeadStep ==
  ASSUME Shape, DeadIsUnusable, Next
  PROVE  DeadIsUnusable'
<1> SUFFICES ASSUME NEW h \in Hosts, thread'[h].at = "await", NEW c, c = Head(thread'[h].rest),
                    promise'[c] = "false", c \in Others(h)'
             PROVE  FALSE
  BY DEF DeadIsUnusable, Asked
<1>t. RestTyped /\ ThreadsTyped /\ WorkersTyped
  BY TypeParts DEF Shape
<1>1. ~Asks(h)
  <2> SUFFICES ASSUME Asks(h) PROVE FALSE
    OBVIOUS
  <2>1. c = Head(thread[h].rest) /\ c \in Hosts
    BY <1>t, GoOnFacts DEF Asks, SendAliveCheckRequest, Others
  <2> QED BY <1>t, <2>1 DEF Asks, SendAliveCheckRequest, RestTyped
<1>2. thread'[h] = thread[h] /\ Holding(h) /\ Asking(h) /\ c = Asked(h) /\ c \in Hosts
  BY <1>1, WaitsOn DEF Holding, HoldingPositions, Asking, Asked, Others
<1>3. CASE Background
  <2>1. c \in Others(h)
    BY <1>3, OthersShrink
  <2>2. promise[c] # "false"
    BY <1>2, <2>1 DEF DeadIsUnusable
  <2>3. c \notin taken_over' /\ ~Doomed(c)'
    BY DEF Others, Trusted, Usable, Doomed
  <2>4. ASSUME NEW g \in Hosts, AliveCheckAnswered(g)
        PROVE  FALSE
    <3>1. g = c /\ Go(g, "close")
      BY <1>t, <1>2, <2>2, <2>4 DEF AliveCheckAnswered, SetAliveCheckResult, RestTyped
    <3>2. thread'[c].at = "close"
      BY <1>t, <1>2, <3>1, GoFacts
    <3> QED BY <2>3, <3>2 DEF Doomed, Closing
  <2>5. ASSUME NEW w \in Timers \cup {"accept"}, CancelSetsPromise(w)
        PROVE  FALSE
    <3>1. worker[w].host = c /\ w \in Workers
      BY <1>t, <1>2, <2>2, <2>5 DEF CancelSetsPromise, RestTyped
    <3>2. worker'[w].at = "close" /\ worker'[w].host = c
      BY <1>t, <2>5, <3>1, MoveFacts DEF CancelSetsPromise
    <3> QED BY <2>3, <3>1, <3>2 DEF Doomed, Closing
  <2>6. CASE AliveCheckTimedOut
    <3>1. worker["alive_check"].host = c /\ worker["alive_check"].at = "result"
      BY <1>t, <1>2, <2>2, <2>6 DEF AliveCheckTimedOut, SetAliveCheckResult, RestTyped
    <3>2. CleaningUp(c) /\ UNCHANGED <<descriptor, tcp_socket, taken_over>>
      BY <2>6, <3>1 DEF CleaningUp, AliveCheckTimedOut
    <3> QED BY <1>2, <2>3, <3>2 DEF Shape, ClosedWhileCleaning, Doomed, IsOpen
  <2>7. CASE UNCHANGED promise
    BY <2>2, <2>7
  <2>8. ASSUME NEW g \in Hosts, Receives(g) \/ Arrives(g) \/ Transmit(g)
        PROVE  UNCHANGED promise \/ AliveCheckAnswered(g)
    BY <2>8 DEF Receives, StartReceiving, SocketRead, SocketReadFails,
       CloseReceived, UnsetSocket, UnsetSource, EndReceiving, AnswerActivation, Arrives, TesterCloses,
       ReceiveOther, Receive, ReceiveDiagnosticMessage, ReceiveAliveCheckResponse,
       ReceiveRoutingActivationRequest, Transmit, connection_vars
  <2>9. ASSUME NEW w \in Timers \cup {"accept"}, Cancel(w)
        PROVE  UNCHANGED promise \/ CancelSetsPromise(w)
    BY <2>9 DEF Cancel, CancelAliveCheck, CancelStopsAliveCheck, CancelSocket, CancelUnsetSocket,
       CancelSource, CancelState
  <2>10. ASSUME \/ AddTcpSocket \/ SpawnReceiver \/ RestartGeneralInactivity
                \/ \E s \in Sockets : Accept(s)
                \/ \E k \in Timers : Timeout(k) \/ \E g \in Hosts : Expires(k, g)
         PROVE  UNCHANGED promise
    BY <2>10 DEF AddTcpSocket, SpawnReceiver, RestartGeneralInactivity, Accept, Timeout, Expires
  <2> QED BY <1>3, <2>4, <2>5, <2>6, <2>7, <2>8, <2>9, <2>10 DEF Background, Next, Accepts, TimesOut
<1>4. ASSUME NEW g \in Hosts, Activates(g)
      PROVE  FALSE
  <2>1. g = h
    BY <1>2, <1>4, MutexHeld
  <2>2. AliveCheckResult(h)
    BY <1>1, <1>2, <1>4, <2>1 DEF Asks, Activates, ConnectionRoutingActivation, SelectRegistered,
       PerformAliveCheck, SetSourceAddress, SetRegistered
  <2>3. thread'[h].at \in {"grant", "close", "select"}
    BY <1>t, <2>2, GoFacts, GoOnFacts, NextPeerFacts DEF AliveCheckResult, Refuse
  <2> QED BY <2>3
<1> QED BY <1>3, <1>4 DEF Background

(* Every step preserves AddressDecided.                                    *)
LEMMA AddressStep ==
  ASSUME Shape, Decided, Next
  PROVE  AddressDecided'
<1> SUFFICES ASSUME NEW h \in Hosts, NEW d, d \in Others(h)', Trusted(h)', Holding(h)'
             PROVE  Distinguishes(h, d)'
  <2>1. ASSUME NEW h \in Hosts, ~Holding(h)', NEW d
        PROVE  Distinguishes(h, d)'
    BY <2>1 DEF Distinguishes, Holding, HoldingPositions, Asking
  <2> QED BY <2>1 DEF AddressDecided
<1>t. RestTyped /\ ThreadsTyped /\ WorkersTyped
  BY TypeParts DEF Shape
<1>d. d \in Hosts \ {h}
  BY DEF Others
<1>a. ASSUME Trusted(h), d \in Others(h)
      PROVE  Distinguishes(h, d)
  BY <1>a DEF Decided, AddressDecided
<1>1. CASE Background
  <2>1. thread'[h] = thread[h] /\ thread[h].at # "none"
    BY <1>1, HoldsOn DEF Background, Holding, HoldingPositions
  <2>2. Trusted(h) /\ d \in Others(h) /\ source_addr'[d] = source_addr[d]
    BY <1>1, OthersShrink DEF Others
  <2>3. ~Doomed(h)' => ~Doomed(h) /\ source_addr'[h] = source_addr[h]
    BY <1>1, <2>1, BackgroundKeeps DEF KeepsTo, Trusted
  <2> QED BY <1>a, <2>1, <2>2, <2>3 DEF Distinguishes, Asking, Asked
<1>2. ASSUME NEW g \in Hosts \ {h}, Activates(g)
      PROVE  FALSE
  <2>1. Holding(h)
    BY <1>2, ActivatesFacts DEF OthersStay, Holding
  <2> QED BY <1>2, <2>1, MutexHeld
<1>3. CASE Activates(h)
  <2>0. d \in Others(h) /\ source_addr'[d] = source_addr[d] /\ (Doomed(h) => Doomed(h)')
    BY <1>3, <1>d, ActivatesFacts, ActivatesOthers
  <2>a. ASSUME UNCHANGED doubtful
        PROVE  Trusted(h)
    BY <1>3, <2>a, ActivatesFacts DEF Trusted
  <2>1. CASE ConnectionRoutingActivation(h)
    <3> DEFINE a == thread[h].addr
    <3>1. ~\E c, e \in RegisteredAs(a) : c # e
      BY <2>1 DEF ConnectionRoutingActivation, Trusted
    <3>2. source_addr[d] = a => d \in RegisteredAs(a)
      BY <1>d, <2>0 DEF Others, Usable, RegisteredAs, Shape, WorkedOnIsCreated
    <3>3. CASE GoOn(h, "grant") /\ Registered(h) /\ source_addr[h] = a
      <4>1. h \in RegisteredAs(a)
        BY <3>3 DEF RegisteredAs, Shape, WorkedOnIsCreated
      <4>2. source_addr[d] # a
        BY <1>d, <3>1, <3>2, <4>1
      <4> QED BY <1>t, <2>0, <3>3, <4>2, GoOnFacts DEF Distinguishes, Asking
    <3>4. CASE RegisteredAs(a) = {} /\ GoOn(h, "grant")
      BY <1>t, <2>0, <3>2, <3>4, GoOnFacts DEF Distinguishes, Asking
    <3>5. CASE RegisteredAs(a) = {} /\ Alive(h, connections, TRUE)
      <4>1. thread'[h].at = "select" /\ thread'[h].addr = a
        BY <1>t, <3>5, AliveFacts
      <4> QED BY <2>0, <3>2, <3>5, <4>1 DEF Distinguishes, Asking
    <3>6. ASSUME NEW c \in Hosts, FindRegisterConnectionBySA(a, c), Alive(h, <<c>>, FALSE)
          PROVE  Distinguishes(h, d)'
      <4>1. c \in RegisteredAs(a)
        BY <3>6 DEF FindRegisterConnectionBySA
      <4>2. /\ thread'[h].at = "check" /\ thread'[h].addr = a
            /\ thread'[h].all = FALSE /\ Head(thread'[h].rest) = c
        <5>1. FALSE \in BOOLEAN /\ Head(<<c>>) = c
          OBVIOUS
        <5>2. /\ thread'[h].at = "check" /\ thread'[h].addr = a
              /\ thread'[h].all = FALSE /\ thread'[h].rest = <<c>>
          BY <1>t, <3>6, <5>1, AliveFacts
        <5> QED BY <5>1, <5>2
      <4>3. source_addr[d] = a => d = c
        BY <3>1, <3>2, <4>1
      <4> QED BY <2>0, <4>2, <4>3 DEF Distinguishes, Asking, Asked
    <3>7. CASE Refuse(h)
      BY <1>t, <3>7, GoFacts DEF Refuse, Holding, HoldingPositions
    <3> QED BY <2>1, <3>3, <3>4, <3>5, <3>6, <3>7 DEF ConnectionRoutingActivation
  <2>2. CASE SelectRegistered(h)
    <3>1. source_addr[d] # thread[h].addr
      BY <1>a, <2>0, <2>2, <2>a DEF SelectRegistered, Distinguishes, history_vars
    <3>2. /\ thread'[h].at \in {"select", "check"} => thread'[h].addr = thread[h].addr
          /\ thread'[h].at \in {"select", "check", "close"}
      <4>1. CASE Refuse(h)
        BY <1>t, <4>1, GoFacts DEF Refuse
      <4>2. CASE GoOn(h, "check")
        BY <1>t, <4>2, GoOnFacts
      <4>3. CASE thread' = [thread EXCEPT ![h].rest = Tail(thread[h].rest)]
        <5>1. thread[h].at = "select"
          BY <2>2 DEF SelectRegistered
        <5> QED BY <1>t, <4>3, <5>1, NextPeerFacts
      <4> QED BY <2>2, <4>1, <4>2, <4>3 DEF SelectRegistered
    <3> QED BY <2>0, <3>1, <3>2 DEF Distinguishes, Asking
  <2>3. CASE PerformAliveCheck(h)
    <3>1. /\ thread[h].at = "check" /\ thread'[h].at \in {"grant", "request"}
          /\ thread'[h].addr = thread[h].addr /\ thread'[h].rest = thread[h].rest
          /\ thread'[h].all = thread[h].all
      BY <1>t, <2>3, GoOnFacts DEF PerformAliveCheck
    <3>2. Trusted(h)
      BY <1>3, <2>3, ActivatesFacts DEF PerformAliveCheck, Trusted
    <3>3. source_addr[d] = thread[h].addr => ~thread[h].all /\ d = Asked(h)
      BY <1>a, <2>0, <3>1, <3>2 DEF Distinguishes, Asking
    <3>4. thread'[h].at = "grant" => d # Asked(h)
      <4>1. thread'[h].at = "grant" =>
              tcp_socket[Asked(h)] = None \/ ~Registered(Asked(h)) \/ h \in doubtful'
        BY <1>t, <2>3, GoOnFacts DEF PerformAliveCheck, Asked
      <4> QED BY <2>0, <4>1 DEF Trusted, Others, Usable, IsOpen
    <3> QED BY <2>0, <3>1, <3>3, <3>4 DEF Distinguishes, Asking, Asked
  <2>4. CASE SendAliveCheckRequest(h)
    <3>1. /\ thread[h].at = "request" /\ thread'[h].at = "await"
          /\ thread'[h].addr = thread[h].addr /\ thread'[h].rest = thread[h].rest
          /\ thread'[h].all = thread[h].all /\ Trusted(h)
      BY <1>t, <2>4, <2>a, GoOnFacts DEF SendAliveCheckRequest
    <3> QED BY <1>a, <2>0, <3>1 DEF Distinguishes, Asking, Asked
  <2>5. CASE AliveCheckResult(h)
    <3>1. thread[h].at = "await" /\ Trusted(h)
      BY <2>5, <2>a DEF AliveCheckResult
    <3>2. source_addr[d] = thread[h].addr => ~thread[h].all /\ d = Asked(h)
      BY <1>a, <2>0, <3>1 DEF Distinguishes, Asking
    <3>3. CASE promise[Asked(h)] = "false" /\ GoOn(h, "grant")
      <4>1. d # Asked(h)
        BY <2>0, <3>1, <3>3 DEF Decided, DeadIsUnusable
      <4>2. thread'[h].at = "grant" /\ thread'[h].addr = thread[h].addr
        BY <1>t, <3>3, GoOnFacts
      <4> QED BY <2>0, <3>2, <4>1, <4>2 DEF Distinguishes, Asking
    <3>4. CASE thread[h].all /\ thread' = [thread EXCEPT ![h].at = "select", ![h].rest = Tail(@)]
      <4>1. thread'[h].at = "select" /\ thread'[h].addr = thread[h].addr
        BY <1>t, <3>4, NextPeerFacts
      <4> QED BY <2>0, <3>2, <3>4, <4>1 DEF Distinguishes, Asking
    <3>5. CASE Refuse(h)
      BY <1>t, <3>5, GoFacts DEF Refuse, Holding, HoldingPositions
    <3> QED BY <2>5, <3>3, <3>4, <3>5 DEF AliveCheckResult, Asked
  <2>6. CASE SetSourceAddress(h)
    <3>1. thread[h].at = "grant" /\ Trusted(h)
      BY <2>6, <2>a DEF SetSourceAddress
    <3>2. thread'[h].at = "register" /\ source_addr'[h] = thread[h].addr
      BY <1>t, <2>6, GoFacts DEF SetSourceAddress, RestTyped
    <3> QED BY <1>a, <2>0, <3>1, <3>2 DEF Distinguishes, Asking
  <2>7. CASE SetRegistered(h)
    BY <1>t, <2>7, GoFacts DEF SetRegistered, Holding, HoldingPositions
  <2> QED BY <1>3, <2>1, <2>2, <2>3, <2>4, <2>5, <2>6, <2>7 DEF Activates
<1> QED BY <1>1, <1>2, <1>3 DEF Background

(* Every step preserves OneConnectionPerAddress.                           *)
LEMMA OneStep ==
  ASSUME Shape, Decided, Next
  PROVE  OneConnectionPerAddress'
<1>t. RestTyped /\ ThreadsTyped /\ WorkersTyped
  BY TypeParts DEF Shape
<1>1. ASSUME NEW g \in Hosts, Activates(g), NEW e \in Hosts \ {g},
             Trusted(g)', Usable(g)', Trusted(e)', Usable(e)', source_addr'[g] = source_addr'[e]
      PROVE  FALSE
  <2>1. /\ e \in Others(g) /\ source_addr'[e] = source_addr[e] /\ ~Doomed(g)
        /\ ~Doomed(g)'
    BY <1>1, ActivatesFacts, ActivatesOthers DEF Others, Usable, Doomed
  <2>a. ASSUME UNCHANGED doubtful
        PROVE  Trusted(g) /\ Distinguishes(g, e)
    BY <1>1, <2>1, <2>a, ActivatesFacts DEF Trusted, Decided, AddressDecided
  <2>2. CASE ConnectionRoutingActivation(g)
    <3> DEFINE a == thread[g].addr
    <3>1. ~\E c, d \in RegisteredAs(a) : c # d
      BY <1>1, <2>2 DEF ConnectionRoutingActivation, Trusted
    <3>2. Registered(g) /\ UNCHANGED source_addr
      BY <1>1, <2>2 DEF ConnectionRoutingActivation, Usable, Registered
    <3>3. ~Refuse(g)
      BY <1>t, <2>1, GoFacts DEF Refuse, Doomed, Closing
    <3>4. source_addr[g] = a
      BY <2>2, <3>2, <3>3 DEF ConnectionRoutingActivation
    <3>5. g \in RegisteredAs(a) /\ e \in RegisteredAs(a)
      BY <1>1, <2>1, <3>2, <3>4 DEF RegisteredAs, Others, Usable, Shape, WorkedOnIsCreated
    <3> QED BY <1>1, <3>1, <3>5
  <2>3. CASE SetSourceAddress(g)
    <3>1. thread[g].at = "grant" /\ source_addr'[g] = thread[g].addr
      BY <1>t, <2>3 DEF SetSourceAddress, RestTyped
    <3> QED BY <1>1, <2>1, <2>3, <2>a, <3>1 DEF SetSourceAddress, Distinguishes
  <2>4. CASE SetRegistered(g)
    BY <1>1, <2>1, <2>4, <2>a DEF SetRegistered, Distinguishes
  <2>5. CASE \/ SelectRegistered(g) \/ PerformAliveCheck(g) \/ SendAliveCheckRequest(g)
             \/ AliveCheckResult(g)
    <3>1. Trusted(g) /\ UNCHANGED <<state, source_addr>>
      BY <1>1, <2>5, ActivatesFacts DEF SelectRegistered, PerformAliveCheck, SendAliveCheckRequest,
         AliveCheckResult, Trusted
    <3>2. Usable(g)
      BY <1>1, <2>1, <3>1 DEF Usable, Registered, Doomed
    <3> QED BY <1>1, <2>1, <3>1, <3>2 DEF Decided, OneConnectionPerAddress, Others, Trusted
  <2> QED BY <1>1, <2>2, <2>3, <2>4, <2>5 DEF Activates
<1>2. ASSUME NEW c \in Hosts, NEW d \in Hosts, c # d,
             Trusted(c)', Usable(c)', Trusted(d)', Usable(d)', source_addr'[c] = source_addr'[d]
      PROVE  FALSE
  <2>1. ASSUME Trusted(c), Trusted(d), Usable(c), Usable(d), source_addr[c] = source_addr[d]
        PROVE  FALSE
    BY <1>2, <2>1 DEF Decided, OneConnectionPerAddress, Trusted
  <2>2. CASE Background
    BY <1>2, <2>1, <2>2, OthersShrink
  <2>3. ASSUME NEW g \in Hosts, Activates(g)
        PROVE  FALSE
    <3>1. CASE g = c \/ g = d
      BY <1>1, <1>2, <2>3, <3>1
    <3>2. CASE g # c /\ g # d
      BY <1>2, <2>1, <2>3, <3>2, ActivatesFacts, ActivatesOthers
    <3> QED BY <3>1, <3>2
  <2> QED BY <2>2, <2>3 DEF Background
<1> QED BY <1>2 DEF OneConnectionPerAddress, Trusted

(* Decided is inductive, given Shape.                                      *)
LEMMA DecidedStep == Shape /\ Decided /\ [Next]_vars => Decided'
<1> SUFFICES ASSUME Shape, Decided, [Next]_vars PROVE Decided'
  OBVIOUS
<1>1. CASE Next
  BY <1>1, DeadStep, AddressStep, OneStep DEF Decided
<1>2. CASE UNCHANGED vars
  <2> USE <1>2 DEF vars, Usable, Registered, IsOpen, Closing, Trusted, Others, Asked
  <2>1. DeadIsUnusable'
    BY DEF Decided, DeadIsUnusable
  <2>2. AddressDecided'
    BY DEF Decided, AddressDecided, Distinguishes, Doomed, Asking
  <2>3. OneConnectionPerAddress'
    BY DEF Decided, OneConnectionPerAddress
  <2> QED BY <2>1, <2>2, <2>3 DEF Decided
<1> QED BY <1>1, <1>2

(* No two usable connections are registered with the same source address,  *)
(* but for those that replaced a socket in use, and the activations that   *)
(* found more registered than allowed, or a check under way already.       *)
THEOREM OneConnection == Spec => []OneConnectionPerAddress
<1>1. Init => Decided
  BY DEF Init, Decided, DeadIsUnusable, AddressDecided, OneConnectionPerAddress, Others, Usable,
     Registered, Ended
<1>2. Decided => OneConnectionPerAddress
  BY DEF Decided
<1> QED BY <1>1, <1>2, DecidedStep, ShapeInvariant, PTL DEF Spec

-----------------------------------------------------------------------------
(* Whoever asks another connection is not registered itself.               *)
AsksUnregistered ==
  \A h \in Hosts : thread[h].at \in {"select", "check", "request", "await"} => ~Registered(h)

Limited == AsksUnregistered /\ RoomDecided /\ RegisteredWithinLimit

(* Counting connections.                                                   *)
LEMMA Counting ==
  ASSUME NEW S \in SUBSET Hosts
  PROVE  /\ IsFiniteSet(S) /\ Cardinality(S) \in Nat
         /\ \A T \in SUBSET S : Cardinality(T) <= Cardinality(S)
         /\ \A x \in S : Cardinality(S \ {x}) < Cardinality(S)
         /\ \A x : Cardinality(S \cup {x}) <= Cardinality(S) + 1
         /\ S = {} => Cardinality(S) = 0
<1>1. IsFiniteSet(S)
  BY FS_Subset
<1>2. Cardinality(S) \in Nat
  BY <1>1, FS_CardinalityType
<1>3. \A T \in SUBSET S : Cardinality(T) <= Cardinality(S)
  BY <1>1, FS_Subset
<1>4. ASSUME NEW x \in S
      PROVE  Cardinality(S \ {x}) < Cardinality(S)
  <2>1. Cardinality(S \ {x}) = Cardinality(S) - 1
    BY <1>1, FS_RemoveElement
  <2> QED BY <1>2, <2>1
<1>5. ASSUME NEW x
      PROVE  Cardinality(S \cup {x}) <= Cardinality(S) + 1
  <2>1. Cardinality(S \cup {x}) = IF x \in S THEN Cardinality(S) ELSE Cardinality(S) + 1
    BY <1>1, FS_AddElement
  <2> QED BY <1>2, <2>1
<1> QED BY <1>1, <1>2, <1>3, <1>4, <1>5, FS_EmptySet

(* A larger set that is within a limit bounds a smaller one.               *)
LEMMA Bounded ==
  ASSUME NEW S \in SUBSET Hosts, NEW T \in SUBSET S, NEW n \in Nat
  PROVE  /\ Cardinality(S) <= n => Cardinality(T) <= n
         /\ Cardinality(S) < n => Cardinality(T) < n
<1>1. Cardinality(S) \in Nat /\ Cardinality(T) <= Cardinality(S)
  BY Counting
<1>2. T \in SUBSET Hosts
  OBVIOUS
<1>3. Cardinality(T) \in Nat
  BY <1>2, Counting
<1> QED BY <1>1, <1>3

(* Every step preserves AsksUnregistered.                                  *)
LEMMA UnregisteredStep ==
  ASSUME Shape, AsksUnregistered, Next
  PROVE  AsksUnregistered'
<1> SUFFICES ASSUME NEW h \in Hosts, thread'[h].at \in {"select", "check", "request", "await"}
             PROVE  ~Registered(h)'
  BY DEF AsksUnregistered
<1>t. ThreadsTyped
  BY TypeParts DEF Shape
<1>h. Holding(h)'
  BY DEF Holding, HoldingPositions
<1>1. CASE Background
  BY <1>h, <1>1, HoldsOn, OthersShrink DEF Background, AsksUnregistered
<1>2. ASSUME NEW g \in Hosts \ {h}, Activates(g)
      PROVE  FALSE
  <2>1. Holding(h)
    BY <1>h, <1>2, ActivatesFacts DEF OthersStay, Holding
  <2> QED BY <1>2, <2>1, MutexHeld
<1>3. CASE Activates(h)
  <2>1. CASE ConnectionRoutingActivation(h)
    <3>1. ~(Refuse(h) \/ GoOn(h, "grant"))
      BY <1>t, GoFacts, GoOnFacts DEF Refuse
    <3> QED BY <2>1, <3>1 DEF ConnectionRoutingActivation, Registered
  <2>2. CASE SetSourceAddress(h) \/ SetRegistered(h)
    BY <1>t, <2>2, GoFacts DEF SetSourceAddress, SetRegistered
  <2>3. CASE \/ SelectRegistered(h) \/ PerformAliveCheck(h) \/ SendAliveCheckRequest(h)
             \/ AliveCheckResult(h)
    BY <2>3 DEF SelectRegistered, PerformAliveCheck, SendAliveCheckRequest, AliveCheckResult,
       AsksUnregistered, Registered
  <2> QED BY <1>3, <2>1, <2>2, <2>3 DEF Activates
<1> QED BY <1>1, <1>2, <1>3 DEF Background

(* What RoomDecided says of one activation.                                *)
HasRoom(h) ==
  /\ thread[h].at = "select" => Cardinality(RegisteredHosts \ {h}) <= MaxConcurrentTcpSockets
  /\ Asking(h) => Cardinality(RegisteredHosts \ {h, Asked(h)}) < MaxConcurrentTcpSockets
  /\ thread[h].at \in {"grant", "register"} => Cardinality(Others(h)) < MaxConcurrentTcpSockets

(* Every step preserves RoomDecided.                                       *)
LEMMA RoomStep ==
  ASSUME Shape, DeadIsUnusable, Limited, Next, MaxConcurrentTcpSockets > 0
  PROVE  RoomDecided'
<1> USE DEF Registered
<1> DEFINE Max == MaxConcurrentTcpSockets
<1> SUFFICES ASSUME NEW h \in Hosts, Trusted(h)', Holding(h)'
             PROVE  HasRoom(h)'
  <2>1. ASSUME NEW h \in Hosts, ~Holding(h)'
        PROVE  HasRoom(h)'
    BY <2>1 DEF HasRoom, Holding, HoldingPositions, Asking
  <2> QED BY <2>1 DEF RoomDecided, HasRoom
<1>t. RestTyped /\ ThreadsTyped /\ WorkersTyped
  BY TypeParts DEF Shape
<1>0. RegisteredHosts \in SUBSET Hosts /\ Others(h) \in SUBSET RegisteredHosts /\ h \notin Others(h)
  BY DEF RegisteredHosts, Others, Usable
<1>a. Trusted(h) => HasRoom(h)
  BY DEF Limited, RoomDecided, HasRoom
<1>1. CASE Background
  <2>1. thread'[h] = thread[h] /\ Trusted(h)
    BY <1>1, HoldsOn, OthersShrink DEF Background
  <2>2. RegisteredHosts' \subseteq RegisteredHosts /\ Others(h)' \subseteq Others(h)
    BY <1>1, OthersShrink DEF RegisteredHosts
  <2>3. thread[h].at = "select" => Cardinality(RegisteredHosts' \ {h}) <= Max
    <3>1. RegisteredHosts \ {h} \in SUBSET Hosts /\ RegisteredHosts' \ {h} \in SUBSET (RegisteredHosts \ {h})
      BY <1>0, <2>2
    <3> QED BY <1>a, <2>1, <3>1, Bounded DEF HasRoom
  <2>4. Asking(h) => Cardinality(RegisteredHosts' \ {h, Asked(h)}) < Max
    <3>1. /\ RegisteredHosts \ {h, Asked(h)} \in SUBSET Hosts
          /\ RegisteredHosts' \ {h, Asked(h)} \in SUBSET (RegisteredHosts \ {h, Asked(h)})
      BY <1>0, <2>2
    <3> QED BY <1>a, <2>1, <3>1, Bounded DEF HasRoom
  <2>5. thread[h].at \in {"grant", "register"} => Cardinality(Others(h)') < Max
    <3>1. Others(h) \in SUBSET Hosts /\ Others(h)' \in SUBSET Others(h)
      BY <1>0, <2>2
    <3> QED BY <1>a, <2>1, <3>1, Bounded DEF HasRoom
  <2> QED BY <2>1, <2>3, <2>4, <2>5 DEF HasRoom, Asking, Asked
<1>2. ASSUME NEW g \in Hosts \ {h}, Activates(g)
      PROVE  FALSE
  <2>1. Holding(h)
    BY <1>2, ActivatesFacts DEF OthersStay, Holding
  <2> QED BY <1>2, <2>1, MutexHeld
<1>3. CASE Activates(h) /\ UNCHANGED state
  <2>0. Others(h)' = Others(h) /\ RegisteredHosts' = RegisteredHosts
    BY <1>3, ActivatesOthers DEF RegisteredHosts
  <2>a. UNCHANGED doubtful => HasRoom(h)
    BY <1>3, <1>a, ActivatesFacts DEF Trusted
  <2>g. ASSUME thread'[h].at \in {"grant", "register"}, Cardinality(Others(h)) < Max
        PROVE  HasRoom(h)'
    BY <2>0, <2>g DEF HasRoom, Asking
  <2>s. ASSUME thread'[h].at = "select", Cardinality(RegisteredHosts \ {h}) <= Max
        PROVE  HasRoom(h)'
    BY <2>0, <2>s DEF HasRoom, Asking
  <2>c. ASSUME NEW c, thread'[h].at \in {"check", "request", "await"}, c = Head(thread'[h].rest),
               Cardinality(RegisteredHosts \ {h, c}) < Max
        PROVE  HasRoom(h)'
    BY <2>0, <2>c DEF HasRoom, Asking, Asked
  <2>r. ~Refuse(h)
    BY <1>t, GoFacts DEF Refuse, Holding, HoldingPositions
  <2>1. CASE ConnectionRoutingActivation(h)
    <3> DEFINE a == thread[h].addr
    <3>1. ~(Cardinality(RegisteredHosts) > Max) /\ Cardinality(RegisteredHosts) \in Nat
      BY <1>0, <2>1, Counting DEF ConnectionRoutingActivation, Trusted
    <3>2. CASE GoOn(h, "grant") /\ Registered(h)
      <4>1. h \in RegisteredHosts /\ RegisteredHosts \ {h} \in SUBSET Hosts
            /\ Others(h) \in SUBSET (RegisteredHosts \ {h})
        BY <1>0, <3>2 DEF RegisteredHosts
      <4>2. Cardinality(RegisteredHosts \ {h}) < Max
        BY <1>0, <3>1, <4>1, Counting
      <4> QED BY <1>t, <2>g, <3>2, <4>1, <4>2, Bounded, GoOnFacts
    <3>3. CASE GoOn(h, "grant") /\ (RegisteredHosts = {} \/ Cardinality(RegisteredHosts) < Max)
      <4>1. Cardinality(RegisteredHosts) < Max
        BY <1>0, <3>3, Counting
      <4> QED BY <1>t, <1>0, <2>g, <3>3, <4>1, Bounded, GoOnFacts
    <3>4. CASE Alive(h, connections, TRUE)
      <4>1. thread'[h].at = "select"
        BY <1>t, <3>4, AliveFacts
      <4>2. Cardinality(RegisteredHosts \ {h}) <= Max
        BY <1>0, <3>1, Bounded
      <4> QED BY <2>s, <4>1, <4>2
    <3>5. ASSUME NEW c \in Hosts, FindRegisterConnectionBySA(a, c), Alive(h, <<c>>, FALSE)
          PROVE  HasRoom(h)'
      <4>1. Head(<<c>>) = c /\ FALSE \in BOOLEAN
        OBVIOUS
      <4>2. thread'[h].at = "check" /\ thread'[h].rest = <<c>>
        BY <1>t, <3>5, <4>1, AliveFacts
      <4>3. c \in RegisteredHosts /\ RegisteredHosts \ {c} \in SUBSET Hosts
            /\ RegisteredHosts \ {h, c} \in SUBSET (RegisteredHosts \ {c})
        BY <1>0, <3>5 DEF FindRegisterConnectionBySA, RegisteredAs, RegisteredHosts
      <4>4. Cardinality(RegisteredHosts \ {c}) < Max
        BY <1>0, <3>1, <4>3, Counting
      <4>5. Cardinality(RegisteredHosts \ {h, c}) < Max
        BY <4>3, <4>4, Bounded
      <4>6. c = Head(thread'[h].rest)
        BY <4>1, <4>2
      <4> QED BY <2>c, <4>2, <4>5, <4>6
    <3> QED BY <2>1, <2>r, <3>2, <3>3, <3>4, <3>5 DEF ConnectionRoutingActivation
  <2>2. CASE SelectRegistered(h)
    <3>1. thread[h].at = "select" /\ Cardinality(RegisteredHosts \ {h}) <= Max /\ ~Registered(h)
      BY <2>2, <2>a DEF SelectRegistered, HasRoom, Limited, AsksUnregistered
    <3>2. CASE thread' = [thread EXCEPT ![h].rest = Tail(thread[h].rest)]
      BY <1>t, <2>s, <3>1, <3>2, NextPeerFacts
    <3>3. CASE GoOn(h, "check") /\ Registered(Head(thread[h].rest)) /\ thread[h].rest # << >>
      <4> DEFINE c == Head(thread[h].rest)
      <4>1. c \in Hosts
        BY <1>t, <3>3 DEF ThreadsTyped, ThreadState
      <4>2. /\ RegisteredHosts \ {h} \in SUBSET Hosts /\ c \in RegisteredHosts \ {h}
            /\ (RegisteredHosts \ {h}) \ {c} = RegisteredHosts \ {h, c}
        BY <1>0, <3>1, <3>3, <4>1 DEF RegisteredHosts
      <4>3. Cardinality(RegisteredHosts \ {h, c}) < Max
        <5>1. /\ Cardinality((RegisteredHosts \ {h}) \ {c}) < Cardinality(RegisteredHosts \ {h})
              /\ Cardinality(RegisteredHosts \ {h}) \in Nat
          BY <4>2, Counting
        <5>2. RegisteredHosts \ {h, c} \in SUBSET Hosts
          BY <1>0
        <5>3. Cardinality(RegisteredHosts \ {h, c}) \in Nat
          BY <5>2, Counting
        <5>4. Cardinality(RegisteredHosts \ {h, c}) < Cardinality(RegisteredHosts \ {h})
          BY <4>2, <5>1
        <5> QED BY <3>1, <5>1, <5>3, <5>4
      <4>4. thread'[h].at = "check" /\ thread'[h].rest = thread[h].rest
        BY <1>t, <3>3, GoOnFacts
      <4> QED BY <2>c, <4>3, <4>4
    <3> QED BY <2>2, <2>r, <3>2, <3>3 DEF SelectRegistered
  <2>d. ASSUME Asking(h), HasRoom(h), Asked(h) \notin Others(h)
        PROVE  Cardinality(Others(h)) < Max
    <3>1. /\ RegisteredHosts \ {h, Asked(h)} \in SUBSET Hosts
          /\ Others(h) \in SUBSET (RegisteredHosts \ {h, Asked(h)})
      BY <1>0, <2>d
    <3> QED BY <2>d, <3>1, Bounded DEF HasRoom
  <2>3. CASE PerformAliveCheck(h)
    <3>1. /\ Asking(h) /\ thread'[h].at \in {"grant", "request"} /\ thread'[h].rest = thread[h].rest
      BY <1>t, <2>3, GoOnFacts DEF PerformAliveCheck, Asking
    <3>2. Trusted(h) /\ HasRoom(h)
      BY <1>a, <2>3, <1>3, ActivatesFacts DEF PerformAliveCheck, Trusted
    <3>3. thread'[h].at = "grant" => Asked(h) \notin Others(h)
      <4>1. thread'[h].at = "grant" =>
              tcp_socket[Asked(h)] = None \/ ~Registered(Asked(h)) \/ h \in doubtful'
        BY <1>t, <2>3, GoOnFacts DEF PerformAliveCheck, Asked
      <4> QED BY <4>1 DEF Trusted, Others, Usable, IsOpen
    <3>4. CASE thread'[h].at = "grant"
      BY <2>d, <2>g, <3>1, <3>2, <3>3, <3>4
    <3>5. CASE thread'[h].at = "request"
      <4>1. Cardinality(RegisteredHosts \ {h, Asked(h)}) < Max /\ Asked(h) = Head(thread'[h].rest)
        BY <3>1, <3>2 DEF HasRoom, Asked
      <4> QED BY <2>c, <3>5, <4>1
    <3> QED BY <3>1, <3>4, <3>5
  <2>4. CASE SendAliveCheckRequest(h)
    <3>1. Asking(h) /\ thread'[h].at = "await" /\ thread'[h].rest = thread[h].rest /\ HasRoom(h)
      BY <1>t, <2>4, <2>a, GoOnFacts DEF SendAliveCheckRequest, Asking
    <3>2. Cardinality(RegisteredHosts \ {h, Asked(h)}) < Max /\ Asked(h) = Head(thread'[h].rest)
      BY <3>1 DEF HasRoom, Asked
    <3> QED BY <2>c, <3>1, <3>2
  <2>5. CASE AliveCheckResult(h)
    <3>1. Asking(h) /\ thread[h].at = "await" /\ HasRoom(h)
      BY <2>5, <2>a DEF AliveCheckResult, Asking
    <3>2. CASE promise[Asked(h)] = "false" /\ GoOn(h, "grant")
      BY <1>t, <2>d, <2>g, <3>1, <3>2, GoOnFacts DEF DeadIsUnusable
    <3>3. CASE thread' = [thread EXCEPT ![h].at = "select", ![h].rest = Tail(@)]
      <4>1. thread'[h].at = "select"
        BY <1>t, <3>3, NextPeerFacts
      <4>2. RegisteredHosts \ {h, Asked(h)} \in SUBSET Hosts
        BY <1>0
      <4>3. Cardinality((RegisteredHosts \ {h, Asked(h)}) \cup {Asked(h)}) <= Max
        <5> DEFINE S == RegisteredHosts \ {h, Asked(h)}
        <5>1. Cardinality(S) < Max
          BY <3>1 DEF HasRoom
        <5>2. Cardinality(S) \in Nat /\ Cardinality(S \cup {Asked(h)}) <= Cardinality(S) + 1
          BY <4>2, Counting
        <5>3. S \cup {Asked(h)} \in SUBSET Hosts
          BY <3>1, <4>2, AskedIsHost
        <5>4. Cardinality(S \cup {Asked(h)}) \in Nat
          BY <5>3, Counting
        <5> HIDE DEF S
        <5> QED BY <5>1, <5>2, <5>4 DEF S
      <4>4. /\ (RegisteredHosts \ {h, Asked(h)}) \cup {Asked(h)} \in SUBSET Hosts
            /\ RegisteredHosts \ {h} \in SUBSET ((RegisteredHosts \ {h, Asked(h)}) \cup {Asked(h)})
        BY <1>0, <3>1, AskedIsHost
      <4> QED BY <2>s, <4>1, <4>3, <4>4, Bounded
    <3> QED BY <2>5, <2>r, <3>2, <3>3 DEF AliveCheckResult, Asked
  <2>6. CASE SetSourceAddress(h)
    BY <1>t, <2>6, <2>a, <2>g, GoFacts DEF SetSourceAddress, HasRoom
  <2>7. CASE SetRegistered(h)
    BY <1>t, <2>7, GoFacts DEF SetRegistered, Holding, HoldingPositions
  <2> QED BY <1>3, <2>1, <2>2, <2>3, <2>4, <2>5, <2>6, <2>7 DEF Activates
<1>4. CASE SetRegistered(h)
  BY <1>t, <1>4, GoFacts DEF SetRegistered, Holding, HoldingPositions
<1> QED BY <1>1, <1>2, <1>3, <1>4, ActivatesFacts DEF Background

(* Every step preserves RegisteredWithinLimit.                             *)
LEMMA LimitStep ==
  ASSUME Shape, Limited, Next, MaxConcurrentTcpSockets > 0
  PROVE  RegisteredWithinLimit'
<1> DEFINE Max == MaxConcurrentTcpSockets
           Counted == {h \in Hosts : Trusted(h) /\ Usable(h)}
<1>0. Counted \in SUBSET Hosts /\ Cardinality(Counted) <= Max
  <2>1. Counted = {h \in Hosts \ (taken_over \cup doubtful) : Usable(h)}
    BY DEF Trusted
  <2> QED BY <2>1 DEF Limited, RegisteredWithinLimit
<1> SUFFICES Cardinality(Counted') <= Max
  <2>1. Counted' = {h \in Hosts \ (taken_over' \cup doubtful') : Usable(h)'}
    BY DEF Trusted
  <2> QED BY <2>1 DEF RegisteredWithinLimit
<1>1. CASE Background
  <2>1. Counted' \in SUBSET Counted
    BY <1>1, OthersShrink
  <2> QED BY <1>0, <2>1, Bounded
<1>2. ASSUME NEW g \in Hosts, Activates(g)
      PROVE  Cardinality(Counted') <= Max
  <2>1. Counted' \ {g} = Others(g) /\ Counted \ {g} = Others(g)
    BY <1>2, ActivatesOthers DEF Others
  <2>2. CASE ~(Trusted(g)' /\ Usable(g)')
    <3>1. Counted' \in SUBSET Counted
      BY <2>1, <2>2
    <3> QED BY <1>0, <3>1, Bounded
  <2>3. CASE Trusted(g)' /\ Usable(g)' /\ ConnectionRoutingActivation(g)
    <3>1. /\ ~(Cardinality(RegisteredHosts) > Max)
          /\ Counted' \in SUBSET RegisteredHosts /\ RegisteredHosts \in SUBSET Hosts
      BY <2>3 DEF ConnectionRoutingActivation, Trusted, Usable, Registered, RegisteredHosts
    <3>2. Cardinality(RegisteredHosts) \in Nat
      BY <3>1, Counting
    <3>3. Cardinality(RegisteredHosts) <= Max
      BY <3>1, <3>2
    <3> QED BY <3>1, <3>3, Bounded
  <2>4. CASE Trusted(g)' /\ Usable(g)' /\ SetRegistered(g)
    <3>1. Trusted(g) /\ thread[g].at = "register"
      BY <2>4 DEF SetRegistered, Trusted
    <3>2. Cardinality(Others(g)) < Max
      BY <3>1 DEF Limited, RoomDecided
    <3>3. Others(g) \in SUBSET Hosts /\ Counted' = Others(g) \cup {g}
      BY <2>1, <2>4 DEF Others
    <3>4. /\ Cardinality(Others(g)) \in Nat /\ Cardinality(Others(g) \cup {g}) <= Cardinality(Others(g)) + 1
      BY <3>3, Counting
    <3>5. Others(g) \cup {g} \in SUBSET Hosts
      BY <3>3
    <3>6. Cardinality(Others(g) \cup {g}) \in Nat
      BY <3>5, Counting
    <3>7. Cardinality(Others(g) \cup {g}) <= Max
      BY <3>2, <3>4, <3>6
    <3> QED BY <3>3, <3>7
  <2>5. CASE /\ Trusted(g)' /\ Usable(g)'
             /\ ~ConnectionRoutingActivation(g) /\ ~SetRegistered(g)
    <3>1. Trusted(g)
      BY <1>2, <2>5 DEF Activates, SelectRegistered, PerformAliveCheck, SendAliveCheckRequest,
         AliveCheckResult, SetSourceAddress, Trusted
    <3>2. Usable(g)
      BY <1>2, <2>5, ActivatesFacts, ActivatesOthers DEF Usable, Registered, Doomed
    <3>3. Counted' \in SUBSET Counted
      BY <2>1, <2>5, <3>1, <3>2
    <3> QED BY <1>0, <3>3, Bounded
  <2> QED BY <2>2, <2>3, <2>4, <2>5
<1> QED BY <1>1, <1>2 DEF Background

(* Limited is inductive, given Shape and DeadIsUnusable.                   *)
LEMMA LimitedStep ==
  ASSUME MaxConcurrentTcpSockets > 0
  PROVE  Shape /\ DeadIsUnusable /\ Limited /\ [Next]_vars => Limited'
<1> SUFFICES ASSUME Shape, DeadIsUnusable, Limited, [Next]_vars PROVE Limited'
  OBVIOUS
<1>1. CASE Next
  <2>1. AsksUnregistered'
    BY <1>1, UnregisteredStep DEF Limited
  <2> QED BY <1>1, <2>1, RoomStep, LimitStep DEF Limited
<1>2. CASE UNCHANGED vars
  <2>u. /\ UNCHANGED thread /\ RegisteredHosts' = RegisteredHosts
        /\ \A h \in Hosts : (Registered(h)' <=> Registered(h)) /\ (Trusted(h)' <=> Trusted(h))
        /\ \A h \in Hosts : Usable(h)' <=> Usable(h)
    BY <1>2 DEF vars, Usable, Registered, IsOpen, Closing, Trusted, RegisteredHosts
  <2>1. AsksUnregistered'
    BY <2>u DEF Limited, AsksUnregistered
  <2>2. RoomDecided'
    <3>1. \A h \in Hosts : Others(h)' = Others(h)
      BY <2>u DEF Others
    <3>2. \A h \in Hosts : Asked(h)' = Asked(h) /\ (Asking(h)' <=> Asking(h))
      BY <2>u DEF Asked, Asking
    <3> QED BY <2>u, <3>1, <3>2 DEF Limited, RoomDecided
  <2>3. RegisteredWithinLimit'
    BY <1>2 DEF vars, Usable, Registered, IsOpen, Closing, Limited, RegisteredWithinLimit
  <2> QED BY <2>1, <2>2, <2>3 DEF Limited
<1> QED BY <1>1, <1>2

(* When at least one connection may be registered, no more of them are     *)
(* registered and usable than may be, with the same exceptions.            *)
THEOREM WithinLimit ==
  ASSUME MaxConcurrentTcpSockets > 0
  PROVE  Spec => []RegisteredWithinLimit
<1>1. Init => Limited
  <2> SUFFICES ASSUME Init PROVE Limited
    OBVIOUS
  <2>1. \A h \in Hosts : thread[h].at = "none" /\ ~Registered(h)
    BY DEF Init, Ended, Registered
  <2>2. AsksUnregistered /\ RoomDecided
    BY <2>1 DEF AsksUnregistered, RoomDecided, Asking
  <2>3. {h \in Hosts \ (taken_over \cup doubtful) : Usable(h)} = {}
    BY <2>1 DEF Usable
  <2>4. RegisteredWithinLimit
    BY <2>3, FS_EmptySet DEF RegisteredWithinLimit
  <2> QED BY <2>2, <2>4 DEF Limited
<1>2. Init => Decided
  BY DEF Init, Decided, DeadIsUnusable, AddressDecided, OneConnectionPerAddress, Others, Usable,
     Registered, Ended
<1>3. Decided => DeadIsUnusable
  BY DEF Decided
<1>4. Limited => RegisteredWithinLimit
  BY DEF Limited
<1>5. Shape /\ DeadIsUnusable /\ Limited /\ [Next]_vars => Limited'
  BY LimitedStep
<1> QED BY <1>1, <1>2, <1>3, <1>4, <1>5, DecidedStep, ShapeInvariant, PTL DEF Spec
=============================================================================
