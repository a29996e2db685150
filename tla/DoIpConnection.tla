--------------------------- MODULE DoIpConnection ---------------------------
(***************************************************************************)
(* The TCP connections of the testers: DoIpConnection, the accepting       *)
(* thread of DoIpHandler and DoIpConnectionManager.  A connection belongs  *)
(* to a remote host and outlives its sockets.  It is worked on by          *)
(*   thread[h]                     its receiving thread, ReceiveMessages   *)
(*   worker["accept"]              DoIpHandler::TcpHandler                 *)
(*   worker["alive_check"], worker["general_inactivity"],                  *)
(*   worker["initial_inactivity"]  the timer thread of each channel        *)
(*   worker["transmit"]            a thread of the proxy that sends        *)
(* and they interleave wherever the code takes a lock or an atomic.        *)
(***************************************************************************)
EXTENDS Naturals, Sequences, FiniteSets

CONSTANTS
  Hosts,                    \* the remote addresses testers connect from
  Sockets,                  \* accepted sockets, each used once
  HostOf,                   \* the host a socket comes from
  Addresses,                \* source addresses within 0x0E00 .. 0x0FFF
  MaxConcurrentTcpSockets,  \* limit of the configuration
  MaxMessages,              \* bound: messages received altogether
  Acting,                   \* bound: the timer and sending threads that run
  None                      \* no socket (-1), source address 0

ASSUME ConnectionAssumption ==
  /\ HostOf \in [Sockets -> Hosts]
  /\ MaxConcurrentTcpSockets \in Nat /\ MaxMessages \in Nat
  /\ None \notin Hosts \cup Sockets \cup Addresses
  /\ IsFiniteSet(Hosts)

Timers == {"alive_check", "general_inactivity", "initial_inactivity"}
Workers == Timers \cup {"accept", "transmit"}
States == {"listen", "initialized", "registered", "finalize"}

ASSUME ActingAssumption == Acting \subseteq Workers

VARIABLES
  connections,   \* DoIpConnectionManager::connections_, in their order
  descriptor,    \* the server's end of each socket: new, open, closed, or refused:
                 \* given to no connection, and left open
  tcp_socket, state, source_addr,
  timer,         \* the connections for which a timer of each kind runs
  promise,       \* aliveCheckPromise_: unset, or the result it was set to
  thread, worker,
  received,      \* history: number of messages received
  taken_over,    \* history: connections given a socket while they were in use
  crossed,       \* history: sockets given to a connection between the close() and the
                 \* reset of its last one
  doubtful,      \* history: connections activated when too many were registered, or
                 \* for one that counted as dead because it was being checked already
  overlapped,    \* history: two were ending one alive check, or one was started while
                 \* the last one of its connection was being ended
  terminated     \* history: an exception no one catches ended the process

socket_vars == <<descriptor, tcp_socket>>
connection_vars == <<socket_vars, state, source_addr, timer, promise>>
history_vars == <<received, taken_over, crossed, doubtful, overlapped, terminated>>
vars == <<connections, connection_vars, thread, worker, history_vars>>

Cancelling == {"alive", "stop", "promise", "close", "unset", "source", "state"}
AcceptPositions == {"idle", "set_socket", "join"} \cup Cancelling
TimerPositions == {"idle", "finalize", "result"} \cup Cancelling
TransmitPositions == {"idle", "restart"}
ExitPositions == {"close", "unset", "source", "state"}
HoldingPositions == {"select", "check", "request", "await", "grant", "register"}
ThreadPositions ==
  {"none", "start", "read", "reading", "answered", "lock", "granted"}
    \cup HoldingPositions \cup ExitPositions

OptionalHost == Hosts \cup {None}
OptionalSocket == Sockets \cup {None}
OptionalAddress == Addresses \cup {None}

TypeOK ==
  /\ connections \in Seq(Hosts)
  /\ descriptor \in [Sockets -> {"new", "open", "closed", "refused"}]
  /\ tcp_socket \in [Hosts -> OptionalSocket]
  /\ state \in [Hosts -> States]
  /\ source_addr \in [Hosts -> OptionalAddress]
  /\ timer \in [Timers -> SUBSET Hosts]
  /\ promise \in [Hosts -> {"unset", "true", "false"}]
  /\ thread \in [Hosts -> [at : ThreadPositions, socket : OptionalSocket,
                           addr : OptionalAddress, rest : Seq(Hosts), all : BOOLEAN]]
  /\ worker \in [Workers -> [at : AcceptPositions \cup TimerPositions \cup TransmitPositions,
                             host : OptionalHost, socket : OptionalSocket]]
  /\ \A w \in Workers : worker[w].at # "idle" => worker[w].host # None
  /\ worker["accept"].at # "idle" => worker["accept"].socket # None
  /\ \A h \in Hosts :
       /\ thread[h].at \in {"check", "request", "await"} => thread[h].rest # << >>
       /\ thread[h].at \in HoldingPositions \ {"register"} => thread[h].addr # None
  /\ received \in 0 .. MaxMessages
  /\ taken_over \subseteq Hosts /\ crossed \subseteq Sockets /\ doubtful \subseteq Hosts
  /\ overlapped \in BOOLEAN /\ terminated \in BOOLEAN

Ended == [at |-> "none", socket |-> None, addr |-> None, rest |-> << >>, all |-> FALSE]
Idle == [at |-> "idle", host |-> None, socket |-> None]

(* DoIpConnectionManager has been constructed and TcpHandler started.      *)
Init ==
  /\ connections = << >>
  /\ descriptor = [s \in Sockets |-> "new"]
  /\ tcp_socket = [h \in Hosts |-> None]
  /\ state = [h \in Hosts |-> "listen"]
  /\ source_addr = [h \in Hosts |-> None]
  /\ timer = [k \in Timers |-> {}]
  /\ promise = [h \in Hosts |-> "unset"]
  /\ thread = [h \in Hosts |-> Ended]
  /\ worker = [w \in Workers |-> Idle]
  /\ received = 0 /\ taken_over = {} /\ crossed = {} /\ doubtful = {}
  /\ overlapped = FALSE /\ terminated = FALSE

-----------------------------------------------------------------------------
(* Steps shared by the threads.                                            *)

Go(h, position) == thread' = [thread EXCEPT ![h] = [Ended EXCEPT !.at = position]]
GoOn(h, position) == thread' = [thread EXCEPT ![h].at = position]
Move(w, position) == worker' = [worker EXCEPT ![w].at = position]

Stopped(k, h) == [timer EXCEPT ![k] = @ \ {h}]
Restarted(k, h) == [timer EXCEPT ![k] = @ \cup {h}]
InactivityStopped(h) ==
  [k \in Timers |-> IF k = "alive_check" THEN timer[k] ELSE timer[k] \ {h}]

IsOpen(s) == s # None /\ descriptor[s] = "open"

(* Mutant: the socket is forgotten without close().                        *)
ForgetSocket(h) == UNCHANGED descriptor

(* shutdown() and close() of whatever socket the connection has now.       *)
CloseSocket(h) ==
  descriptor' = [s \in Sockets |-> IF s = tcp_socket[h] THEN "closed" ELSE descriptor[s]]

(* SetAliveCheckResult: std::promise throws when it has been set already,  *)
(* and neither thread that calls it catches the exception.                 *)
SetAliveCheckResult(h, result) ==
  IF promise[h] = "unset"
  THEN promise' = [promise EXCEPT ![h] = result] /\ UNCHANGED terminated
  ELSE terminated' = TRUE /\ UNCHANGED promise

(* Who has found the alive check of a connection running, or its time over,*)
(* ends it in further steps.                                               *)
Ending(h) ==
  \/ thread[h].at = "answered" \/ worker["alive_check"].host = h
  \/ \E w \in Workers : worker[w].host = h /\ worker[w].at \in {"stop", "promise"}
Overlaps(h) == overlapped' = (overlapped \/ Ending(h))

(* A thread still runs on the connection, or a timer is cancelling it.     *)
InUse(h) == thread[h].at # "none" \/ \E k \in Timers : worker[k].host = h

(* Someone has closed the socket of the connection, or found it closed,    *)
(* and is about to reset whatever tcp_socket_ is then.                     *)
Unsetting(h) ==
  thread[h].at = "unset" \/ \E w \in Workers : worker[w].host = h /\ worker[w].at = "unset"

(* Queries of DoIpConnectionManager.                                       *)
Registered(h) == state[h] = "registered"
RegisteredHosts == {h \in Hosts : Registered(h)}
OpenSockets == {h \in Hosts : tcp_socket[h] # None}
Created == {connections[i] : i \in DOMAIN connections}
RegisteredAs(a) == {h \in Created : Registered(h) /\ source_addr[h] = a}
FindRegisterConnectionBySA(a, c) ==
  \E i \in DOMAIN connections :
    /\ connections[i] = c /\ c \in RegisteredAs(a)
    /\ \A j \in 1 .. i - 1 : connections[j] \notin RegisteredAs(a)

Holding(h) == thread[h].at \in HoldingPositions
MutexFree == \A h \in Hosts : ~Holding(h)
ConnectionsMutexFree ==
  \A h \in Hosts : ~(thread[h].all /\ thread[h].at \in {"select", "check", "request", "await"})

-----------------------------------------------------------------------------
(* DoIpConnection::Cancel, on the thread of a worker; each step is one     *)
(* access to the connection that other threads can come between.           *)

At(w, position) == ~terminated /\ worker[w].at = position

(* Other threads may stop, answer or restart the check between the test of *)
(* the timer, its stop and the setting of the promise, which may have been *)
(* set: only here is the exception caught.                                 *)
CancelAliveCheck(w) ==
  /\ At(w, "alive")
  /\ IF worker[w].host \in timer["alive_check"]
     THEN Move(w, "stop") /\ Overlaps(worker[w].host)
     ELSE Move(w, "close") /\ UNCHANGED overlapped
  /\ UNCHANGED <<connections, connection_vars, thread,
                 received, taken_over, crossed, doubtful, terminated>>

CancelStopsAliveCheck(w) ==
  /\ At(w, "stop")
  /\ timer' = Stopped("alive_check", worker[w].host)
  /\ Move(w, "promise")
  /\ UNCHANGED <<connections, socket_vars, state, source_addr, promise, thread, history_vars>>

CancelSetsPromise(w) ==
  /\ At(w, "promise")
  /\ promise' = [promise EXCEPT ![worker[w].host] = IF @ = "unset" THEN "false" ELSE @]
  /\ Move(w, "close")
  /\ UNCHANGED <<connections, socket_vars, state, source_addr, timer, thread, history_vars>>

CancelSocket(w) ==
  LET h == worker[w].host
  IN /\ At(w, "close")
     /\ timer' = InactivityStopped(h)
     /\ CloseSocket(h)
     /\ Move(w, IF tcp_socket[h] = None THEN "source" ELSE "unset")
     /\ UNCHANGED <<connections, tcp_socket, state, source_addr, promise, thread, history_vars>>

CancelUnsetSocket(w) ==
  /\ At(w, "unset")
  /\ tcp_socket' = [tcp_socket EXCEPT ![worker[w].host] = None]
  /\ Move(w, "source")
  /\ UNCHANGED <<connections, descriptor, state, source_addr, timer, promise, thread, history_vars>>

CancelSource(w) ==
  /\ At(w, "source")
  /\ source_addr' = [source_addr EXCEPT ![worker[w].host] = None]
  /\ Move(w, "state")
  /\ UNCHANGED <<connections, socket_vars, state, timer, promise, thread, history_vars>>

(* The end of Cancel, and where its caller goes on.                        *)
CancelState(w) ==
  /\ At(w, "state")
  /\ state' = [state EXCEPT ![worker[w].host] = "listen"]
  /\ CASE w = "accept" -> Move(w, "set_socket")
       [] w = "alive_check" -> Move(w, "result")
       [] OTHER -> worker' = [worker EXCEPT ![w] = Idle]
  /\ UNCHANGED <<connections, socket_vars, source_addr, timer, promise, thread, history_vars>>

Cancel(w) ==
  \/ CancelAliveCheck(w) \/ CancelStopsAliveCheck(w) \/ CancelSetsPromise(w)
  \/ CancelSocket(w) \/ CancelUnsetSocket(w) \/ CancelSource(w) \/ CancelState(w)

-----------------------------------------------------------------------------
(* DoIpHandler::TcpHandler, FindOrCreateConnection and AddTcpSocket.       *)

Accept(s) ==
  LET h == HostOf[s]
      Full == Cardinality(OpenSockets) >= MaxConcurrentTcpSockets + 1
  IN /\ At("accept", "idle") /\ ConnectionsMutexFree
     /\ descriptor[s] = "new"
     /\ \/ /\ h \in Created \/ ~Full
           /\ descriptor' = [descriptor EXCEPT ![s] = "open"]
           /\ connections' = IF h \in Created THEN connections ELSE Append(connections, h)
           /\ worker' = [worker EXCEPT !["accept"] = [at |-> "alive", host |-> h, socket |-> s]]
        \/ /\ h \notin Created /\ Full
           /\ descriptor' = [descriptor EXCEPT ![s] = "refused"]
           /\ UNCHANGED <<connections, worker>>
     /\ UNCHANGED <<tcp_socket, state, source_addr, timer, promise, thread, history_vars>>

AddTcpSocket ==
  LET h == worker["accept"].host
  IN /\ At("accept", "set_socket")
     /\ tcp_socket' = [tcp_socket EXCEPT ![h] = worker["accept"].socket]
     /\ taken_over' = IF InUse(h) THEN taken_over \cup {h} ELSE taken_over
     /\ crossed' = IF Unsetting(h) THEN crossed \cup {worker["accept"].socket} ELSE crossed
     /\ Move("accept", "join")
     /\ UNCHANGED <<connections, descriptor, state, source_addr, timer, promise, thread,
                    received, doubtful, overlapped, terminated>>

(* Mutant: the initial inactivity timer is not started.                    *)
SpawnUntimed ==
  LET h == worker["accept"].host
  IN /\ At("accept", "join") /\ thread[h].at = "none"
     /\ state' = [state EXCEPT ![h] = "initialized"]
     /\ Go(h, "start")
     /\ worker' = [worker EXCEPT !["accept"] = Idle]
     /\ UNCHANGED <<connections, socket_vars, source_addr, timer, promise, history_vars>>

(* The old thread has been joined.                                         *)
SpawnReceiver ==
  LET h == worker["accept"].host
  IN /\ At("accept", "join") /\ thread[h].at = "none"
     /\ state' = [state EXCEPT ![h] = "initialized"]
     /\ timer' = Restarted("initial_inactivity", h)
     /\ Go(h, "start")
     /\ worker' = [worker EXCEPT !["accept"] = Idle]
     /\ UNCHANGED <<connections, socket_vars, source_addr, promise, history_vars>>

-----------------------------------------------------------------------------
(* DoIpConnection::ReceiveMessages.                                        *)

ThreadAt(h, position) == ~terminated /\ thread[h].at = position

StartReceiving(h) ==
  /\ ThreadAt(h, "start")
  /\ Go(h, IF tcp_socket[h] = None THEN "none" ELSE "read")
  /\ UNCHANGED <<connections, connection_vars, worker, history_vars>>

(* SocketRead is called with the socket that the connection has now.       *)
SocketRead(h) ==
  /\ ThreadAt(h, "read")
  /\ thread' = [thread EXCEPT ![h] = [Ended EXCEPT !.at = "reading", !.socket = tcp_socket[h]]]
  /\ UNCHANGED <<connections, connection_vars, worker, history_vars>>

(* Mutant: close() without shutdown() does not wake who reads.             *)
ReadGoesOn(h) ==
  /\ ThreadAt(h, "reading") /\ ~IsOpen(thread[h].socket)
  /\ GoOn(h, "reading")
  /\ UNCHANGED <<connections, connection_vars, worker, history_vars>>

(* The socket was closed on this side, or (external) by the tester.        *)
SocketReadFails(h) ==
  /\ ThreadAt(h, "reading") /\ ~IsOpen(thread[h].socket)
  /\ GoOn(h, "close")
  /\ UNCHANGED <<connections, connection_vars, worker, history_vars>>

TesterCloses(h) ==
  /\ ThreadAt(h, "reading") /\ IsOpen(thread[h].socket)
  /\ GoOn(h, "close")
  /\ UNCHANGED <<connections, connection_vars, worker, history_vars>>

(* A message arrives; what was read restarts the inactivity timer.         *)
Receive(h) ==
  /\ ThreadAt(h, "reading") /\ IsOpen(thread[h].socket)
  /\ received < MaxMessages
  /\ received' = received + 1
  /\ UNCHANGED <<connections, socket_vars, source_addr, promise, worker,
                 taken_over, crossed, doubtful, terminated>>

AfterRead(h) == IF Registered(h) THEN Restarted("general_inactivity", h) ELSE timer

(* A header or a length that is wrong ends the connection; unknown types,  *)
(* messages that are too large and negative acknowledgements do not, nor   *)
(* does a header that is incomplete, which restarts no timer.              *)
ReceiveOther(h) ==
  /\ Receive(h)
  /\ \/ timer' = AfterRead(h) /\ (Go(h, "read") \/ Go(h, "close"))
     \/ UNCHANGED timer /\ Go(h, "read")
  /\ UNCHANGED <<state, overlapped>>

ReceiveDiagnosticMessage(h, a) ==
  /\ Receive(h)
  /\ timer' = AfterRead(h)
  /\ Go(h, IF Registered(h) /\ source_addr[h] # a THEN "close" ELSE "read")
  /\ UNCHANGED <<state, overlapped>>

(* An activation type that is not supported is refused like address 0.     *)
ReceiveRoutingActivationRequest(h, a) ==
  /\ Receive(h)
  /\ timer' = [AfterRead(h) EXCEPT !["initial_inactivity"] = @ \ {h}]
  /\ thread' = [thread EXCEPT ![h] = [Ended EXCEPT !.at = "lock", !.addr = a]]
  /\ UNCHANGED <<state, overlapped>>

(* The alive check timer has been tested and is not yet stopped.           *)
ReceiveAliveCheckResponse(h, a) ==
  /\ Receive(h)
  /\ timer' = AfterRead(h)
  /\ IF h \in timer["alive_check"]
     THEN /\ thread' = [thread EXCEPT ![h] = [Ended EXCEPT !.at = "answered", !.addr = a]]
          /\ Overlaps(h)
     ELSE Go(h, "read") /\ UNCHANGED overlapped
  /\ UNCHANGED state

(* Mutant: the timer runs on when the answer has come.                     *)
AnswerUnstopped(h) ==
  /\ ThreadAt(h, "answered")
  /\ IF thread[h].addr = source_addr[h]
     THEN /\ SetAliveCheckResult(h, "true")
          /\ Go(h, "read")
          /\ UNCHANGED state
     ELSE /\ SetAliveCheckResult(h, "false")
          /\ Go(h, "close")
          /\ state' = [state EXCEPT ![h] = "finalize"]
  /\ UNCHANGED <<connections, socket_vars, source_addr, timer, worker,
                 received, taken_over, crossed, doubtful, overlapped>>

AliveCheckAnswered(h) ==
  /\ ThreadAt(h, "answered")
  /\ timer' = Stopped("alive_check", h)
  /\ IF thread[h].addr = source_addr[h]
     THEN /\ SetAliveCheckResult(h, "true")
          /\ Go(h, "read")
          /\ UNCHANGED state
     ELSE /\ SetAliveCheckResult(h, "false")
          /\ Go(h, "close")
          /\ state' = [state EXCEPT ![h] = "finalize"]
  /\ UNCHANGED <<connections, socket_vars, source_addr, worker,
                 received, taken_over, crossed, doubtful, overlapped>>

(* The end of ReceiveMessages: it closes the socket that the connection    *)
(* has now, which need not be the one it was reading.                      *)
CloseReceived(h) ==
  /\ ThreadAt(h, "close")
  /\ timer' = InactivityStopped(h)
  /\ CloseSocket(h)
  /\ Go(h, "unset")
  /\ UNCHANGED <<connections, tcp_socket, state, source_addr, promise, worker, history_vars>>

UnsetSocket(h) ==
  /\ ThreadAt(h, "unset")
  /\ tcp_socket' = [tcp_socket EXCEPT ![h] = None]
  /\ GoOn(h, "source")
  /\ UNCHANGED <<connections, descriptor, state, source_addr, timer, promise, worker, history_vars>>

UnsetSource(h) ==
  /\ ThreadAt(h, "source")
  /\ source_addr' = [source_addr EXCEPT ![h] = None]
  /\ GoOn(h, "state")
  /\ UNCHANGED <<connections, socket_vars, state, timer, promise, worker, history_vars>>

EndReceiving(h) ==
  /\ ThreadAt(h, "state")
  /\ state' = [state EXCEPT ![h] = "listen"]
  /\ Go(h, "none")
  /\ UNCHANGED <<connections, socket_vars, source_addr, timer, promise, worker, history_vars>>

-----------------------------------------------------------------------------
(* DoIpConnectionManager::ConnectionRoutingActivation, on the receiving    *)
(* thread of h, which holds mutex_ from the decision to the registration.  *)

Refuse(h) == Go(h, "close")
Alive(h, peers, all) ==
  thread' = [thread EXCEPT ![h] = [@ EXCEPT !.at = IF all THEN "select" ELSE "check",
                                            !.rest = peers, !.all = all]]

(* Mutant: the test of the range of the address is missing.                *)
AcceptAnyAddress(a) == TRUE

InRange(a) == a # None

ConnectionRoutingActivation(h) ==
  LET a == thread[h].addr
      Doubtful == \/ \E c, d \in RegisteredAs(a) : c # d
                  \/ Cardinality(RegisteredHosts) > MaxConcurrentTcpSockets
  IN /\ ThreadAt(h, "lock") /\ MutexFree
     /\ \/ ~InRange(a) /\ Refuse(h)
        \/ /\ InRange(a) /\ Registered(h)
           /\ IF source_addr[h] = a THEN GoOn(h, "grant") ELSE Refuse(h)
        \/ /\ InRange(a) /\ ~Registered(h)
           /\ \/ \E c \in Hosts : FindRegisterConnectionBySA(a, c) /\ Alive(h, <<c>>, FALSE)
              \/ /\ RegisteredAs(a) = {}
                 /\ IF RegisteredHosts = {} \/ Cardinality(RegisteredHosts) < MaxConcurrentTcpSockets
                    THEN GoOn(h, "grant")
                    ELSE Alive(h, connections, TRUE)
     /\ doubtful' = IF Doubtful THEN doubtful \cup {h} ELSE doubtful \ {h}
     /\ UNCHANGED <<connections, connection_vars, worker,
                    received, taken_over, crossed, overlapped, terminated>>

(* Mutant: true is returned when nothing was found dead.                   *)
GrantAfterAll(h) ==
  LET peers == thread[h].rest
  IN /\ ThreadAt(h, "select")
     /\ IF peers = << >> THEN GoOn(h, "grant")
        ELSE IF Registered(Head(peers)) THEN GoOn(h, "check")
        ELSE thread' = [thread EXCEPT ![h].rest = Tail(peers)]
     /\ UNCHANGED <<connections, connection_vars, worker, history_vars>>

(* PerformAliveCheckForAllRegisterSockets: the next registered connection. *)
SelectRegistered(h) ==
  LET peers == thread[h].rest
  IN /\ ThreadAt(h, "select")
     /\ \/ peers = << >> /\ Refuse(h)
        \/ /\ peers # << >> /\ Registered(Head(peers))
           /\ GoOn(h, "check")
        \/ /\ peers # << >> /\ ~Registered(Head(peers))
           /\ thread' = [thread EXCEPT ![h].rest = Tail(peers)]
     /\ UNCHANGED <<connections, connection_vars, worker, history_vars>>

(* PerformAliveCheck: a connection that cannot be asked counts as dead.    *)
PerformAliveCheck(h) ==
  LET c == Head(thread[h].rest)
      Lost == tcp_socket[c] = None \/ ~Registered(c)
      Checked == c \in timer["alive_check"]
  IN /\ ThreadAt(h, "check")
     /\ GoOn(h, IF Lost \/ Checked THEN "grant" ELSE "request")
     /\ doubtful' = IF ~Lost /\ Checked THEN doubtful \cup {h} ELSE doubtful
     /\ UNCHANGED <<connections, connection_vars, worker,
                    received, taken_over, crossed, overlapped, terminated>>

(* Mutant: the answer is awaited without a timer.                          *)
SendUntimed(h) ==
  LET c == Head(thread[h].rest)
  IN /\ ThreadAt(h, "request")
     /\ promise' = [promise EXCEPT ![c] = "unset"]
     /\ GoOn(h, "await")
     /\ Overlaps(c)
     /\ UNCHANGED <<connections, socket_vars, state, source_addr, timer, worker,
                    received, taken_over, crossed, doubtful, terminated>>

SendAliveCheckRequest(h) ==
  LET c == Head(thread[h].rest)
  IN /\ ThreadAt(h, "request")
     /\ promise' = [promise EXCEPT ![c] = "unset"]
     /\ timer' = Restarted("alive_check", c)
     /\ GoOn(h, "await")
     /\ Overlaps(c)
     /\ UNCHANGED <<connections, socket_vars, state, source_addr, worker,
                    received, taken_over, crossed, doubtful, terminated>>

(* Mutant: any answer lets the new connection in.                          *)
IgnoreAnswer(h) ==
  /\ ThreadAt(h, "await") /\ promise[Head(thread[h].rest)] # "unset"
  /\ GoOn(h, "grant")
  /\ UNCHANGED <<connections, connection_vars, worker, history_vars>>

AliveCheckResult(h) ==
  LET c == Head(thread[h].rest)
  IN /\ ThreadAt(h, "await")
     /\ \/ promise[c] = "false" /\ GoOn(h, "grant")
        \/ /\ promise[c] = "true"
           /\ IF thread[h].all
              THEN thread' = [thread EXCEPT ![h].at = "select", ![h].rest = Tail(@)]
              ELSE Refuse(h)
     /\ UNCHANGED <<connections, connection_vars, worker, history_vars>>

SetSourceAddress(h) ==
  /\ ThreadAt(h, "grant")
  /\ source_addr' = [source_addr EXCEPT ![h] = thread[h].addr]
  /\ Go(h, "register")
  /\ UNCHANGED <<connections, socket_vars, state, timer, promise, worker, history_vars>>

SetRegistered(h) ==
  /\ ThreadAt(h, "register")
  /\ state' = [state EXCEPT ![h] = "registered"]
  /\ Go(h, "granted")
  /\ UNCHANGED <<connections, socket_vars, source_addr, timer, promise, worker, history_vars>>

(* Back in ReceiveMessages: the answer is written, which may fail.         *)
AnswerActivation(h) ==
  /\ ThreadAt(h, "granted")
  /\ timer' = Restarted("general_inactivity", h)
  /\ \/ IsOpen(tcp_socket[h]) /\ Go(h, "read")
     \/ Go(h, "close")
  /\ UNCHANGED <<connections, socket_vars, state, source_addr, promise, worker, history_vars>>

-----------------------------------------------------------------------------
(* The timers' callbacks and DoIpConnection::Transmit.                     *)

Expires(k, h) ==
  /\ k \in Acting /\ At(k, "idle") /\ h \in timer[k]
  /\ timer' = Stopped(k, h)
  /\ worker' = [worker EXCEPT ![k] = [Idle EXCEPT !.at = "finalize", !.host = h]]
  /\ IF k = "alive_check" THEN Overlaps(h) ELSE UNCHANGED overlapped
  /\ UNCHANGED <<connections, socket_vars, state, source_addr, promise, thread,
                 received, taken_over, crossed, doubtful, terminated>>

(* AliveCheckTimeout, GeneralInactivityTimeout, InitialInactivityTimeout.  *)
Timeout(k) ==
  /\ At(k, "finalize")
  /\ state' = [state EXCEPT ![worker[k].host] = "finalize"]
  /\ Move(k, "alive")
  /\ UNCHANGED <<connections, socket_vars, source_addr, timer, promise, thread, history_vars>>

AliveCheckTimedOut ==
  /\ At("alive_check", "result")
  /\ SetAliveCheckResult(worker["alive_check"].host, "false")
  /\ worker' = [worker EXCEPT !["alive_check"] = Idle]
  /\ UNCHANGED <<connections, socket_vars, state, source_addr, timer, thread,
                 received, taken_over, crossed, doubtful, overlapped>>

(* The connection was found registered; its timer is restarted later.      *)
Transmit(h) ==
  /\ "transmit" \in Acting /\ At("transmit", "idle") /\ tcp_socket[h] # None /\ Registered(h)
  /\ worker' = [worker EXCEPT !["transmit"] = [Idle EXCEPT !.at = "restart", !.host = h]]
  /\ UNCHANGED <<connections, connection_vars, thread, history_vars>>

RestartGeneralInactivity ==
  /\ At("transmit", "restart")
  /\ timer' = Restarted("general_inactivity", worker["transmit"].host)
  /\ worker' = [worker EXCEPT !["transmit"] = Idle]
  /\ UNCHANGED <<connections, socket_vars, state, source_addr, promise, thread, history_vars>>

-----------------------------------------------------------------------------
Accepts == Cancel("accept") \/ AddTcpSocket \/ SpawnReceiver

(* What the receiving thread does without anything arriving.               *)
Receives(h) ==
  \/ StartReceiving(h) \/ SocketRead(h) \/ SocketReadFails(h) \/ AliveCheckAnswered(h)
  \/ CloseReceived(h) \/ UnsetSocket(h) \/ UnsetSource(h) \/ EndReceiving(h)
  \/ AnswerActivation(h)

Activates(h) ==
  \/ ConnectionRoutingActivation(h) \/ SelectRegistered(h) \/ PerformAliveCheck(h)
  \/ SendAliveCheckRequest(h) \/ AliveCheckResult(h)
  \/ SetSourceAddress(h) \/ SetRegistered(h)

(* What a tester may do.                                                   *)
Arrives(h) ==
  \/ TesterCloses(h) \/ ReceiveOther(h)
  \/ \E a \in OptionalAddress :
       \/ ReceiveDiagnosticMessage(h, a) \/ ReceiveAliveCheckResponse(h, a)
       \/ ReceiveRoutingActivationRequest(h, a)

TimesOut(k) == Timeout(k) \/ Cancel(k) \/ (k = "alive_check" /\ AliveCheckTimedOut)

Next ==
  \/ \E s \in Sockets : Accept(s)
  \/ Accepts
  \/ \E h \in Hosts : Receives(h) \/ Activates(h) \/ Arrives(h) \/ Transmit(h)
  \/ \E k \in Timers : TimesOut(k) \/ \E h \in Hosts : Expires(k, h)
  \/ RestartGeneralInactivity

Spec == Init /\ [][Next]_vars

(* Threads that can run do, and a timer that keeps running expires.        *)
(* Nothing makes a tester connect, send, answer or close.                  *)
Fairness ==
  /\ WF_vars(Accepts)
  /\ \A h \in Hosts : WF_vars(Receives(h)) /\ WF_vars(Activates(h))
  /\ \A k \in Timers : WF_vars(TimesOut(k)) /\ \A h \in Hosts : WF_vars(Expires(k, h))
  /\ WF_vars(RestartGeneralInactivity)

FairSpec == Spec /\ Fairness

-----------------------------------------------------------------------------
(* A connection that is about to be closed, whatever its state says.       *)
ClosingPositions == {"finalize", "alive", "stop", "promise", "close"}
Closing(h) ==
  \/ thread[h].at = "close"
  \/ \E w \in Workers : worker[w].host = h /\ worker[w].at \in ClosingPositions

Usable(h) == Registered(h) /\ IsOpen(tcp_socket[h]) /\ ~Closing(h)

(* A source address is registered on one usable connection at a time: a    *)
(* second one gets it only when the alive check found the first one dead.  *)
(* Three things break this: a connection that is given a socket while it   *)
(* is in use; an activation that finds more connections registered than    *)
(* there may be: it takes the first dead one for all that are in its way;  *)
(* and one that finds the first connection being checked already, and does *)
(* not ask it: the timer may be left from a check that has ended.          *)
(* (ConnectionRoutingActivation, DoIP-091 to DoIP-093.)                    *)
OneConnectionPerAddress ==
  \A c, d \in Hosts \ (taken_over \cup doubtful) :
    Usable(c) /\ Usable(d) /\ source_addr[c] = source_addr[d] => c = d

(* With the same exceptions, no more connections are registered and usable *)
(* than the configuration allows.                                          *)
(* (ConnectionRoutingActivation, DoIP-090 and DoIP-094 to DoIP-096.)       *)
RegisteredWithinLimit ==
  Cardinality({h \in Hosts \ (taken_over \cup doubtful) : Usable(h)}) <= MaxConcurrentTcpSockets

(* A socket that was accepted and is still open is the one its connection  *)
(* has, and the connection's thread reads that one: it is not forgotten,   *)
(* however often the connection is given a new socket while its thread or  *)
(* a timer is closing the last one.  Only a socket that is given between   *)
(* their close() and the reset of tcp_socket_ may be lost. (AddTcpSocket,  *)
(* Cancel and the end of ReceiveMessages all close and reset tcp_socket_.) *)
OpenSocketIsServed ==
  \A s \in Sockets :
    LET h == HostOf[s]
        Accepted == worker["accept"].socket = s
    IN IsOpen(s) /\ s \notin crossed =>
         \/ Accepted
         \/ /\ tcp_socket[h] = s
            /\ thread[h].at # "none"
            /\ thread[h].at = "reading" => thread[h].socket = s

(* An activation holds mutex_ while it waits for another tester's answer,  *)
(* and all other activations wait behind it: as long as it waits, the      *)
(* answer has come, or a timer or a thread is there that will give one,    *)
(* unless the answer was given twice, which ends the process.              *)
(* (PerformAliveCheck, AliveCheckTimeout, Cancel.)                         *)
AnswerIsComing ==
  \A h \in Hosts :
    LET c == Head(thread[h].rest)
    IN thread[h].at = "await" /\ ~terminated =>
         \/ promise[c] # "unset"
         \/ c \in timer["alive_check"] \/ worker["alive_check"].host = c
         \/ thread[c].at = "answered"
         \/ \E w \in Workers : worker[w].host = c /\ worker[w].at = "promise"

(* The future of an alive check is set once, by the response, by the       *)
(* timeout or by who cancels the connection; the second std::promise::     *)
(* set_value() would end the process.  It comes only from two of them that *)
(* end the check at once, each after it found the timer running or expired,*)
(* or from one that is late and meets the next check of the connection.    *)
(* (AliveCheckTimeout, Cancel, the alive check response, PerformAliveCheck;*)
(* do_ip_connection.h:100-101.)                                            *)
PromiseIsSetOnce == terminated => overlapped

-----------------------------------------------------------------------------
(* A connection whose tester does not ask for activation does not stay     *)
(* initialized, and one that timed out, or whose tester answered for       *)
(* someone else, is ready for a new socket in the end, whatever it is      *)
(* given meanwhile. (InitialInactivityTimeout, DoIP-127, Cancel, the end   *)
(* of ReceiveMessages.)                                                    *)
ConnectionSettles ==
  \A h \in Hosts :
    state[h] \in {"initialized", "finalize"} ~> state[h] \in {"listen", "registered"} \/ terminated

(* Accepting goes on: the old thread of a replaced socket, which the       *)
(* accepting thread joins, ends, since its socket has been closed.  It     *)
(* does not if it comes to read the new socket, and the tester is silent.  *)
(* (AddTcpSocket, Cancel, ReceiveMessages.)                                *)
ReadsNewSocket(h) == thread[h].at = "reading" /\ thread[h].socket = worker["accept"].socket
AcceptingEnds ==
  worker["accept"].at = "join" ~>
    worker["accept"].at # "join" \/ ReadsNewSocket(worker["accept"].host) \/ terminated
=============================================================================
