# Verification of remote diagnosis

The repository holds several programs of a vehicle computer. This project is about the three
that carry out diagnosis:

- the **diagnostic proxy** (`src/remote_cod/diag_doip_edge/src/diagnostic_proxy`, called P
  below): diagnostic testers connect to it over DoIP, and it forwards their UDS requests to the
  ECUs behind gateways and nodes. Several testers of different priorities share the ECUs, so
  the proxy arbitrates. All of this runs on many threads: one for each tester's connection, one
  for each ECU connection, a routing thread, an arbitrating thread and one thread for each kind
  of timer. It is the core.
- the **script daemon** (`src/remote_cod/diag_script_parser/scriptdaemon`, called D), a process that
  runs diagnostic scripts as child processes for a client;
- the **virtual diagnostic tester** (`src/remote_cod/virt_diag_tester`, called V), that client: it
  takes diagnostic tasks from the cloud, has the daemon run their scripts and reports.

The scripts, in turn, are testers of the proxy. The modules model the path of a request through the
proxy's threads, both kinds of connections (to the testers and to an ECU), the daemon, and the
tester together with the daemon. TLC checks the properties that make them correct on small instances;
TLAPS proves for every instance the types, the refinement and all invariants but one. Liveness and that one are
left to TLC.

## 1. Inventory

### The core

| component (under P) | state | operations | works with |
|---|---|---|---|
| Arbitration (`dcm/arbitration`) | for each address its state (Initial, Working, Keeping), the tester it was granted to, a cache of one request, a queue of addresses, the keeping timer (5 s) and the P2 / P2* timer | Arbitrate, ArbitrateCacheMessage, ArbitrateAddressFinish, ArbitrateAddressRelease, ArbitrateAddressPending, HandleArbitrateAddressQueue | called by conversations, routes and timers; calls the routes back to send, remind or refuse a cached request |
| Conversation (`dcm/conversation`) | none of its own across requests | HandleMessage | asks Authentication and Arbitration, passes on to Routing |
| Routing (`dcm/route/routing.cpp`) | queue of requests | RoutingMessage, RoutingMessageQueue (a thread) | calls the routes |
| RoutingTimer (`dcm/route/routing_timer.cpp`) | for each address the acknowledgement timer (2 s), the response timer (P6, P6*), and the sid and suppress bit of the request it waits for | StartReceving, StopReceving, CheckDiagnosticAck, -Nack, -Msg, CheckResponsePending, timeouts | called by senders and receiving threads; ends in the route's HandleRoutingFinish |
| GatewayRoute, NodeRoute and their processors | address -> conversation of the answers, the last conversation, the routing state | CheckAndHandleMessage, HandleMessage, HandleRoutingFinish | send over a RoutingDoIpConnection, relay answers to the tester |

What makes the core correct: a request is forwarded at most once and settled exactly
once; a request that waits is reminded and served, or told that it was displaced; an
address never works for nobody and is never kept for good; an answer goes to the
tester that asked; and every use of an address ends even if the ECU falls silent.

### The rest of the proxy

| component | state | hard behaviour | correctness |
|---|---|---|---|
| DoIP connections of the testers (`dcm/connection/do_ip_connection*.cpp`, `do_ip_handler.cpp`) | socket, state, source address, three timers and an alive-check promise for each connection; a receiving thread | a socket replaced while its thread runs; timers that cancel a connection; an activation that blocks for an alive check | one registered connection for each tester, within the limit; an accepted socket is served or closed; an activation waits only for an answer that can come, and that is given once |
| RoutingDoIpConnection (`dcm/route/routing`) | socket, result of the connection attempt, request to exit; a receiving thread | a notification just before the wait; a socket cleared by one thread while the other connects | no socket is forgotten or closed twice; what the ECU answers is read; stopping ends |
| Authentication (`dcm/authentication`) | authentication state, the conversation that owns it, a timer | test and set on several threads | at most one authenticated conversation |
| ConversationManager, TesterTable | conversation by channel, next identifier | 255 identifiers, never given back | distinct conversations have distinct identifiers |
| WheelsTimer (`common`) | a running flag and libnet's timer | expiry racing a start | a started timer can be stopped |
| Partition route and synchronisation | transmission protocol to the SoC partitions | requests synchronised among partitions | an answer for each synchronised request |
| UDP, entity identification, packets, socket I/O, NeuSAR-net, start-up | little or none | - | - |

### Script daemon and virtual tester

| component | state | operations | hard behaviour | correctness |
|---|---|---|---|---|
| Manager, Task, Poller (`D/src`) | tasks by directory, a priority queue of fork requests with promises, `current_pid_`, the links of persistent tasks on disk | start and stop requests, timers, SIGCHLD, the loop over the fork queue, NotifyState (a thread), loading after a restart | one place for a child; a second thread forks too; futures that are replaced; crashes; signals that are blocked | a child that runs is the one waited for; a request that waits is woken; what is started is answered; the links lead to the tasks in service, or were left out by the last start |
| Virtual tester (`V/core/src/diag`) | one thread for each task, the user's answers, a cache of the daemon's last message about each path, the script directories | receiveDiagData, RemoteDiagTaskProcess, ProcessDiagTaskResult, ReceiveTask (a thread) | a cache that lags; a daemon that dies; a timeout that races the result; directories that are shared | what the cloud is told is true, also of a failure; every script that runs once gets an end; a forbidden task is not run |

### The rest of the repository

`uds_inf` builds and parses UDS services; `AsfDiagnosticScript`, `diag_script_parser` outside the
daemon and the OTX and ODX directories convert scripts or hold their content; `meapp`, the largest part, is a
desktop tool with generated signal code and a vendored CAN driver; V carries a vendored JSON library;
`lidar_service` forwards commands of a lidar wiper. They hold little concurrent state of their own and are
left out (PROJECT.json gives each component's reason). Counted in lines they are most of the repository,
so the share of it that is modelled is small.

## 2. Modules

| module | content |
|---|---|
| `Diagnostics` | the constants: addresses, processors, testers, priorities, requests |
| `Arbitration` | state and operations of class Arbitration and class ArbitrationTimer |
| `RoutingTimer` | state and operations of class RoutingTimer |
| `Route` | Routing's queue, and the routes' memory of conversations |
| `DiagnosticProxy` | composes the three with the threads: every action, the specification, fairness and properties |
| `RequestLife` | what the proxy promises about each request (abstract specification) |
| `MCDiagnosticProxy` | instances for TLC |
| `DiagnosticProxyProofs` | proofs about `DiagnosticProxy`: types, the keeping and the pending timer |
| `RequestLifeProofs` | extends it: where the requests are, and that the proxy implements RequestLife |
| `AddressUseProofs` | extends that: who works for an address, and where its answers go |
| `DoIpConnection` | the testers' connections: accepting, receiving and timer threads, routing activation |
| `RoutingDoIpConnection` | the connection to one ECU: sending, receiving and stopping thread |
| `ScriptDaemon` | the daemon: tasks, fork queue, children, links, the notifying thread |
| `VirtualTester` | extends ScriptDaemon: the tester's threads, the channel between the two, and the daemon's actions with what they write |
| `MCDoIpConnection`, `MCRoutingDoIpConnection`, `MCScriptDaemon`, `MCVirtualTester` | their instances for TLC |
| `DoIpConnectionProofs`, `RoutingDoIpConnectionProofs`, `ScriptDaemonProofs` | proofs about them |
| `VirtualTesterProofs` | extends `ScriptDaemonProofs`: that the composition implements the daemon, and what the cloud is told |

### State and code

| variable | code |
|---|---|
| `arbitrate_map`, `arbitrate_info_map`, `arbitrate_cache_map`, `arbitrate_address_queue` | the members of Arbitration of the same names; `None` stands for a missing entry |
| `arbitration_timer`, `pending_timer` | the addresses whose ArbitrationTimer has that timer running |
| `diagnostic_message_timer`, `receiving_timer`, `receving_info` | the same for RoutingTimer; `receving_info` is the request that `sid_` and `suppress_` were set from |
| `routing_queue`, `transmit_map`, `last_transmit_cid`, `routing` | Routing::queue_, the routes' maps, Route::routing_ |
| `conversation`, `thread` | program counters: where each thread is between two locks, with the address and the request it holds in local variables |
| `outcome` | what became of a request, as its tester sees it |
| `shared`, `pendings` | history: addresses granted while in use; number of 0x78 answers |

The code takes a lock inside nearly every operation and releases it before the next one,
so **each critical section is an action** and threads interleave between any two of them.
The positions of a thread name the section that comes next:

- a conversation: `pass` (decided, ArbitrateStart to come), `route`, `pending` (to be
  cached), `arm` (P2 timer to be started);
- a sender (routing or arbitrating thread): `handle` (CheckAndHandleMessage), `send`
  (waits for the processor's lock and the connection), `sending` (holds the lock, the
  timer runs), `Gateway`, `Node` (a functional request on its way to each route);
- whoever ends a request (sender, receiving or timer thread): `erase`, `check`, `keep`,
  the three steps of HandleRoutingFinish and ArbitrateAddressFinish;
- a receiving thread: the message it reacts to (the timer was tested, not yet stopped),
  `start` (the next timer to be started);
- the keeping and reminding threads: `release`; `remind`, `rearm`.

The actions have the names of the functions they model; PROJECT.json maps every definition
to its lines. GatewayRoute and NodeRoute are one set of actions over `RouteOf(a)`, since
their code differs in the routing state only.

### The testers' connections

`DoIpConnection` stands beside the core. It is about who is connected and registered; what a
registered tester sends is the core's subject. A connection belongs to a host and outlives
its sockets, so a connection is its host.

| variable | code |
|---|---|
| `tcp_socket`, `state`, `source_addr`, `promise` | the members `tcp_socket_`, `state_`, `source_addr_`, `aliveCheckPromise_` of each DoIpConnection |
| `timer[k]` | the connections whose timer of kind k runs |
| `connections` | `DoIpConnectionManager::connections_`, in their order, which decides whom a search finds first |
| `descriptor` | the kernel's view of each socket: not yet accepted, open, closed, or refused: accepted, given to no connection and left open |
| `thread` | the position of each connection's receiving thread, with the socket it reads, the address it activates and the peers left to ask |
| `worker` | the position of the accepting thread, of each timer thread and of a sending thread |
| `received`, `taken_over`, `crossed`, `doubtful`, `overlapped`, `terminated` | history: messages so far, connections that were given a socket while in use, sockets stored between another thread's close and reset, see below, alive checks that were ended by two at once or begun during another's end, and the end of the process |

Cancel is seven steps (`alive`, `stop`, `promise`, `close`, `unset`, `source`, `state`), one for each access to
the connection that another thread can come between: `alive` tests the timer, `stop` stops it, `promise` sets the promise,
and catches the exception if it was set. The end of ReceiveMessages is the same from `close` on. AddTcpSocket is Cancel, then `set_socket`, then `join`, which waits for
the old receiving thread. ReceiveMessages reads (`read` fetches the socket, `reading` is inside
recvmsg) and handles one message at a time; an answer to an alive check is two steps,
since the test of the timer and its stop are. ConnectionRoutingActivation runs under `mutex_`:
one step decides (connections can only stop being registered meanwhile),
then `select` (under `connections_mutex_`, which keeps the accepting thread out), `check`,
`request`, `await`, `grant` and `register`. A promise that is set twice throws, no thread
catches it, and the process ends (`terminated`).

A message is of one of four kinds: diagnostic message, activation request, answer to an alive check,
or another one, which may be malformed. An activation with an unsupported type is refused like
one with an address out of range, `None`. Left out are Stop, the notification of the channel's
state to the conversation, and the reuse of a descriptor number after close.

### The connection to an ECU

`RoutingDoIpConnection` refines nothing of the core: there a connection attempt and a send just succeed
or fail, and an answer comes or does not. It is about how that comes to be.

| variable | code |
|---|---|
| `connect_result`, `socket_fd`, `exit_requested` | `connect_result_`, `socket_fd_`, `exit_requested_` |
| `open`, `unread`, `hung_up` | the kernel's view of the sockets: open on this side, with something to read, closed by the ECU |
| `sender`, `receiver`, `stopper` | positions of the thread that sends a request (the processor's lock admits one), of `thread_`, and of StopOffer |
| `unheard` | history: the last notification came between the receiver's test of the flag and its wait |

`connect_result_` is an atomic read and written without `mutex_`, and the notification does not take it either, so the
receiver's test (`check`), the start of its wait (`about`) and the wait itself are three positions. ClearSocket is two
steps, the result and then the socket under `fds_mutex_`. A descriptor number that is closed while the
receiver is in recvmsg may be given to the next socket (`SocketReadsNext`). The ECU is external: it sends and closes as it likes.

### The daemon and the tester

| variable of `ScriptDaemon` | code |
|---|---|
| `tasks`, `armed`, `awaiting`, `sent`, `pid` | keys of `tasks_`, timers of periodic tasks, promises in `pending_ready_`, `result_sent_`, `pid_` |
| `queue`, `current` | `fork_queue_` with the state of each promise, `current_pid_` |
| `process`, `sigchld`, `links` | kernel: children and how they ended, the pending SIGCHLD, the links on disk |
| `left_out` | history: the links the last start left without a task |
| `up`, `toload`, `draining`, `stopping` | where the poller's thread is: Init, the loop over the fork queue, the end of a stopped task in its task queue |
| `notifier` | the NotifyState thread between its look at `current_pid_` and what it does with it |
| `written` | what the last step wrote to the client |
| `raced` | history: that thread acted on a look that was stale |

The poller runs each handler to its end, so **each handler is an action**; only the loop over the fork queue is a
step for each request, since the notifying thread can come between. Assertions are part of the program: no build type
is set, so a failing one is `DaemonGone`. A crash may come at any step, keeps the links and the scripts that run,
and the daemon may start again. When it loads the links it leaves out those beyond the limit, and may skip one whose directory is
gone or whose task cannot be made: `Removable` says which.

| variable of `VirtualTester` | code |
|---|---|
| `task`, `reported` | the position of each task's thread, the run states sent to the cloud |
| `answers`, `user_auth_code` | `idcu_response_map_` and the answer that was about all tasks |
| `socket`, `outbox`, `inbox` | the local socket and the messages on it; nobody connects again when it is broken |
| `cache`, `disk` | the last message about each path; the task whose configuration is in a directory, `Unconfigured` for a directory without one |
| `succeeded`, `presumed` | history: paths whose script has exited with 0; tasks reported as failed by the tester itself, refused or without an answer of the daemon |

A script is unpacked (`Unpack`) and then configured (`WriteConfiguration`), with the reading thread in between: it finds no configuration,
that of an earlier task, or one half written, which it cannot parse.

Every action of the daemon is one of the composition, with `Relay` passing on what it wrote
(`DaemonElse` gathers the internal ones). The user's answers that come after the thread has given up waiting are not looked at
by the code, and are left out.

### Abstractions

- Time is abstract: a running timer may expire at any moment. This includes every order
  that the durations would rule out.
- An ECU may acknowledge, refuse, answer or delay any request that reached it, late and
  repeatedly, or never (`Reached`, external). A connection attempt or a send may fail.
- A request is a model value with a tester, a target, a sid and a suppress bit; each is
  sent once. Payloads and response contents are left out, as is relaying an answer to
  the tester, which changes no state.
- Testers are conversations with a fixed priority: the TesterTable does not change after
  start-up. Authentication is disabled in the default configuration, `proxy_config.json`.
- Sections that no other thread can tell apart are merged: the test of the cache and the
  queueing of the address in ArbitrateAddressFinish; starting the keeping timer and
  ArbitrateFinish (the timer needs 5 s to fire); the sections of StartReceving; and, for
  a functional request, the broadcast to the gateways with the node route's first step.
- Two merged steps other threads could come between, to no effect on a property. A receiving thread that handles the answer to an
  alive check stops the timer and sets the promise in one step (the test of the timer is one of its own); no activation starts
  another check in between while it waits for this promise. The tester's reading thread caches a message and reports it in one step; what it
  reports is of persistent tasks, which no other thread looks up.
- Every address is subscribed and known to the routing.
- The vehicle states that the conditions of a script refer to are chosen anew at each look (`Conditional`).
- In the runs with the tester no script directory vanishes from under a link (`Removable` is empty): the tester removes directories of
  scripts that run once only.
- Messages are known by their kind and what they are about.

### Not modelled

- In the proxy: PartitionRoute, the synchronisation modes that the build leaves out, shutdown of the core, the race inside
  WheelsTimer, Authentication, the allocation of conversation identifiers, UDP. Of the testers' connections Stop, the
  notification of the channel's state to the conversation, and the reuse of a descriptor number after close.
- In the daemon: what a clone of it (a child that returns into the poller's loop) runs besides its timers, the
  contents of results, the switches Test and SECURE_STARTUP.
- In the tester: the code under `#if 0` (the local client and the former way to stop a task), the dialogue with
  a running script (`interact_state`), shutdown (`global_stop_flag`), SIGPIPE on a broken socket, tasks that only store a script,
  and data races inside standard containers.

## 3. Runs

| run | instance | properties | states |
|---|---|---|---|
| `competing` | three testers of priorities 1, 2, 3, one address, the keeping timer | `TypeOK`, `WorkingIsOwned`, `KeepingIsTimed`, `RequestLifeHolds` | 954 000 |
| `timeouts` | two testers, two addresses of a gateway that may close its routing, a functional request, the timers of an answer, one request that suppresses its response | `WorkingIsOwned`, `AnswerGoesHome` | 1 277 000 |
| `liveness` | two testers, one address of a node, all timers but the keeping one, fair threads | `PendingKeepsAlive`, `WorkingEnds`, `CachedIsServed`, `RoutedIsSettled` | 125 000 |
| `activations` | three hosts, two source addresses, at most one registered, four messages, alive checks that time out | `OneConnectionPerAddress`, `RegisteredWithinLimit`, `AnswerIsComing`, `PromiseIsSetOnce` | 525 000 (up to symmetry) |
| `inactivity` | a host that connects twice, two messages, the inactivity timers and a sending thread, fair threads | `TypeOK`, `OpenSocketIsServed`, `ConnectionSettles`, `AcceptingEnds` | 354 000 |
| `ecu_connection` | three sockets, an activation, fair threads | `TypeOK`, `DescriptorIsOwn`, `SocketIsKept`, `BeliefEnds`, `AnswerIsRead`, `NextRequestWakes`, `StopEnds` | 86 000 |
| `daemon` | a temporary, a periodic and an event task, the first two with one file name, two tasks at a time, crashes, a directory that may go, fair poller | `TypeOK`, `ChildIsCurrent`, `WaitingIsWoken`, `PersistenceMatches`, `TaskIsAnswered`, `ExecutedMeansExecuted` | 369 000 |
| `tester_reports` | two cloud tasks, one for a script that runs once and one periodic, crashes of the daemon, fair threads of the tester | `TesterTypeOK`, `ReportIsTrue`, `FailedIsOver`, `EachTaskIsReported` | 1 135 000 |
| `stale_keeping_timer` | one tester, two requests | `WorkingUntilFinished` is violated | |
| `fork_is_alone` | two temporary scripts and a periodic one, so that two wait in the fork queue | `ForkIsAlone` is violated | |
| `stop_means_stopped` | two temporary scripts | `StopMeansStopped` is violated | |
| `forbidden_task` | one cloud task that asks the user | `ForbiddenIsNotStarted` is violated | |

What they show of the core:

- `RequestLifeHolds`: the proxy implements RequestLife. Between the conversation, the
  queue, the cache and the senders no request is lost or duplicated, none is sent and
  also refused, and the one displaced in the cache is told busy in the same step.
- `WorkingIsOwned`: a Working address has a request on its way, an answer that is
  awaited, or a thread about to hand it on. The code breaks it in one place, which the
  invariant names: GatewayRoute refuses a request of a closed gateway without finishing
  its address.
- `AnswerGoesHome` is stated for addresses that were never granted twice at a time
  (`shared`): the arbitration does grant twice, when two conversations pass the test before either
  starts, and a functional request takes over the entries of its route. The other exception is an address that
  a timeout or a failed send has handed on to its next request: an acknowledgement of the former one, read before, starts
  the timer of its answer even then.
- `CachedIsServed` is stated for requests that wait while the ECU's answer is awaited. A
  request cached after the finishing thread looked at the cache waits for some other request to end.

Of the testers' connections:

- `OneConnectionPerAddress` and `RegisteredWithinLimit` count the usable connections: registered, with
  an open socket, and nobody about to close it. Both hold but for three cases that history variables
  name. A connection may be given a socket while its thread or a timer is still at work on it
  (`taken_over`). A dead connection stays registered until its thread has reset it:
  FindRegisterConnectionBySA returns the first match only, so an activation that meets more
  registered connections than there may be takes the first dead one for all (`doubtful`). And
  PerformAliveCheck does not ask a connection whose alive check timer runs, but counts it as dead; that timer
  is one for all checks and may still run from one that has ended (`doubtful`, too).
- `AnswerIsComing`: an activation that blocks, with `mutex_` held, in the wait for another tester's answer has the
  promise unset only while the alive check's timer runs or somebody is about to set it, or the process has ended (`terminated`).
- `PromiseIsSetOnce`: a promise that is set twice throws, and nobody catches it in the thread of the answer or of the timeout. This does happen, and ends the process: when
  two of the answer, the timeout and Cancel are ending one check at once, each after it found the timer running or expired, or when one is late and meets the next
  check of the connection (`overlapped`). The property says that there is no other way.
- `OpenSocketIsServed`: a socket that was given to a connection is closed or is the one the connection has, and its thread reads no other.
  This is for every socket, also one that is stored while a thread or a timer works on the connection, with one exception: a socket
  that is stored between another thread's close and its reset of `tcp_socket_` is lost (`crossed`). One that is refused because too many
  are open is given to none, and nobody closes it (`refused`).
- `ConnectionSettles`: an initialized or finalized connection is registered or ready for a new socket in the end.
- `AcceptingEnds`: the accepting thread joins the old thread of a replaced socket, and goes on. It does not in one case, which the
  property names: the old thread has come to read the new socket, and its tester is silent.

Of the connection to an ECU:

- `SocketIsKept`, `DescriptorIsOwn`: `socket_fd_` is the number of an open socket, and a socket is forgotten while
  open in one case only, a sender that connects between the two halves of the receiver's ClearSocket. StopOffer leaves a closed number behind.
- `AnswerIsRead`, `NextRequestWakes`, `StopEnds`: the notification that comes between the receiver's test and its wait is lost
  (`unheard`). An answer is then unread until the next request, which notifies again; after StopOffer's
  notification there is no next one, and it joins for good. These are the only exceptions.
- `BeliefEnds`: the result says connected and the socket is gone, in that same case, and not for ever.

Of the daemon and the tester:

- `ChildIsCurrent`, `WaitingIsWoken`, `TaskIsAnswered`: between the poller's handlers, the one place for a child is never taken twice,
  and no fork request waits for a wake-up that will not come. The notifying thread, which looks at `current_pid_` without a
  lock, breaks each of them; `raced` delimits that.
- `PersistenceMatches`: what a restart will revive are the tasks in service, but for links that the last start left out; where no
  directory is ever gone, there is room for every one. Two directories with the same file name share one link, which the property excepts.
- `ExecutedMeansExecuted` excepts a task that is stopped: its destructor sends "executed over" though its script may never have run.
- `ReportIsTrue`, `FailedIsOver`, `EachTaskIsReported`: through the daemon's queue, a cache that lags, timeouts and the daemon's death, the
  cloud is told of success only after it, of failure only when the script is over, and always told an end. The tester itself also takes for failed what the user
  refused, and a task about which the daemon has not answered yet when the thread looks for it, a second after the request; the script of the latter runs all the same. `FailedIsOver` excepts
  these reports and no others (`presumed`). Two cloud tasks with one directory read each other's messages, so all three
  are about a task that has its directory to itself (`Alone`).

The four violations are disagreements of the code with its own tests, assertions and comments:

- `stale_keeping_timer`, with `ut/src/ut_dp_dcm.cpp:201-202`: a working address refuses others until it is finished. The keeping
  timer of an earlier request is never stopped and frees it.
- `fork_is_alone`, with `assert(current_pid_ == -1)` at `manager.cpp:304`: the loop over the fork queue forks for the first of two waiting
  requests and goes on to the second, whose assertion ends the daemon.
- `stop_means_stopped`, with `common.h:55` and the log at `task.cpp:199`: SIGTERM is blocked in the children, so a stopped script runs on.
- `forbidden_task`, with `diag_client_interface.h:129`: a task that the user forbids is reported as failed and then started.

### Bounds

- Core: three requests are the fewest for which a cached request can be displaced while another is being forwarded, two for
  every race between an end and a new request. Two addresses are the fewest on which `transmit_map` and `last_transmit_cid`
  differ. `MaxResponsePending` limits the 0x78 answers, since each one adds a round in which the response timer and the answer
  may both end the request. `Expiring` names the timer threads that take part in a run; with `Expiring` empty only the ECU ends requests.
- Testers' connections: three hosts are the fewest with two registered and a third in the way, and one host that connects twice has
  every race about a replaced socket. Four messages are three activations and an answer to an alive check. `MaxMessages` bounds the messages
  received and `Acting` names the timer and sending threads that take part. `activations` permutes the hosts, with their sockets, and
  the addresses; nothing tells them apart, and all its properties are safety.
- Connection to an ECU: with three `Sockets` one can be in use, one forgotten and one newly made; when all are open, socket() fails.
- Daemon: `MaxTasks` is the program's own limit, two where it is to be reached; `MaxQueue` limits the requests that wait, two being the fewest whose
  order matters; `Pids` the children that may run beside a clone.
  The runs have two links and room for two tasks, so a start leaves out a link in them only because it skips it: that the limit may be met while the links
  are loaded is covered by the proofs alone.
- Tester: `MaxInbox` limits the messages unread when a periodic task's timer fires, since nothing else stops a timer from filling the socket. Once
  the connection is broken such a task reaches nobody, and its timer is left out.

The core and the testers' connections stop when every request has been sent, or every socket used and no message is left, so deadlock is not checked there;
the liveness properties say that they do not stop too early. The ECU connection's end is StopOffer's. Daemon and tester never stop, and are checked for deadlock.

### Fairness

A thread that can run does so in the end, as the operating system's scheduler guarantees, and a timer that keeps running expires. In detail:

- Core (`FairSpec`): nothing is assumed of testers, ECUs and gateways: they may fall silent. Sending and connecting end with success or failure,
  as the code bounds both with timeouts.
- `DoIpConnection`: likewise nothing makes a tester connect, answer or close; a thread that waits for `mutex_` gets it in the end,
  as only finitely many activations compete for it.
- `RoutingDoIpConnection`: the sender, the receiver and the stopper go on. No request needs to come, and the ECU does nothing it does not like.
- `ScriptDaemon`: the poller handles SIGCHLD and goes on with its loop, the notifying thread with its launch. RunTaskQueue has strong fairness, since the poller
  empties its task queue before each select, while the loop over the fork queue disables it again and again. A script ends by itself, as its requests to the ECUs time out.
  A client, a timer, a crash and a clone's end are not forced.
- `VirtualTester`: only the tester's own thread and its clock. Nothing is assumed of the daemon, which may be dead.

## 4. Proofs

The theorems hold for all values of the constants that satisfy the named assumptions in the modules: the tables map
addresses, requests, testers and sockets as their types say, the names differ, and the hosts of the testers are finitely many. One
theorem needs more, and says so: `WithinLimit` that the limit is not 0, since an activation that finds nobody registered is granted
without a look at it. Each proof has one lemma for each action, or for the actions of one thread, and
one step for each part of the invariant that they can disturb.

### The core

- `TypedInvariant`, `TypeCorrect` (`DiagnosticProxyProofs`): TypeOK alone is not inductive. A thread that carries a
  request uses the request's target as the index of all tables, so `Consistent` adds that a cached
  request is for the address it is cached at, that a thread's address is its request's
  target, and that only physical requests get that far.
- `KeepingTimed`, `PendingAlive`: most steps frame (`KeepingUntouched`, `PendingUntouched`); what remains is the
  start of keeping or of waiting, and the timer's own thread.
- `CustodyInvariant` (`RequestLifeProofs`): a request that is open is with its conversation, in the routing queue, in the
  cache or with a sender, in one of them only and there only once; one that is not open is nowhere, but for the
  functional request that a closed route has refused while its thread goes on to the other route. This is inductive together with the types: a
  move takes a request from a place where it was alone to one where, by custody, it was not.
- `ImplementsRequestLife`: custody makes `Stage` a function of the place (`StagesAre`), and then every action is one of
  RequestLife's moves, with the `busy` answer to a displaced request in the same step as the move that displaces it, or leaves all stages alone.
- `WorkingOwned` (`AddressUseProofs`): what a step takes from an address, one of its request, its timer, its place in the
  queue or its thread, it hands to another of these (`WorkGoesOn`). The exception needs custody: a request that a closed route has refused stays refused.
- `AnswerGoesToTester`: the property speaks of addresses whose answer is awaited; what makes it inductive is the whole
  use of the address (`Home`). One that was never granted twice at a time has either one request on its way, alone, or uses
  of a request that was forwarded, never both (`Alone`); a request about to be sent has told the route its tester
  (`Announced`); so the request whose answer is awaited and the conversation in `transmit_map` belong together
  until somebody has begun to hand the address on (`AtHome`).

### The connections

- `DescriptorOwned`, `SocketKept` (`RoutingDoIpConnectionProofs`): the inductive invariant adds that a sender that connects was
  told there is no connection, that a socket which is stored while the result says "not connected" is on its way to be
  connected or closed, and that StopOffer runs alone.
- `ShapeInvariant`, `TypeCorrect`, `AnswerComes` (`DoIpConnectionProofs`): `Shape` says what each position of a thread implies:
  who holds `mutex_`, that a connection that is worked on is among `connections_`, and that a connection whose socket was closed
  has none until it is cleaned up, or was `taken_over`.
- `SocketServed` adds that the accepting thread, while it joins, has its socket still in place, and that a thread about to reset
  `tcp_socket_` has left a closed socket there or one that is `crossed`.
- `PromiseSetOnce`: until two ends of a check overlap, one at most is ending the check of a connection, and whoever is to set the promise without
  expecting an exception, or lets the timer run that leads to it, finds the promise unset (`EndedByOne`).
- `OneConnection`: an activation decides early and registers late, with the wait for an alive check in between, while other threads close and reset connections.
  `AddressDecided` carries the decision along: before the check only the connection that is asked may hold the
  address, after it nobody. `DeadIsUnusable` says that a failed check means a connection that is being closed.
- `WithinLimit`: likewise with the number of connections (`RoomDecided`).

The attempt at `OneConnection` found that the property was wrong as stated before: it did not except the
connection that counts as dead because a timer of an earlier check is still running. Two activations one after the other reach that
case, with more messages than the run has. The attempt at `SocketServed` found that a refused socket had been excepted too
generously; it is a value of `descriptor` of its own now. It also showed that all sockets of a connection in use need not be excepted: `crossed`
is what remains.

### The daemon and the tester

- `ShapeInvariant`, `TypeCorrect` (`ScriptDaemonProofs`): who holds a process identifier or a pending fork request is there and stays there,
  and a child that has ended leaves a SIGCHLD to be read. That the queue has a top needs a proof, as `Top` chooses it: the request
  that the fewest others are above, which there is because the natural numbers are well-founded.
- `ExecutedIsTrue`: an action property, from what every message that ends a task says when it is written (`ToldTruly`).
- `OnlyChild`, `RequestIsWoken`: the first needs that whoever lives is the current child, and whoever waits waits for it (`OneChild`);
  the second stands on it.
- `LinksMatch`: across crashes and restarts. While it loads, the tasks are those whose link was visited and not skipped (`Restored`). Where no link can be skipped, the links are those of different files and no more than `MaxTasks`, so a restart finds room for each.
- `ImplementsDaemon` (`VirtualTesterProofs`): each step of tester and daemon is one of the daemon's or leaves its state alone, so the
  five theorems above hold of the composition.
- `ReportsAreTrue`: the messages of a task that has its directory to itself are followed through the socket, the cache and the
  thread: a stop request is the last about its path, a confirmed stop is final, and what says "executed" comes from a success, or
  finds the thread no longer looking (`Truthful`).

### Only model-checked

Liveness under fairness is out of this prover's reach: `WorkingEnds`, `CachedIsServed`, `RoutedIsSettled`, `ConnectionSettles`,
`AcceptingEnds`, `BeliefEnds`, `AnswerIsRead`, `NextRequestWakes`, `StopEnds`, `TaskIsAnswered` and `EachTaskIsReported` are checked
by TLC on the instances of section 3, and so are the four violations. Of the invariants only `FailedIsOver` is not proved yet: a proof has to follow, for
each answer that is reported as a failure, that neither a fork request, nor a condition awaited, nor the notifying thread can still launch the script.
Every other invariant, the action property and the refinement are proved.

## 5. Plan

1. *Done*: the core; the connections of the testers and to an ECU; the script daemon; the virtual tester with the daemon.
2. *Done*: the theorems of all of them (section 4), but for `FailedIsOver`, which is next.
3. The safety half of the liveness properties, where it says more than the invariants so far: that a step towards
   the end is always enabled (as a state predicate on the positions), and that only named steps undo progress.
4. `WheelsTimer`: the one-shot timer, checked against the set of running timers that the core assumes. The
   shutdown of the testers' connections (Stop).
5. `ConversationManager`, `Authentication`, then the partition route.
