------------------------ MODULE RoutingDoIpConnection ------------------------
(***************************************************************************)
(* The TCP connection of the proxy to one gateway or node.  It is made     *)
(* when a request is to be sent and stays until one side closes it.  Three *)
(* threads work on it:                                                     *)
(*   sender   whoever sends a request (ConnectServer, then a message); the *)
(*            processor's lock admits one at a time                        *)
(*   receiver thread_, in ReceiveMessage                                   *)
(*   stopper  the one that calls StopOffer, when no sender is left: the    *)
(*            arbitrating and the routing thread have been joined          *)
(* fds_mutex_ is held while connecting and inside CloseSocket only.        *)
(***************************************************************************)
EXTENDS Naturals, FiniteSets

CONSTANTS
  Sockets,           \* bound: how many may be open at a time
  RoutingActivation, \* routing_activation_
  None               \* -1

ASSUME SocketAssumption == None \notin Sockets /\ RoutingActivation \in BOOLEAN

VARIABLES
  connect_result, socket_fd, exit_requested,
  open,      \* the sockets that are open on this side
  unread,    \* open sockets on which something has arrived
  hung_up,   \* open sockets that the ECU has closed
  sender,    \* where the sender is, and where it goes on once it has closed
  receiver,  \* where the receiver is, and the socket it reads
  stopper,
  unheard    \* history: notified while the receiver was about to wait

kernel_vars == <<open, unread, hung_up>>
vars == <<connect_result, socket_fd, exit_requested, kernel_vars, sender, receiver, stopper, unheard>>

SenderPositions ==
  {"idle", "socket", "connecting", "refused", "connected", "activate", "notify", "send", "clear", "close"}
ReceiverPositions == {"test", "check", "about", "waiting", "fetch", "reading", "clear", "close", "done"}

TypeOK ==
  /\ connect_result \in BOOLEAN /\ exit_requested \in BOOLEAN /\ unheard \in BOOLEAN
  /\ socket_fd \in Sockets \cup {None}
  /\ open \subseteq Sockets /\ unread \subseteq open /\ hung_up \subseteq open
  /\ sender \in [at : SenderPositions, then : {"idle", "notify"}]
  /\ receiver \in [at : ReceiverPositions, socket : Sockets \cup {None}]
  /\ stopper \in {"idle", "close", "notify", "join", "done"}
  /\ receiver.at = "done" => exit_requested

(* Offer has been called.                                                  *)
Init ==
  /\ connect_result = FALSE /\ socket_fd = None /\ exit_requested = FALSE
  /\ open = {} /\ unread = {} /\ hung_up = {}
  /\ sender = [at |-> "idle", then |-> "idle"]
  /\ receiver = [at |-> "test", socket |-> None]
  /\ stopper = "idle" /\ unheard = FALSE

-----------------------------------------------------------------------------
(* Sockets.                                                                *)

MutexFree == sender.at # "connecting"

Close(s) == open' = open \ {s} /\ unread' = unread \ {s} /\ hung_up' = hung_up \ {s}

(* Mutant: the number of the closed socket is kept.                        *)
CloseAndKeep == MutexFree /\ Close(socket_fd) /\ UNCHANGED socket_fd

CloseSocket == MutexFree /\ Close(socket_fd) /\ socket_fd' = None

(* A receiver in wait() hears it; one that has tested and not yet waits,   *)
(* does not: mutex_ is not taken for the notification.                     *)
NotifyAll ==
  /\ receiver' = IF receiver.at = "waiting" THEN [receiver EXCEPT !.at = "test"] ELSE receiver
  /\ unheard' = (unheard \/ receiver.at \in {"check", "about"})

-----------------------------------------------------------------------------
(* The sender: GatewaySendMessage, NodeSendMessage.                        *)

SenderAt(position) == sender.at = position
Sender(position) == sender' = [sender EXCEPT !.at = position]
SenderClears(then) == sender' = [at |-> "clear", then |-> then]

(* Mutant: the receiver is only woken for a new connection.                *)
ConnectServerOnce ==
  /\ SenderAt("idle") /\ ~exit_requested
  /\ Sender(IF connect_result THEN "send" ELSE "socket")
  /\ UNCHANGED <<connect_result, socket_fd, exit_requested, kernel_vars, receiver, stopper, unheard>>

ConnectServer ==
  /\ SenderAt("idle") /\ ~exit_requested
  /\ Sender(IF connect_result THEN "notify" ELSE "socket")
  /\ UNCHANGED <<connect_result, socket_fd, exit_requested, kernel_vars, receiver, stopper, unheard>>

(* ConnectSocket takes fds_mutex_ and stores the new socket, whatever was  *)
(* stored before; without a free one socket() fails.                       *)
CreateSocket ==
  /\ SenderAt("socket")
  /\ \/ \E s \in Sockets \ open : socket_fd' = s /\ open' = open \cup {s}
     \/ open = Sockets /\ socket_fd' = None /\ UNCHANGED open
  /\ Sender("connecting")
  /\ UNCHANGED <<connect_result, exit_requested, unread, hung_up, receiver, stopper, unheard>>

ConnectSocket ==
  /\ SenderAt("connecting")
  /\ \/ socket_fd # None /\ Sender("connected")
     \/ Sender("refused")
  /\ UNCHANGED <<connect_result, socket_fd, exit_requested, kernel_vars, receiver, stopper, unheard>>

(* Mutant: a connection that is refused keeps its socket.                  *)
LeaveRefused ==
  /\ SenderAt("refused")
  /\ Sender("idle")
  /\ UNCHANGED <<connect_result, socket_fd, exit_requested, kernel_vars, receiver, stopper, unheard>>

CloseRefused ==
  /\ SenderAt("refused")
  /\ CloseSocket
  /\ Sender("idle")
  /\ UNCHANGED <<connect_result, exit_requested, receiver, stopper, unheard>>

(* Mutant: the receiver is not woken for a new connection.                 *)
ConnectSilently ==
  /\ SenderAt("connected")
  /\ connect_result' = TRUE
  /\ Sender("send")
  /\ UNCHANGED <<socket_fd, exit_requested, kernel_vars, receiver, stopper, unheard>>

SetConnectResult ==
  /\ SenderAt("connected")
  /\ connect_result' = TRUE
  /\ Sender(IF RoutingActivation THEN "activate" ELSE "notify")
  /\ UNCHANGED <<socket_fd, exit_requested, kernel_vars, receiver, stopper, unheard>>

(* SendDoipMessage writes or, on failure, clears the connection; that the  *)
(* activation could not be sent makes no difference.                       *)
SendRoutingActivation ==
  /\ SenderAt("activate")
  /\ \/ socket_fd # None /\ Sender("notify")
     \/ SenderClears("notify")
  /\ UNCHANGED <<connect_result, socket_fd, exit_requested, kernel_vars, receiver, stopper, unheard>>

NotifyConnected ==
  /\ SenderAt("notify")
  /\ NotifyAll
  /\ Sender("send")
  /\ UNCHANGED <<connect_result, socket_fd, exit_requested, kernel_vars, stopper>>

SendDiagnosticMessage ==
  /\ SenderAt("send")
  /\ \/ socket_fd # None /\ Sender("idle")
     \/ SenderClears("idle")
  /\ UNCHANGED <<connect_result, socket_fd, exit_requested, kernel_vars, receiver, stopper, unheard>>

(* ClearSocket: the result first, the socket after it.                     *)
SenderClearsResult ==
  /\ SenderAt("clear")
  /\ connect_result' = FALSE
  /\ Sender("close")
  /\ UNCHANGED <<socket_fd, exit_requested, kernel_vars, receiver, stopper, unheard>>

SenderCloses ==
  /\ SenderAt("close")
  /\ CloseSocket
  /\ Sender(sender.then)
  /\ UNCHANGED <<connect_result, exit_requested, receiver, stopper, unheard>>

Sends ==
  \/ CreateSocket \/ ConnectSocket \/ CloseRefused \/ SetConnectResult \/ SendRoutingActivation
  \/ NotifyConnected \/ SendDiagnosticMessage \/ SenderClearsResult \/ SenderCloses

-----------------------------------------------------------------------------
(* The receiver: ReceiveMessage and ReceiveDiagnosticMessage.              *)

ReceiverAt(position) == receiver.at = position
Receiver(position) == receiver' = [at |-> position, socket |-> None]

(* Mutant: the thread ends with its connection.                            *)
TestConnected ==
  /\ ReceiverAt("test")
  /\ Receiver(IF exit_requested \/ ~connect_result THEN "done" ELSE "check")
  /\ unheard' = FALSE
  /\ UNCHANGED <<connect_result, socket_fd, exit_requested, kernel_vars, sender, stopper>>

TestExit ==
  /\ ReceiverAt("test")
  /\ Receiver(IF exit_requested THEN "done" ELSE "check")
  /\ unheard' = FALSE
  /\ UNCHANGED <<connect_result, socket_fd, exit_requested, kernel_vars, sender, stopper>>

GetConnectResult ==
  /\ ReceiverAt("check")
  /\ Receiver(IF connect_result THEN "fetch" ELSE "about")
  /\ UNCHANGED <<connect_result, socket_fd, exit_requested, kernel_vars, sender, stopper, unheard>>

Wait ==
  /\ ReceiverAt("about")
  /\ Receiver("waiting")
  /\ UNCHANGED <<connect_result, socket_fd, exit_requested, kernel_vars, sender, stopper, unheard>>

(* A condition variable may wake without being notified.                   *)
SpuriousWakeup ==
  /\ ReceiverAt("waiting")
  /\ Receiver("test")
  /\ UNCHANGED <<connect_result, socket_fd, exit_requested, kernel_vars, sender, stopper, unheard>>

(* SocketRead is called with the socket of now.                            *)
SocketRead ==
  /\ ReceiverAt("fetch")
  /\ receiver' = [at |-> "reading", socket |-> socket_fd]
  /\ UNCHANGED <<connect_result, socket_fd, exit_requested, kernel_vars, sender, stopper, unheard>>

(* A message that is wrong closes the connection, one that is unknown or   *)
(* too large does not.                                                     *)
ReceiveDiagnosticMessage ==
  /\ ReceiverAt("reading") /\ receiver.socket \in unread
  /\ unread' = unread \ {receiver.socket}
  /\ Receiver("test") \/ Receiver("clear")
  /\ UNCHANGED <<connect_result, socket_fd, exit_requested, open, hung_up, sender, stopper, unheard>>

(* Mutant: a read that fails is tried again.                               *)
ReadAgain ==
  /\ ReceiverAt("reading")
  /\ \/ receiver.socket \notin open
     \/ receiver.socket \in hung_up \ unread
  /\ Receiver("test")
  /\ UNCHANGED <<connect_result, socket_fd, exit_requested, kernel_vars, sender, stopper, unheard>>

SocketReadFails ==
  /\ ReceiverAt("reading")
  /\ \/ receiver.socket \notin open
     \/ receiver.socket \in hung_up \ unread
  /\ Receiver("clear")
  /\ UNCHANGED <<connect_result, socket_fd, exit_requested, kernel_vars, sender, stopper, unheard>>

(* The number it was called with has been given to the new socket.         *)
SocketReadsNext ==
  /\ ReceiverAt("reading") /\ receiver.socket \notin open \cup {None}
  /\ socket_fd \in open
  /\ receiver' = [receiver EXCEPT !.socket = socket_fd]
  /\ UNCHANGED <<connect_result, socket_fd, exit_requested, kernel_vars, sender, stopper, unheard>>

ReceiverClearsResult ==
  /\ ReceiverAt("clear")
  /\ connect_result' = FALSE
  /\ Receiver("close")
  /\ UNCHANGED <<socket_fd, exit_requested, kernel_vars, sender, stopper, unheard>>

ReceiverCloses ==
  /\ ReceiverAt("close")
  /\ CloseSocket
  /\ Receiver("test")
  /\ UNCHANGED <<connect_result, exit_requested, sender, stopper, unheard>>

Receives ==
  \/ TestExit \/ GetConnectResult \/ Wait \/ SocketRead \/ ReceiveDiagnosticMessage
  \/ SocketReadFails \/ ReceiverClearsResult \/ ReceiverCloses

-----------------------------------------------------------------------------
(* StopOffer.                                                              *)

StopOffer ==
  /\ stopper = "idle" /\ SenderAt("idle")
  /\ exit_requested' = TRUE
  /\ stopper' = "close"
  /\ UNCHANGED <<connect_result, socket_fd, kernel_vars, sender, receiver, unheard>>

(* Mutant: the socket is left to the receiver.                             *)
StopLeavesSocket ==
  /\ stopper = "close"
  /\ stopper' = "notify"
  /\ UNCHANGED <<connect_result, socket_fd, exit_requested, kernel_vars, sender, receiver, unheard>>

(* Without fds_mutex_, and the number is kept.                             *)
StopCloses ==
  /\ stopper = "close"
  /\ Close(socket_fd)
  /\ stopper' = "notify"
  /\ UNCHANGED <<connect_result, socket_fd, exit_requested, sender, receiver, unheard>>

StopNotifies ==
  /\ stopper = "notify"
  /\ NotifyAll
  /\ stopper' = "join"
  /\ UNCHANGED <<connect_result, socket_fd, exit_requested, kernel_vars, sender>>

StopJoins ==
  /\ stopper = "join" /\ ReceiverAt("done")
  /\ stopper' = "done"
  /\ UNCHANGED <<connect_result, socket_fd, exit_requested, kernel_vars, sender, receiver, unheard>>

Stops == StopCloses \/ StopNotifies \/ StopJoins

-----------------------------------------------------------------------------
(* The ECU, external: it sends and closes as it likes.                     *)

Connected(s) == s \in open \ hung_up /\ ~(sender.at \in {"connecting", "refused"} /\ socket_fd = s)

EcuSends(s) ==
  /\ Connected(s)
  /\ unread' = unread \cup {s}
  /\ UNCHANGED <<connect_result, socket_fd, exit_requested, open, hung_up, sender, receiver, stopper, unheard>>

EcuCloses(s) ==
  /\ Connected(s)
  /\ hung_up' = hung_up \cup {s}
  /\ UNCHANGED <<connect_result, socket_fd, exit_requested, open, unread, sender, receiver, stopper, unheard>>

Next ==
  \/ ConnectServer \/ Sends
  \/ Receives \/ SpuriousWakeup \/ SocketReadsNext
  \/ StopOffer \/ Stops
  \/ \E s \in Sockets : EcuSends(s) \/ EcuCloses(s)

Spec == Init /\ [][Next]_vars

(* Threads run on; nothing makes a request come, the ECU answer, or the    *)
(* proxy stop.                                                             *)
FairSpec == Spec /\ WF_vars(Sends) /\ WF_vars(Receives) /\ WF_vars(Stops)

-----------------------------------------------------------------------------
(* Properties.                                                             *)

(* The number that is stored is that of an open socket: closing one that   *)
(* is closed may hit a stranger's descriptor.  (StopOffer alone leaves a   *)
(* closed one behind, and the receiver then closes it again.)              *)
DescriptorIsOwn == socket_fd # None /\ ~exit_requested => socket_fd \in open

(* A socket is forgotten open in one case only: the sender connects again  *)
(* between the two halves of the receiver's ClearSocket.  (CreateSocket    *)
(* stores over what is there.)                                             *)
SocketIsKept ==
  [][\A s \in open' : socket_fd = s /\ socket_fd' # s => ReceiverAt("close")]_vars

(* In that case the receiver closes the new socket and the connection is   *)
(* believed to be there: this does not last, though nothing is sent.       *)
BeliefEnds ==
  (connect_result /\ socket_fd = None) ~> (~connect_result \/ socket_fd # None \/ exit_requested)

(* What the ECU answers on the connection is read, unless the receiver was *)
(* told of the connection just before it began to wait: then the answer    *)
(* stays unread, and the request ends by its timeout.                      *)
Unread(s) == s \in unread /\ socket_fd = s /\ connect_result
AnswerIsRead == \A s \in Sockets : Unread(s) ~> (~Unread(s) \/ (unheard /\ ReceiverAt("waiting")))

(* The next request repairs it: if requests keep coming all answers are    *)
(* read. (ConnectServer notifies also when it is connected already.)       *)
NextRequestWakes ==
  []<>SenderAt("send") => \A s \in Sockets : Unread(s) ~> ~Unread(s)

(* StopOffer ends, unless its notification comes just before the receiver  *)
(* begins to wait: then it joins for good.                                 *)
StopEnds == stopper = "join" ~> (stopper = "done" \/ (unheard /\ ReceiverAt("waiting")))
=============================================================================
