--------------------- MODULE RoutingDoIpConnectionProofs ---------------------
(***************************************************************************)
(* What holds of RoutingDoIpConnection for every number of sockets and     *)
(* both kinds of connections, proved with TLAPS.                           *)
(***************************************************************************)
EXTENDS RoutingDoIpConnection, TLAPS

(* StopOffer is called when no sender is left, and no sender comes after   *)
(* it: exit_requested_ tells which of the two may be at work.              *)
StoppedAlone ==
  /\ exit_requested <=> stopper # "idle"
  /\ exit_requested => SenderAt("idle")

(* A sender that makes a connection was told that there is none.           *)
ConnectsUnconnected ==
  sender.at \in {"socket", "connecting", "refused", "connected"} => ~connect_result

(* A socket that is stored while the connection counts as not connected    *)
(* is on its way: it is being connected, or a thread is about to close it. *)
UnconnectedIsPassing ==
  socket_fd # None /\ ~connect_result /\ ~exit_requested =>
    \/ sender.at \in {"connecting", "refused", "connected", "close"}
    \/ ReceiverAt("close")

IInv ==
  /\ TypeOK /\ DescriptorIsOwn
  /\ StoppedAlone /\ ConnectsUnconnected /\ UnconnectedIsPassing

USE SocketAssumption
    DEF IInv, TypeOK, DescriptorIsOwn, StoppedAlone, ConnectsUnconnected, UnconnectedIsPassing,
        kernel_vars, SenderPositions, ReceiverPositions, SenderAt, ReceiverAt

-----------------------------------------------------------------------------

(* IInv holds initially.                                                   *)
LEMMA InitIInv == Init => IInv
<1>1. Init => sender \in [at : SenderPositions, then : {"idle", "notify"}]
  BY DEF Init
<1>2. Init => receiver \in [at : ReceiverPositions, socket : Sockets \cup {None}]
  BY DEF Init
<1>3. Init => sender.at = "idle" /\ receiver.at = "test"
  BY DEF Init
<1>4. Init => TypeOK
  BY <1>1, <1>2, <1>3 DEF Init
<1>5. Init => DescriptorIsOwn /\ StoppedAlone /\ ConnectsUnconnected /\ UnconnectedIsPassing
  BY <1>3 DEF Init
<1> QED BY <1>4, <1>5

(* What the sender does keeps the invariant.                               *)
LEMMA SenderIInv ==
  ASSUME IInv, ConnectServer \/ Sends
  PROVE  IInv'
<1> USE DEF Sender
<1>1. CASE ConnectServer
  BY <1>1 DEF ConnectServer
<1>2. CASE CreateSocket
  BY <1>2 DEF CreateSocket
<1>3. CASE ConnectSocket
  BY <1>3 DEF ConnectSocket
<1>4. CASE CloseRefused
  BY <1>4 DEF CloseRefused, CloseSocket, Close
<1>5. CASE SetConnectResult
  BY <1>5 DEF SetConnectResult
<1>6. CASE SendRoutingActivation
  BY <1>6 DEF SendRoutingActivation, SenderClears
<1>7. CASE NotifyConnected
  BY <1>7 DEF NotifyConnected, NotifyAll
<1>8. CASE SendDiagnosticMessage
  BY <1>8 DEF SendDiagnosticMessage, SenderClears
<1>9. CASE SenderClearsResult
  BY <1>9 DEF SenderClearsResult
<1>10. CASE SenderCloses
  BY <1>10 DEF SenderCloses, CloseSocket, Close
<1> QED BY <1>1, <1>2, <1>3, <1>4, <1>5, <1>6, <1>7, <1>8, <1>9, <1>10 DEF Sends

(* So does what the receiver does.                                         *)
LEMMA ReceiverIInv ==
  ASSUME IInv, Receives \/ SpuriousWakeup \/ SocketReadsNext
  PROVE  IInv'
<1> USE DEF Receiver
<1>1. CASE TestExit
  BY <1>1 DEF TestExit
<1>2. CASE GetConnectResult
  BY <1>2 DEF GetConnectResult
<1>3. CASE Wait
  BY <1>3 DEF Wait
<1>4. CASE SocketRead
  BY <1>4 DEF SocketRead
<1>5. CASE ReceiveDiagnosticMessage
  BY <1>5 DEF ReceiveDiagnosticMessage
<1>6. CASE SocketReadFails
  BY <1>6 DEF SocketReadFails
<1>7. CASE ReceiverClearsResult
  BY <1>7 DEF ReceiverClearsResult
<1>8. CASE ReceiverCloses
  BY <1>8 DEF ReceiverCloses, CloseSocket, Close
<1>9. CASE SpuriousWakeup
  BY <1>9 DEF SpuriousWakeup
<1>10. CASE SocketReadsNext
  BY <1>10 DEF SocketReadsNext
<1> QED BY <1>1, <1>2, <1>3, <1>4, <1>5, <1>6, <1>7, <1>8, <1>9, <1>10 DEF Receives

(* And so do StopOffer and the ECU.                                        *)
LEMMA StopperIInv ==
  ASSUME IInv, StopOffer \/ Stops
  PROVE  IInv'
<1>1. CASE StopOffer
  BY <1>1 DEF StopOffer
<1>2. CASE StopCloses
  BY <1>2 DEF StopCloses, Close
<1>3. CASE StopNotifies
  BY <1>3 DEF StopNotifies, NotifyAll
<1>4. CASE StopJoins
  BY <1>4 DEF StopJoins
<1> QED BY <1>1, <1>2, <1>3, <1>4 DEF Stops

(* What the peer does preserves IInv.                                      *)
LEMMA EcuIInv ==
  ASSUME IInv, NEW s \in Sockets, EcuSends(s) \/ EcuCloses(s)
  PROVE  IInv'
BY DEF EcuSends, EcuCloses, Connected

(* IInv is inductive.                                                      *)
LEMMA NextIInv == IInv /\ [Next]_vars => IInv'
<1> SUFFICES ASSUME IInv, [Next]_vars PROVE IInv'
  OBVIOUS
<1>1. CASE UNCHANGED vars
  BY <1>1 DEF vars
<1> QED BY <1>1, SenderIInv, ReceiverIInv, StopperIInv, EcuIInv DEF Next

-----------------------------------------------------------------------------

(* What the runs check is part of it.                                      *)
LEMMA Implied == IInv => TypeOK /\ DescriptorIsOwn
OBVIOUS

(* The inductive invariant.                                                *)
THEOREM Invariant == Spec => []IInv
BY InitIInv, NextIInv, PTL DEF Spec

(* Types, and the receiving thread ends only after StopOffer.              *)
THEOREM TypeCorrect == Spec => []TypeOK
<1> HIDE DEF IInv, TypeOK, DescriptorIsOwn
<1> QED BY Implied, Invariant, PTL

(* Until StopOffer, the number stored in socket_fd_ is that of an open     *)
(* socket: no thread closes one twice.                                     *)
THEOREM DescriptorOwned == Spec => []DescriptorIsOwn
<1> HIDE DEF IInv, TypeOK, DescriptorIsOwn
<1> QED BY Implied, Invariant, PTL

(* The only step that leaves an open socket behind is a sender that        *)
(* connects between the two halves of the receiver's ClearSocket.          *)
LEMMA ForgetsOnlyThen ==
  ASSUME IInv, [Next]_vars, NEW s \in open', socket_fd = s, socket_fd' # s
  PROVE  ReceiverAt("close")
<1>0. ~Close(s)
  BY DEF Close
<1>1. s # None /\ s \in Sockets
  BY NextIInv
<1>2. CASE CreateSocket
  BY <1>1, <1>2 DEF CreateSocket
<1>3. CASE CloseRefused \/ SenderCloses \/ ReceiverCloses
  BY <1>0, <1>3 DEF CloseRefused, SenderCloses, ReceiverCloses, CloseSocket
<1>4. CASE UNCHANGED socket_fd
  BY <1>4
<1>5. Next => CreateSocket \/ CloseRefused \/ SenderCloses \/ ReceiverCloses \/ UNCHANGED socket_fd
  BY DEF Next, ConnectServer, Sends, ConnectSocket, SetConnectResult, SendRoutingActivation,
         NotifyConnected, SendDiagnosticMessage, SenderClearsResult, Receives, TestExit,
         GetConnectResult, Wait, SocketRead, ReceiveDiagnosticMessage, SocketReadFails,
         ReceiverClearsResult, SpuriousWakeup, SocketReadsNext, StopOffer, Stops, StopCloses,
         StopNotifies, StopJoins, EcuSends, EcuCloses
<1> QED BY <1>2, <1>3, <1>4, <1>5 DEF vars

(* A socket that is still open is forgotten in that case only.             *)
THEOREM SocketKept == Spec => SocketIsKept
<1>1. IInv /\ [Next]_vars =>
        [\A s \in open' : socket_fd = s /\ socket_fd' # s => ReceiverAt("close")]_vars
  BY ForgetsOnlyThen
<1> QED BY <1>1, Invariant, PTL DEF Spec, SocketIsKept
=============================================================================
