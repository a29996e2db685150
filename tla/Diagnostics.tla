----------------------------- MODULE Diagnostics -----------------------------
(***************************************************************************)
(* What the configuration of the diagnostic proxy fixes once and for all:  *)
(* the ECU addresses it routes to, the processors behind which they sit,   *)
(* the testers that may talk to it and the requests these testers send.    *)
(* The routing tables are read from proxy_config.json when the proxy       *)
(* starts and are constant afterwards.                                     *)
(***************************************************************************)
EXTENDS Naturals, FiniteSets, Sequences

CONSTANTS
  Addresses,     \* diagnostic addresses subscribed to the arbitration
  Processors,    \* the gateway and node processors, one TCP client each
  ProcessorOf,   \* address -> the processor that serves it
  Gateways,      \* the processors of GatewayRoute; the others are NodeRoute's
  Testers,       \* conversations: a tester address on one channel
  AddressOf,     \* tester -> its source address
  PriorityOf,    \* tester -> its priority, a smaller number goes first
  Requests,      \* every request that will ever be sent, each exactly once
  TesterOf,      \* request -> its tester
  TargetOf,      \* request -> its target address, or Functional
  SidOf,         \* request -> its service identifier
  Suppressed,    \* the requests that suppress the positive response
  Functional,    \* stands for functional addressing
  None           \* stands for "nothing"

ASSUME ConstantsAssumption ==
  /\ ProcessorOf \in [Addresses -> Processors]
  /\ Gateways \subseteq Processors
  /\ PriorityOf \in [Testers -> Nat]
  /\ TesterOf \in [Requests -> Testers]
  /\ TargetOf \in [Requests -> Addresses \cup {Functional}]
  /\ Suppressed \subseteq Requests

ASSUME NamesAssumption ==
  /\ Functional \notin Addresses
  /\ None \notin Addresses \cup Testers \cup Requests

(* RouteType: the addresses that GatewayRoute serves.                      *)
GatewayAddress(a) == ProcessorOf[a] \in Gateways

(* UdsMessage::TargetAddressType::kPhysical.                               *)
Physical(r) == TargetOf[r] # Functional
=============================================================================
