----------------------------- MODULE RoutingTimer ----------------------------
(***************************************************************************)
(* class RoutingTimer: how long the proxy waits for the ECU behind an      *)
(* address.  diagnostic_message_timer (2 s) waits for the acknowledgement  *)
(* of a request, receiving_timer (P6, P6* after a 0x78) for its response.  *)
(* Time itself is abstract: a running timer may expire at any moment.      *)
(***************************************************************************)
EXTENDS Diagnostics

VARIABLES
  diagnostic_message_timer,  \* addresses whose acknowledgement is awaited
  receiving_timer,           \* addresses whose response is awaited
  receving_info              \* address -> the request sid_ and suppress_ are of

routing_timer_vars ==
  <<diagnostic_message_timer, receiving_timer, receving_info>>

RoutingTimerTypeOK ==
  /\ diagnostic_message_timer \subseteq Addresses
  /\ receiving_timer \subseteq Addresses
  /\ receving_info \in [Addresses -> Requests \cup {None}]

RoutingTimerInit ==
  /\ diagnostic_message_timer = {}
  /\ receiving_timer = {}
  /\ receving_info = [a \in Addresses |-> None]

(* The address waits for the ECU.                                          *)
Awaiting(a) == a \in diagnostic_message_timer \cup receiving_timer

(* GetRecevingSid() == sid.                                                *)
SidMatches(a, r) ==
  /\ receving_info[a] # None
  /\ SidOf[receving_info[a]] = SidOf[r]

GetRecevingSuppress(a) == receving_info[a] \in Suppressed

StartReceving(a, r) ==
  /\ receving_info' = [receving_info EXCEPT ![a] = r]
  /\ receiving_timer' = receiving_timer \ {a}
  /\ diagnostic_message_timer' = diagnostic_message_timer \cup {a}

StopReceving(a, r) ==
  IF SidMatches(a, r)
  THEN /\ diagnostic_message_timer' = diagnostic_message_timer \ {a}
       /\ receiving_timer' = receiving_timer \ {a}
       /\ UNCHANGED receving_info
  ELSE UNCHANGED routing_timer_vars

(* What the ECU can send about an address, and whether the running timers  *)
(* make the proxy react to it.  The test and the reaction are two steps of *)
(* the receiving thread: IsRunning() and Stop() each take the timer's lock. *)
EcuMessages == {"Ack", "Nack", "Response", "ResponsePending"}

Reacts(message, a, r) ==
  \/ message \in {"Ack", "Nack"} /\ a \in diagnostic_message_timer
  \/ message \in {"Response", "ResponsePending"} /\ SidMatches(a, r) /\ a \in receiving_timer

(* The first half of the reaction: stop the timer that was tested.         *)
StopTested(message, a) ==
  IF message \in {"Ack", "Nack"}
  THEN /\ diagnostic_message_timer' = diagnostic_message_timer \ {a}
       /\ UNCHANGED <<receiving_timer, receving_info>>
  ELSE /\ receiving_timer' = receiving_timer \ {a}
       /\ UNCHANGED <<diagnostic_message_timer, receving_info>>

(* The second half: wait on, for P6 or P6*, or finish (RecevingFinish).    *)
WaitsOn(message, a) ==
  \/ message = "Ack" /\ ~GetRecevingSuppress(a)
  \/ message = "ResponsePending"

StartReceivingTimer(a) ==
  /\ receiving_timer' = receiving_timer \cup {a}
  /\ UNCHANGED <<diagnostic_message_timer, receving_info>>

DiagnosticMessageTimeout(a) ==
  /\ a \in diagnostic_message_timer
  /\ diagnostic_message_timer' = diagnostic_message_timer \ {a}
  /\ UNCHANGED <<receiving_timer, receving_info>>

ReceivingTimeout(a) ==
  /\ a \in receiving_timer
  /\ receiving_timer' = receiving_timer \ {a}
  /\ UNCHANGED <<diagnostic_message_timer, receving_info>>
=============================================================================
