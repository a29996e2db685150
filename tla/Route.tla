-------------------------------- MODULE Route --------------------------------
(***************************************************************************)
(* class Routing's message queue, and the state GatewayRoute and NodeRoute *)
(* keep about the requests they forwarded: which conversation the answers  *)
(* of an address belong to.                                                *)
(***************************************************************************)
EXTENDS Diagnostics

VARIABLES
  routing_queue,      \* Routing::queue_: requests that passed the arbitration
  transmit_map,       \* address -> the conversation its answers go to
  last_transmit_cid,  \* route -> the conversation it served last
  routing             \* Route::routing_: may the gateway be used at all

route_vars == <<routing_queue, transmit_map, last_transmit_cid, routing>>

Routes == {"Gateway", "Node"}
RouteOf(a) == IF GatewayAddress(a) THEN "Gateway" ELSE "Node"

RouteTypeOK ==
  /\ routing_queue \in Seq(Requests)
  /\ transmit_map \in [Addresses -> Testers \cup {None}]
  /\ last_transmit_cid \in [Routes -> Testers \cup {None}]
  /\ routing \in BOOLEAN

RouteInit ==
  /\ routing_queue = <<>>
  /\ transmit_map = [a \in Addresses |-> None]
  /\ last_transmit_cid = [k \in Routes |-> None]
  /\ routing = TRUE

AddRoutingMessage(r) == routing_queue' = Append(routing_queue, r)

(* GatewayRouteRoutingIsClosed is the fate of what reaches a closed route. *)
RoutingIsClosed(k) == k = "Gateway" /\ ~routing

(* The conversation an answer from a is relayed to.                        *)
GetTransmitConversationId(a) ==
  IF transmit_map[a] # None THEN transmit_map[a] ELSE last_transmit_cid[RouteOf(a)]

(* Mutant: the answers go to whoever used the route last.                  *)
RememberLastOnly(a, t) ==
  /\ UNCHANGED transmit_map
  /\ last_transmit_cid' = [last_transmit_cid EXCEPT ![RouteOf(a)] = t]

SetTransmitConversationId(a, t) ==
  /\ transmit_map' = [transmit_map EXCEPT ![a] = t]
  /\ last_transmit_cid' = [last_transmit_cid EXCEPT ![RouteOf(a)] = t]

(* The functional variant: a route that is open and expects an answer has  *)
(* all its entries taken over.                                             *)
TakenOver(k) == {a \in Addresses : RouteOf(a) = k /\ transmit_map[a] # None}

SetAllTransmitConversationIds(k, t) ==
  /\ transmit_map' = [a \in Addresses |-> IF a \in TakenOver(k) THEN t ELSE transmit_map[a]]
  /\ last_transmit_cid' = [last_transmit_cid EXCEPT ![k] = t]

EraseTransmitConversationId(a) ==
  transmit_map' = [transmit_map EXCEPT ![a] = None]

SetRoutingState(state) == routing' = state
=============================================================================
