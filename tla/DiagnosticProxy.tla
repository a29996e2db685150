--------------------------- MODULE DiagnosticProxy ---------------------------
(***************************************************************************)
(* The path of a diagnostic request through the proxy: a conversation has  *)
(* it arbitrated, the routing thread forwards it to its ECU, the ECU's     *)
(* answers or a timeout end it, and the arbitration passes the address on. *)
(*                                                                         *)
(* Threads interleave wherever the code releases a lock:                   *)
(*   conversation[t]         the connection's thread in HandleMessage      *)
(*   thread["routing"]       Routing::RoutingMessageQueue                  *)
(*   thread["arbitrating"]   Arbitration::HandleArbitrateAddressQueue      *)
(*   thread[p]               the receiving thread of processor p           *)
(*   thread["diagnostic_message"], thread["receiving"],                    *)
(*   thread["arbitration"], thread["pending"]                              *)
(*                           the timer thread of each channel              *)
(***************************************************************************)
EXTENDS Arbitration, RoutingTimer, Route

CONSTANTS
  MaxResponsePending,  \* bound: how often the ECUs answer 0x78 altogether
  Expiring             \* bound: the timer threads whose timers may expire

TimerThreads == {"diagnostic_message", "receiving", "arbitration", "pending"}

ASSUME BoundsAssumption == MaxResponsePending \in Nat /\ Expiring \subseteq TimerThreads

VARIABLES
  conversation,  \* tester -> where its thread is in HandleMessage
  thread,        \* thread -> where it is, about which address and request
  outcome,       \* request -> what became of it (seen by the tester)
  shared,        \* history: addresses granted while still in use
  pendings       \* how often an ECU has answered 0x78

ghost_vars == <<shared, pendings>>

vars == <<arbitration_vars, routing_timer_vars, route_vars,
          conversation, thread, outcome, ghost_vars>>

Senders == {"routing", "arbitrating"}
Threads == Senders \cup TimerThreads \cup Processors

ASSUME ThreadsAssumption == Processors \cap (Senders \cup TimerThreads) = {}

Finishing == {"erase", "check", "keep"}
Waiting == {"popped", "start", "release", "remind", "rearm"}

Idle == [at |-> "idle", addr |-> None, req |-> None]
Free == [at |-> "idle", req |-> None]

(* "new" has not been sent by its tester, "open" is in the proxy's hands.  *)
(* "rejected", "busy" and "closed" were answered with a negative response, *)
(* "failed" was dropped without one, "sent" was written to the ECU.        *)
Final == {"rejected", "busy", "closed", "failed", "sent"}

ConversationState == {Free} \cup [at : {"pass", "route", "pending", "arm"}, req : Requests]

ThreadState ==
  {Idle}
  \cup [at : {"handle"}, addr : Addresses \cup {None}, req : Requests]
  \cup [at : {"send", "sending"}, addr : Addresses, req : Requests]
  \cup [at : Routes, addr : {None}, req : Requests]
  \cup [at : Waiting \cup Finishing \cup EcuMessages, addr : Addresses, req : {None}]

(* A thread that carries a request, or a message from an ECU, knows which  *)
(* one it is and which address it is about.                                *)
TypeOK ==
  /\ ArbitrationTypeOK /\ RoutingTimerTypeOK /\ RouteTypeOK
  /\ conversation \in [Testers -> ConversationState]
  /\ thread \in [Threads -> ThreadState]
  /\ outcome \in [Requests -> {"new", "open"} \cup Final]
  /\ shared \subseteq Addresses
  /\ pendings \in 0..MaxResponsePending

Init ==
  /\ ArbitrationInit /\ RoutingTimerInit /\ RouteInit
  /\ conversation = [t \in Testers |-> Free]
  /\ thread = [w \in Threads |-> Idle]
  /\ outcome = [r \in Requests |-> "new"]
  /\ shared = {}
  /\ pendings = 0

-----------------------------------------------------------------------------
(* Where an address is being used.                                         *)

Handling(t, positions, a) ==
  conversation[t].at \in positions /\ TargetOf[conversation[t].req] = a

Granted(a) == \E t \in Testers : Handling(t, {"pass", "route"}, a)

Queued(a) == \E i \in DOMAIN routing_queue : TargetOf[routing_queue[i]] = a

Dispatching(a) ==
  \E i \in DOMAIN arbitrate_address_queue : arbitrate_address_queue[i] = a

(* The threads that will forward or end a request of address a.            *)
Aside == {"idle", "release", "remind", "rearm"} \cup Routes
ThreadsOn(a) == {w \in Threads : thread[w].at \notin Aside /\ thread[w].addr = a}

Pipelined(a) == Granted(a) \/ Queued(a) \/ Dispatching(a) \/ Awaiting(a)

InUse(a) == Pipelined(a) \/ ThreadsOn(a) # {}

-----------------------------------------------------------------------------
(* Steps of a thread.                                                      *)

At(w, position) == thread[w].at = position
Go(w, position, a, r) ==
  thread' = [thread EXCEPT ![w] = [at |-> position, addr |-> a, req |-> r]]
Rest(w) == thread' = [thread EXCEPT ![w] = Idle]
Settle(r, result) == outcome' = [outcome EXCEPT ![r] = result]
Converse(t, position, r) ==
  conversation' = [conversation EXCEPT ![t] = [at |-> position, req |-> r]]

-----------------------------------------------------------------------------
(* Conversation::HandleMessage.                                            *)

HandlePhysicalMessage(t, r) ==
  LET a == TargetOf[r]
      result == ArbitrateResult(a, t)
  IN /\ conversation[t].at = "idle"
     /\ outcome[r] = "new" /\ TesterOf[r] = t /\ Physical(r)
     /\ GetArbitrateResult(a, t)
     /\ \/ /\ result = "Pass"
           /\ Converse(t, "pass", r) /\ Settle(r, "open")
           /\ shared' = IF InUse(a) THEN shared \cup {a} ELSE shared
        \/ /\ result = "Pending"
           /\ Converse(t, "pending", r) /\ Settle(r, "open")
           /\ UNCHANGED shared
        \/ /\ result = "Reject"
           /\ Settle(r, "rejected")
           /\ UNCHANGED <<conversation, shared>>
     /\ UNCHANGED <<arbitrate_map, arbitrate_cache_map, arbitrate_address_queue,
                    arbitration_timer, pending_timer, routing_timer_vars, route_vars, thread, pendings>>

HandleFunctionalMessage(t, r) ==
  /\ conversation[t].at = "idle"
  /\ outcome[r] = "new" /\ TesterOf[r] = t /\ ~Physical(r)
  /\ IF FunctionalRejected /\ r \notin Suppressed
     THEN Settle(r, "rejected") /\ UNCHANGED conversation
     ELSE Converse(t, "route", r) /\ Settle(r, "open")
  /\ UNCHANGED <<arbitration_vars, routing_timer_vars, route_vars, thread, ghost_vars>>

StartWorking(t) ==
  LET r == conversation[t].req
  IN /\ conversation[t].at = "pass"
     /\ ArbitrateStart(TargetOf[r])
     /\ Converse(t, "route", r)
     /\ UNCHANGED <<arbitrate_info_map, arbitrate_cache_map, arbitrate_address_queue,
                    arbitration_timer, pending_timer, routing_timer_vars, route_vars,
                    thread, outcome, ghost_vars>>

RoutingMessage(t) ==
  /\ conversation[t].at = "route"
  /\ AddRoutingMessage(conversation[t].req)
  /\ conversation' = [conversation EXCEPT ![t] = Free]
  /\ UNCHANGED <<arbitration_vars, routing_timer_vars, transmit_map, last_transmit_cid,
                 routing, thread, outcome, ghost_vars>>

(* Mutant: the displaced message is dropped in silence.                    *)
DisplaceSilently(t) ==
  LET r == conversation[t].req
  IN /\ conversation[t].at = "pending"
     /\ CacheMessage(TargetOf[r], r)
     /\ Converse(t, "arm", r)
     /\ UNCHANGED <<arbitrate_map, arbitrate_info_map, arbitrate_address_queue,
                    arbitration_timer, pending_timer, routing_timer_vars, route_vars,
                    thread, outcome, ghost_vars>>

(* The message it displaces is answered kArbitratRequestBusy.              *)
ArbitrateCacheMessage(t) ==
  LET r == conversation[t].req
      a == TargetOf[r]
  IN /\ conversation[t].at = "pending"
     /\ CacheMessage(a, r)
     /\ IF HasCacheMessage(a)
        THEN Settle(arbitrate_cache_map[a], "busy")
        ELSE UNCHANGED outcome
     /\ Converse(t, "arm", r)
     /\ UNCHANGED <<arbitrate_map, arbitrate_info_map, arbitrate_address_queue,
                    arbitration_timer, pending_timer, routing_timer_vars, route_vars,
                    thread, ghost_vars>>

StartP2Timer(t) ==
  /\ conversation[t].at = "arm"
  /\ StartPendingTimer(TargetOf[conversation[t].req])
  /\ conversation' = [conversation EXCEPT ![t] = Free]
  /\ UNCHANGED <<arbitrate_map, arbitrate_info_map, arbitrate_cache_map,
                 arbitrate_address_queue, arbitration_timer, routing_timer_vars, route_vars,
                 thread, outcome, ghost_vars>>

-----------------------------------------------------------------------------
(* Routing::HandleRoutingMessage and GatewayRoute / NodeRoute              *)
(* ::CheckAndHandleMessage, on the routing thread or, for a cached         *)
(* message, on the arbitrating thread.                                     *)

HandleRoutingMessage ==
  LET r == Head(routing_queue)
  IN /\ At("routing", "idle") /\ routing_queue # <<>>
     /\ routing_queue' = Tail(routing_queue)
     /\ Go("routing", "handle", IF Physical(r) THEN TargetOf[r] ELSE None, r)
     /\ UNCHANGED <<arbitration_vars, routing_timer_vars, transmit_map, last_transmit_cid,
                    routing, conversation, outcome, ghost_vars>>

CheckAndHandleMessage(w) ==
  LET r == thread[w].req
      a == thread[w].addr
  IN /\ At(w, "handle") /\ Physical(r)
     /\ \/ /\ RoutingIsClosed(RouteOf(a))
           /\ Settle(r, "closed") /\ Rest(w)
           /\ UNCHANGED <<transmit_map, last_transmit_cid>>
        \/ /\ ~RoutingIsClosed(RouteOf(a))
           /\ SetTransmitConversationId(a, TesterOf[r])
           /\ Go(w, "send", a, r) /\ UNCHANGED outcome
     /\ UNCHANGED <<arbitration_vars, routing_timer_vars, routing_queue, routing,
                    conversation, ghost_vars>>

(* The processor's mutex: one thread at a time is between ConnectServer    *)
(* and the end of SendDiagnosticMessage.                                   *)
ProcessorFree(p) ==
  \A w \in Senders : ~(At(w, "sending") /\ ProcessorOf[thread[w].addr] = p)

ConnectServer(w) ==
  LET r == thread[w].req
      a == thread[w].addr
  IN /\ At(w, "send") /\ ProcessorFree(ProcessorOf[a])
     /\ StartReceving(a, r)
     /\ Go(w, "sending", a, r)
     /\ UNCHANGED <<arbitration_vars, route_vars, conversation, outcome, ghost_vars>>

ConnectServerFails(w) ==
  LET r == thread[w].req
      a == thread[w].addr
  IN /\ At(w, "send") /\ ProcessorFree(ProcessorOf[a])
     /\ Settle(r, "failed")
     /\ Go(w, "erase", a, None)
     /\ UNCHANGED <<arbitration_vars, routing_timer_vars, route_vars, conversation, ghost_vars>>

SendDiagnosticMessage(w) ==
  /\ At(w, "sending")
  /\ Settle(thread[w].req, "sent")
  /\ Rest(w)
  /\ UNCHANGED <<arbitration_vars, routing_timer_vars, route_vars, conversation, ghost_vars>>

(* Mutant: the address is not finished.                                    *)
FailAndForget(w) ==
  LET r == thread[w].req
  IN /\ At(w, "sending")
     /\ StopReceving(thread[w].addr, r)
     /\ Settle(r, "failed")
     /\ Rest(w)
     /\ UNCHANGED <<arbitration_vars, route_vars, conversation, ghost_vars>>

(* Mutant: the request is sent again instead of given up.                  *)
FailAndRetry(w) ==
  LET r == thread[w].req
      a == thread[w].addr
  IN /\ At(w, "sending")
     /\ StopReceving(a, r)
     /\ Go(w, "send", a, r)
     /\ UNCHANGED <<arbitration_vars, route_vars, conversation, outcome, ghost_vars>>

SendDiagnosticMessageFails(w) ==
  LET r == thread[w].req
      a == thread[w].addr
  IN /\ At(w, "sending")
     /\ StopReceving(a, r)
     /\ Settle(r, "failed")
     /\ Go(w, "erase", a, None)
     /\ UNCHANGED <<arbitration_vars, route_vars, conversation, ghost_vars>>

(* A functional message, for the gateway route and then the node route: at *)
(* "Gateway" and "Node" the thread sends it to that route's processors.    *)
TakeOver(k, r) ==
  IF r \in Suppressed \/ RoutingIsClosed(k)
  THEN UNCHANGED <<transmit_map, last_transmit_cid, shared>>
  ELSE /\ SetAllTransmitConversationIds(k, TesterOf[r])
       /\ shared' = shared \cup TakenOver(k)

RouteFree(k) ==
  \A w \in Senders : ~(At(w, "sending") /\ RouteOf(thread[w].addr) = k)

HandleFunctionalRouting ==
  LET r == thread["routing"].req
  IN /\ At("routing", "handle") /\ ~Physical(r)
     /\ TakeOver("Gateway", r)
     /\ Settle(r, IF RoutingIsClosed("Gateway") THEN "closed" ELSE "open")
     /\ Go("routing", "Gateway", None, r)
     /\ UNCHANGED <<arbitration_vars, routing_timer_vars, routing_queue, routing, conversation, pendings>>

BroadcastToGateways ==
  LET r == thread["routing"].req
  IN /\ At("routing", "Gateway")
     /\ outcome[r] = "open" => RouteFree("Gateway")
     /\ TakeOver("Node", r)
     /\ Go("routing", "Node", None, r)
     /\ UNCHANGED <<arbitration_vars, routing_timer_vars, routing_queue, routing,
                    conversation, outcome, pendings>>

BroadcastToNodes ==
  LET r == thread["routing"].req
  IN /\ At("routing", "Node") /\ RouteFree("Node")
     /\ Settle(r, IF outcome[r] = "open" THEN "sent" ELSE outcome[r])
     /\ Rest("routing")
     /\ UNCHANGED <<arbitration_vars, routing_timer_vars, route_vars, conversation, ghost_vars>>

-----------------------------------------------------------------------------
(* HandleRoutingFinish, on whichever thread ends the request: it forgets   *)
(* the conversation, then Arbitration::ArbitrateAddressFinish.             *)

EraseConversation(w) ==
  /\ At(w, "erase")
  /\ EraseTransmitConversationId(thread[w].addr)
  /\ Go(w, "check", thread[w].addr, None)
  /\ UNCHANGED <<arbitration_vars, routing_timer_vars, routing_queue, last_transmit_cid,
                 routing, conversation, outcome, ghost_vars>>

(* Mutant: the cache is not looked at.                                     *)
FinishRegardless(w) ==
  /\ At(w, "check")
  /\ Go(w, "keep", thread[w].addr, None)
  /\ UNCHANGED <<arbitration_vars, routing_timer_vars, route_vars, conversation,
                 outcome, ghost_vars>>

ArbitrateAddressFinish(w) ==
  LET a == thread[w].addr
  IN /\ At(w, "check")
     /\ IF HasCacheMessage(a)
        THEN AddArbitrateAddress(a) /\ Rest(w)
        ELSE Go(w, "keep", a, None) /\ UNCHANGED arbitrate_address_queue
     /\ UNCHANGED <<arbitrate_map, arbitrate_info_map, arbitrate_cache_map,
                    arbitration_timer, pending_timer, routing_timer_vars, route_vars,
                    conversation, outcome, ghost_vars>>

KeepAddress(w) ==
  /\ At(w, "keep")
  /\ ArbitrateAddressKeeping(thread[w].addr)
  /\ Rest(w)
  /\ UNCHANGED <<arbitrate_info_map, arbitrate_cache_map, arbitrate_address_queue,
                 pending_timer, routing_timer_vars, route_vars, conversation, outcome, ghost_vars>>

-----------------------------------------------------------------------------
(* Arbitration::HandleArbitrateAddressQueue and SendCacheMessage.          *)

HandleArbitrateAddressQueue ==
  /\ At("arbitrating", "idle") /\ arbitrate_address_queue # <<>>
  /\ PopArbitrateAddress
  /\ Go("arbitrating", "popped", Head(arbitrate_address_queue), None)
  /\ UNCHANGED <<arbitrate_map, arbitrate_info_map, arbitrate_cache_map, arbitration_timer,
                 pending_timer, routing_timer_vars, route_vars, conversation, outcome, ghost_vars>>

(* Mutant: the cache is not looked at again before its message is sent.    *)
SendUntested ==
  LET a == thread["arbitrating"].addr
  IN /\ At("arbitrating", "popped")
     /\ EraseCacheMessage(a)
     /\ Go("arbitrating", "handle", a, arbitrate_cache_map[a])
     /\ UNCHANGED <<arbitrate_map, arbitrate_info_map, arbitrate_address_queue,
                    arbitration_timer, pending_timer, routing_timer_vars, route_vars,
                    conversation, outcome, ghost_vars>>

SendCacheMessage ==
  LET a == thread["arbitrating"].addr
  IN /\ At("arbitrating", "popped")
     /\ \/ /\ HasCacheMessage(a)
           /\ EraseCacheMessage(a)
           /\ Go("arbitrating", "handle", a, arbitrate_cache_map[a])
           /\ shared' = IF Pipelined(a) \/ ThreadsOn(a) # {"arbitrating"}
                        THEN shared \cup {a} ELSE shared
        \/ /\ ~HasCacheMessage(a)
           /\ Go("arbitrating", "keep", a, None)
           /\ UNCHANGED <<arbitrate_cache_map, shared>>
     /\ UNCHANGED <<arbitrate_map, arbitrate_info_map, arbitrate_address_queue,
                    arbitration_timer, pending_timer, routing_timer_vars, route_vars,
                    conversation, outcome, pendings>>

-----------------------------------------------------------------------------
(* GatewayProcessor / NodeProcessor::HandleMessage, on the thread that     *)
(* receives from processor p.  The ECU of address a may send any message   *)
(* about any request it was sent, however late and however often.          *)

Reached(r, a) ==
  /\ TargetOf[r] \in {a, Functional}
  /\ \/ outcome[r] = "sent"
     \/ outcome[r] = "closed" /\ ~Physical(r) /\ RouteOf(a) = "Node"
     \/ \E w \in Senders : thread[w].at \in {"sending"} \cup Routes /\ thread[w].req = r

HandleMessage(p, message, a, r) ==
  /\ At(p, "idle") /\ ProcessorOf[a] = p
  /\ Reached(r, a)
  /\ Reacts(message, a, r)
  /\ Go(p, message, a, None)
  /\ IF message = "ResponsePending"
     THEN pendings < MaxResponsePending /\ pendings' = pendings + 1
     ELSE UNCHANGED pendings
  /\ UNCHANGED <<arbitration_vars, routing_timer_vars, route_vars, conversation, outcome, shared>>

StopTimer(p) ==
  LET message == thread[p].at
      a == thread[p].addr
  IN /\ message \in EcuMessages
     /\ StopTested(message, a)
     /\ Go(p, IF WaitsOn(message, a) THEN "start" ELSE "erase", a, None)
     /\ UNCHANGED <<arbitration_vars, route_vars, conversation, outcome, ghost_vars>>

(* Mutant: P6 is not started after the acknowledgement.                    *)
ForgetTimer(p) ==
  /\ At(p, "start")
  /\ Rest(p)
  /\ UNCHANGED <<arbitration_vars, routing_timer_vars, route_vars, conversation,
                 outcome, ghost_vars>>

StartTimer(p) ==
  /\ At(p, "start")
  /\ StartReceivingTimer(thread[p].addr)
  /\ Rest(p)
  /\ UNCHANGED <<arbitration_vars, route_vars, conversation, outcome, ghost_vars>>

(* The gateway opens or closes its CAN routing (kCustomMessage).           *)
GatewayRoutingStateChange(p, state) ==
  /\ p \in Gateways /\ At(p, "idle") /\ state # routing
  /\ SetRoutingState(state)
  /\ UNCHANGED <<arbitration_vars, routing_timer_vars, routing_queue, transmit_map,
                 last_transmit_cid, conversation, thread, outcome, ghost_vars>>

-----------------------------------------------------------------------------
(* Timers.  A timer thread runs one callback at a time.                    *)

CanExpire(w) == w \in Expiring /\ At(w, "idle")

AcknowledgementTimeout(a) ==
  /\ CanExpire("diagnostic_message") /\ DiagnosticMessageTimeout(a)
  /\ Go("diagnostic_message", "erase", a, None)
  /\ UNCHANGED <<arbitration_vars, route_vars, conversation, outcome, ghost_vars>>

ResponseTimeout(a) ==
  /\ CanExpire("receiving") /\ ReceivingTimeout(a)
  /\ Go("receiving", "erase", a, None)
  /\ UNCHANGED <<arbitration_vars, route_vars, conversation, outcome, ghost_vars>>

ArbitrationTimeout(a) ==
  /\ CanExpire("arbitration") /\ a \in arbitration_timer
  /\ arbitration_timer' = arbitration_timer \ {a}
  /\ Go("arbitration", "release", a, None)
  /\ UNCHANGED <<arbitrate_map, arbitrate_info_map, arbitrate_cache_map,
                 arbitrate_address_queue, pending_timer, routing_timer_vars, route_vars,
                 conversation, outcome, ghost_vars>>

ReleaseAddress ==
  /\ At("arbitration", "release")
  /\ ArbitrateRelease(thread["arbitration"].addr)
  /\ Rest("arbitration")
  /\ UNCHANGED <<arbitrate_info_map, arbitrate_cache_map, arbitrate_address_queue,
                 arbitration_timer, pending_timer, routing_timer_vars, route_vars,
                 conversation, outcome, ghost_vars>>

PendingTimeout(a) ==
  /\ CanExpire("pending") /\ a \in pending_timer
  /\ pending_timer' = pending_timer \ {a}
  /\ Go("pending", "remind", a, None)
  /\ UNCHANGED <<arbitrate_map, arbitrate_info_map, arbitrate_cache_map,
                 arbitrate_address_queue, arbitration_timer, routing_timer_vars, route_vars,
                 conversation, outcome, ghost_vars>>

(* Mutant: P2* is not started again.                                       *)
RemindOnce ==
  /\ At("pending", "remind")
  /\ Rest("pending")
  /\ UNCHANGED <<arbitration_vars, routing_timer_vars, route_vars, conversation,
                 outcome, ghost_vars>>

(* The tester of a cached request is told 0x78, response pending.          *)
SendPendingMessage ==
  LET a == thread["pending"].addr
  IN /\ At("pending", "remind")
     /\ IF HasCacheMessage(a) THEN Go("pending", "rearm", a, None) ELSE Rest("pending")
     /\ UNCHANGED <<arbitration_vars, routing_timer_vars, route_vars, conversation, outcome, ghost_vars>>

StartP2StarTimer ==
  /\ At("pending", "rearm")
  /\ StartPendingTimer(thread["pending"].addr)
  /\ Rest("pending")
  /\ UNCHANGED <<arbitrate_map, arbitrate_info_map, arbitrate_cache_map,
                 arbitrate_address_queue, arbitration_timer, routing_timer_vars, route_vars,
                 conversation, outcome, ghost_vars>>

-----------------------------------------------------------------------------
Converses(t) ==
  StartWorking(t) \/ RoutingMessage(t) \/ ArbitrateCacheMessage(t) \/ StartP2Timer(t)

Forwards(w) ==
  \/ CheckAndHandleMessage(w)
  \/ ConnectServer(w) \/ ConnectServerFails(w)
  \/ SendDiagnosticMessage(w) \/ SendDiagnosticMessageFails(w)

Finishes(w) == EraseConversation(w) \/ ArbitrateAddressFinish(w) \/ KeepAddress(w)

Dispatches == HandleRoutingMessage \/ HandleFunctionalRouting \/ BroadcastToGateways \/ BroadcastToNodes

Arbitrates == HandleArbitrateAddressQueue \/ SendCacheMessage

Receives(p) == StopTimer(p) \/ StartTimer(p)

Expires(a) ==
  \/ AcknowledgementTimeout(a) \/ ResponseTimeout(a)
  \/ ArbitrationTimeout(a) \/ PendingTimeout(a)

Next ==
  \/ \E t \in Testers, r \in Requests :
       HandlePhysicalMessage(t, r) \/ HandleFunctionalMessage(t, r)
  \/ \E t \in Testers : Converses(t)
  \/ Dispatches \/ Arbitrates
  \/ \E w \in Senders : Forwards(w)
  \/ \E w \in Threads : Finishes(w)
  \/ \E p \in Processors, message \in EcuMessages, a \in Addresses, r \in Requests :
       HandleMessage(p, message, a, r)
  \/ \E p \in Processors : Receives(p)
  \/ \E p \in Processors, state \in BOOLEAN : GatewayRoutingStateChange(p, state)
  \/ \E a \in Addresses : Expires(a)
  \/ ReleaseAddress \/ SendPendingMessage \/ StartP2StarTimer

Spec == Init /\ [][Next]_vars

(* Every thread that can run eventually does, and a timer that keeps       *)
(* running expires.  Nothing makes a tester send a request, an ECU answer  *)
(* or a gateway change its routing state.                                  *)
Fairness ==
  /\ \A t \in Testers : WF_vars(Converses(t))
  /\ WF_vars(Dispatches \/ Forwards("routing") \/ Finishes("routing"))
  /\ WF_vars(Arbitrates \/ Forwards("arbitrating") \/ Finishes("arbitrating"))
  /\ \A p \in Processors : WF_vars(Receives(p) \/ Finishes(p))
  /\ \A w \in {"diagnostic_message", "receiving"} : WF_vars(Finishes(w))
  /\ WF_vars(ReleaseAddress) /\ WF_vars(SendPendingMessage \/ StartP2StarTimer)
  /\ \A a \in Addresses :
       /\ WF_vars(AcknowledgementTimeout(a)) /\ WF_vars(ResponseTimeout(a))
       /\ WF_vars(ArbitrationTimeout(a)) /\ WF_vars(PendingTimeout(a))

FairSpec == Spec /\ Fairness

-----------------------------------------------------------------------------
(* As long as a request waits in the cache its tester is kept alive with   *)
(* 0x78: the P2 / P2* timer runs, or a thread is about to start it.        *)
(* (ArbitrateCacheMessage, ArbitrateAddressPending.)                       *)
PendingKeepsAlive ==
  \A a \in Addresses : HasCacheMessage(a) =>
    \/ a \in pending_timer
    \/ thread["pending"].at \in {"remind", "rearm"} /\ thread["pending"].addr = a
    \/ \E t \in Testers : Handling(t, {"arm"}, a)

(* The steps that still lead to ArbitrateAddressFinish for address a.      *)
Owners(a) == {w \in ThreadsOn(a) : thread[w].at \notin {"sending"} \cup EcuMessages}

RefusedByRoute(a) == \E r \in Requests : TargetOf[r] = a /\ outcome[r] = "closed"

(* An address works for somebody: a request on its way to the ECU, an      *)
(* answer that is awaited, or a thread about to hand the address on.  The  *)
(* code breaks this in one place only, where GatewayRoute refuses a        *)
(* request because its routing is closed and does not finish the address.  *)
WorkingIsOwned ==
  \A a \in Addresses : arbitrate_map[a] = "Working" =>
    Pipelined(a) \/ Owners(a) # {} \/ RefusedByRoute(a)

(* An address is never kept for a tester for good: its keeping timer runs, *)
(* or has fired and is about to release it.  (ArbitrateAddressKeeping.)    *)
KeepingIsTimed ==
  \A a \in Addresses : arbitrate_map[a] = "Keeping" =>
    \/ a \in arbitration_timer
    \/ thread["arbitration"].at = "release" /\ thread["arbitration"].addr = a

(* The answer an address is awaited to give goes to the tester that asked, *)
(* whoever else uses the route meanwhile, as long as the arbitration never *)
(* granted the address twice at a time, and no timeout or failure has      *)
(* handed it on already: an acknowledgement read before starts the timer   *)
(* of its answer even then.  (Set/GetTransmitConversationId.)              *)
AnswerGoesHome ==
  \A a \in Addresses \ shared :
    /\ arbitrate_map[a] = "Working" /\ Awaiting(a)
    /\ Owners(a) = {} /\ ~Dispatching(a)
    => GetTransmitConversationId(a) = TesterOf[receving_info[a]]
-----------------------------------------------------------------------------
(* Where an open request is: with its conversation, in a queue, in the     *)
(* cache or on a thread that forwards it.                                  *)
Whereabouts(r) ==
  {IF conversation[t].at = "pending" THEN "pending" ELSE "admitted" : t \in
     {t \in Testers : conversation[t].at \in {"pass", "route", "pending"}
                         /\ conversation[t].req = r}}
  \cup {"queued" : i \in {i \in DOMAIN routing_queue : routing_queue[i] = r}}
  \cup {"waiting" : a \in {a \in Addresses : arbitrate_cache_map[a] = r}}
  \cup {"forwarding" : w \in {w \in Senders : thread[w].req = r}}

Stage(r) ==
  CASE outcome[r] # "open" -> outcome[r]
    [] outcome[r] = "open" /\ Cardinality(Whereabouts(r)) = 1 -> CHOOSE s \in Whereabouts(r) : TRUE
    [] OTHER -> "lost"

Life == INSTANCE RequestLife WITH stage <- [r \in Requests |-> Stage(r)]

(* The proxy keeps the promise of RequestLife: no request is lost between  *)
(* the conversation, the queue, the cache and the senders, none is sent or *)
(* answered twice, and one that is displaced in the cache is told busy.    *)
RequestLifeHolds == Life!Spec

(* A request in the routing queue is sent or refused, whatever happens to  *)
(* the connections and the gateway's routing state.                        *)
RoutedIsSettled ==
  \A r \in Requests :
    (\E i \in DOMAIN routing_queue : routing_queue[i] = r) ~> (outcome[r] \in Final)

(* No tester owns an address for good: the ECU's answer, or the timeout    *)
(* for it, ends the work, unless a closed route has swallowed a request.   *)
WorkingEnds ==
  \A a \in Addresses :
    (arbitrate_map[a] = "Working") ~> (arbitrate_map[a] # "Working" \/ RefusedByRoute(a))

(* A request that waits while the address awaits its ECU is taken out of   *)
(* the cache: sent in its turn, or displaced by a more important one.      *)
CachedIsServed ==
  \A a \in Addresses :
    (Awaiting(a) /\ HasCacheMessage(a)) ~> ~HasCacheMessage(a)

(* The tests have an address that ArbitrateStart set to work refuse other  *)
(* testers until ArbitrateFinish (ut_dp_dcm.cpp, Arbitration).  The        *)
(* keeping timer of the previous tester is not stopped by ArbitrateStart.  *)
WorkingUntilFinished ==
  [][\A a \in Addresses :
       arbitrate_map[a] = "Working" => arbitrate_map'[a] \in {"Working", "Keeping"}]_vars
=============================================================================
