------------------------ MODULE DiagnosticProxyProofs ------------------------
(***************************************************************************)
(* What holds of DiagnosticProxy for every set of addresses, testers and   *)
(* requests, proved with TLAPS.                                            *)
(***************************************************************************)
EXTENDS DiagnosticProxy, TLAPS

(* A request that waits, or is carried by a thread, is for the address it  *)
(* waits for or is carried to.                                             *)
Consistent ==
  /\ \A a \in Addresses : HasCacheMessage(a) => TargetOf[arbitrate_cache_map[a]] = a
  /\ \A w \in Threads :
       /\ thread[w].at = "handle" =>
            thread[w].addr = IF Physical(thread[w].req) THEN TargetOf[thread[w].req] ELSE None
       /\ thread[w].at = "send" => thread[w].addr = TargetOf[thread[w].req]
  /\ \A t \in Testers : conversation[t].at \in {"pass", "pending", "arm"} =>
       Physical(conversation[t].req)

Typed == TypeOK /\ Consistent

USE DEF At, Physical, HasCacheMessage

-----------------------------------------------------------------------------
(* What the position of a thread, or of a conversation, says of the rest.  *)

(* What a thread carries while it is at a position.                        *)
LEMMA ThreadFacts ==
  ASSUME TypeOK, NEW w \in Threads
  PROVE  /\ thread[w].at \in {"handle"} \cup {"send", "sending"} \cup Routes =>
              thread[w].req \in Requests
         /\ thread[w].at \in {"send", "sending"} \cup Waiting \cup Finishing \cup EcuMessages =>
              thread[w].addr \in Addresses
         /\ thread[w].addr \in Addresses \cup {None}
BY DEF TypeOK, ThreadState, Idle, Routes, Waiting, Finishing, EcuMessages

(* A conversation that is not idle holds a request.                        *)
LEMMA ConversationFacts ==
  ASSUME TypeOK, NEW t \in Testers, conversation[t].at # "idle"
  PROVE  conversation[t].req \in Requests
BY DEF TypeOK, ConversationState, Free

(* Every thread's own step leaves it in one of its states.                 *)
LEMMA GoFacts ==
  ASSUME NEW at, NEW a, NEW r,
         \/ at \in Waiting \cup Finishing \cup EcuMessages /\ a \in Addresses /\ r = None
         \/ at \in {"send", "sending"} /\ a \in Addresses /\ r \in Requests
         \/ at \in {"handle"} /\ a \in Addresses \cup {None} /\ r \in Requests
         \/ at \in Routes /\ a = None /\ r \in Requests
  PROVE  [at |-> at, addr |-> a, req |-> r] \in ThreadState
BY DEF ThreadState

(* The target of a physical request is an address.                         *)
LEMMA TargetFacts ==
  ASSUME NEW r \in Requests
  PROVE  /\ TargetOf[r] # Functional => TargetOf[r] \in Addresses
         /\ TesterOf[r] \in Testers
BY ConstantsAssumption
-----------------------------------------------------------------------------
(* One lemma for each thread: its steps keep the types.                    *)

USE DEF TypeOK, ArbitrationTypeOK, RoutingTimerTypeOK, RouteTypeOK, Consistent, Typed,
        ghost_vars, arbitration_vars, routing_timer_vars, route_vars

(* A tester's new request keeps the types (Conversation::HandleMessage).   *)
LEMMA RequestTyped ==
  ASSUME Typed, NEW t \in Testers, NEW r \in Requests,
         HandlePhysicalMessage(t, r) \/ HandleFunctionalMessage(t, r)
  PROVE  Typed'
<1>1. CASE HandlePhysicalMessage(t, r)
  <2>1. arbitrate_info_map' \in [Addresses -> Testers \cup {None}]
    BY <1>1 DEF HandlePhysicalMessage, GetArbitrateResult
  <2>2. /\ conversation' \in [Testers -> ConversationState]
        /\ \A u \in Testers : conversation'[u].at \in {"pass", "pending", "arm"} =>
             TargetOf[conversation'[u].req] # Functional
    <3>1. CASE Converse(t, "pass", r)
      BY <1>1, <3>1 DEF HandlePhysicalMessage, Converse, ConversationState
    <3>2. CASE Converse(t, "pending", r)
      BY <1>1, <3>2 DEF HandlePhysicalMessage, Converse, ConversationState
    <3>3. CASE UNCHANGED conversation
      BY <3>3
    <3> QED BY <1>1, <3>1, <3>2, <3>3 DEF HandlePhysicalMessage
  <2>3. outcome' \in [Requests -> {"new", "open"} \cup Final]
    BY <1>1 DEF HandlePhysicalMessage, Settle, Final
  <2>4. shared' \subseteq Addresses
    BY <1>1, TargetFacts DEF HandlePhysicalMessage
  <2> QED BY <1>1, <2>1, <2>2, <2>3, <2>4 DEF HandlePhysicalMessage
<1>2. CASE HandleFunctionalMessage(t, r)
  <2>1. /\ conversation' \in [Testers -> ConversationState]
        /\ \A u \in Testers : conversation'[u].at \in {"pass", "pending", "arm"} =>
             TargetOf[conversation'[u].req] # Functional
    <3>1. CASE Converse(t, "route", r)
      BY <3>1 DEF Converse, ConversationState
    <3>2. CASE UNCHANGED conversation
      BY <3>2
    <3> QED BY <1>2, <3>1, <3>2 DEF HandleFunctionalMessage
  <2>2. outcome' \in [Requests -> {"new", "open"} \cup Final]
    BY <1>2 DEF HandleFunctionalMessage, Settle, Final
  <2> QED BY <1>2, <2>1, <2>2 DEF HandleFunctionalMessage
<1> QED BY <1>1, <1>2

(* So do the later steps of its conversation.                              *)
LEMMA ConversationTyped ==
  ASSUME Typed, NEW t \in Testers, Converses(t)
  PROVE  Typed'
<1>0. conversation[t].at # "idle"
  BY DEF Converses, StartWorking, RoutingMessage, ArbitrateCacheMessage, StartP2Timer
<1> DEFINE r == conversation[t].req
<1>r. r \in Requests
  BY <1>0, ConversationFacts
<1>1. CASE StartWorking(t)
  <2>1. arbitrate_map' \in [Addresses -> ArbitrateState]
    BY <1>1 DEF StartWorking, ArbitrateStart, ArbitrateState
  <2>2. /\ conversation' \in [Testers -> ConversationState]
        /\ \A u \in Testers : conversation'[u].at \in {"pass", "pending", "arm"} =>
             TargetOf[conversation'[u].req] # Functional
    BY <1>1, <1>r DEF StartWorking, Converse, ConversationState
  <2> QED BY <1>1, <2>1, <2>2 DEF StartWorking
<1>2. CASE RoutingMessage(t)
  <2>1. routing_queue' \in Seq(Requests)
    BY <1>2, <1>r DEF RoutingMessage, AddRoutingMessage
  <2>2. /\ conversation' \in [Testers -> ConversationState]
        /\ \A u \in Testers : conversation'[u].at \in {"pass", "pending", "arm"} =>
             TargetOf[conversation'[u].req] # Functional
    BY <1>2 DEF RoutingMessage, Free, ConversationState
  <2> QED BY <1>2, <2>1, <2>2 DEF RoutingMessage
<1>3. CASE ArbitrateCacheMessage(t)
  <2>1. /\ arbitrate_cache_map' \in [Addresses -> Requests \cup {None}]
        /\ \A a \in Addresses : arbitrate_cache_map'[a] # None =>
             TargetOf[arbitrate_cache_map'[a]] = a
    BY <1>3, <1>r DEF ArbitrateCacheMessage, CacheMessage
  <2>2. /\ conversation' \in [Testers -> ConversationState]
        /\ \A u \in Testers : conversation'[u].at \in {"pass", "pending", "arm"} =>
             TargetOf[conversation'[u].req] # Functional
    BY <1>3, <1>r DEF ArbitrateCacheMessage, Converse, ConversationState
  <2>3. outcome' \in [Requests -> {"new", "open"} \cup Final]
    BY <1>3 DEF ArbitrateCacheMessage, Settle, Final
  <2> QED BY <1>3, <2>1, <2>2, <2>3 DEF ArbitrateCacheMessage
<1>4. CASE StartP2Timer(t)
  <2>1. pending_timer' \subseteq Addresses
    BY <1>4, <1>r, TargetFacts DEF StartP2Timer, StartPendingTimer
  <2>2. /\ conversation' \in [Testers -> ConversationState]
        /\ \A u \in Testers : conversation'[u].at \in {"pass", "pending", "arm"} =>
             TargetOf[conversation'[u].req] # Functional
    BY <1>4 DEF StartP2Timer, Free, ConversationState
  <2> QED BY <1>4, <2>1, <2>2 DEF StartP2Timer
<1> QED BY <1>1, <1>2, <1>3, <1>4 DEF Converses
ThreadsTyped ==
  /\ thread \in [Threads -> ThreadState]
  /\ \A w \in Threads :
       /\ thread[w].at = "handle" =>
            thread[w].addr = IF Physical(thread[w].req) THEN TargetOf[thread[w].req] ELSE None
       /\ thread[w].at = "send" => thread[w].addr = TargetOf[thread[w].req]

(* Moving a thread to a position it may take keeps the threads typed.      *)
LEMMA GoTyped ==
  ASSUME Typed, NEW w \in Threads, NEW at, NEW a, NEW r, Go(w, at, a, r),
         \/ at \in Waiting \cup Finishing \cup EcuMessages /\ a \in Addresses /\ r = None
         \/ at = "send" /\ a \in Addresses /\ r \in Requests /\ a = TargetOf[r]
         \/ at = "sending" /\ a \in Addresses /\ r \in Requests
         \/ at = "handle" /\ r \in Requests /\ a = IF Physical(r) THEN TargetOf[r] ELSE None
         \/ at \in Routes /\ a = None /\ r \in Requests
  PROVE  ThreadsTyped'
<1> DEFINE rec == [at |-> at, addr |-> a, req |-> r]
<1>1. rec \in ThreadState
  BY GoFacts, TargetFacts
<1>2. /\ at = "handle" => a = IF TargetOf[r] # Functional THEN TargetOf[r] ELSE None
      /\ at = "send" => a = TargetOf[r]
  BY DEF Waiting, Finishing, EcuMessages, Routes
<1>3. thread' = [thread EXCEPT ![w] = rec]
  BY DEF Go
<1> QED BY <1>1, <1>2, <1>3 DEF ThreadsTyped

(* And so does letting it rest.                                            *)
LEMMA RestTyped ==
  ASSUME Typed, NEW w \in Threads, Rest(w)
  PROVE  ThreadsTyped'
BY DEF ThreadsTyped, Rest, Idle, ThreadState

(* An outcome is one of the outcomes.                                      *)
LEMMA SettleTyped ==
  ASSUME Typed, NEW r, NEW result \in {"new", "open"} \cup Final, Settle(r, result)
  PROVE  outcome' \in [Requests -> {"new", "open"} \cup Final]
BY DEF Settle

(* Forwarding a request keeps the types (CheckAndHandleMessage and the     *)
(* processors' sending).                                                   *)
LEMMA ForwardTyped ==
  ASSUME Typed, NEW w \in Senders, Forwards(w)
  PROVE  Typed'
<1>w. w \in Threads
  BY DEF Threads
<1> DEFINE r == thread[w].req
           a == thread[w].addr
<1>1. CASE CheckAndHandleMessage(w)
  <2>1. r \in Requests /\ TesterOf[r] \in Testers /\ TargetOf[r] \in Addresses /\ a = TargetOf[r]
    BY <1>1, <1>w, ThreadFacts, TargetFacts DEF CheckAndHandleMessage
  <2>2. CASE RoutingIsClosed(RouteOf(a)) /\ Settle(r, "closed") /\ Rest(w)
             /\ UNCHANGED <<transmit_map, last_transmit_cid>>
    <3>1. outcome' \in [Requests -> {"new", "open"} \cup Final]
      BY <2>2, SettleTyped DEF Final
    <3> QED BY <1>1, <1>w, <2>2, <3>1, RestTyped DEF CheckAndHandleMessage, ThreadsTyped
  <2>3. CASE SetTransmitConversationId(a, TesterOf[r]) /\ Go(w, "send", a, r)
             /\ UNCHANGED outcome
    <3>1. ThreadsTyped'
      BY <1>w, <2>1, <2>3, GoTyped
    <3>2. /\ transmit_map' \in [Addresses -> Testers \cup {None}]
          /\ last_transmit_cid' \in [Routes -> Testers \cup {None}]
      BY <2>1, <2>3 DEF SetTransmitConversationId
    <3> QED BY <1>1, <2>3, <3>1, <3>2 DEF CheckAndHandleMessage, ThreadsTyped
  <2> QED BY <1>1, <2>2, <2>3 DEF CheckAndHandleMessage
<1>2. ASSUME thread[w].at \in {"send", "sending"}
      PROVE  r \in Requests /\ a \in Addresses
  BY <1>2, <1>w, ThreadFacts
<1>3. CASE ConnectServer(w)
  <2>1. r \in Requests /\ a \in Addresses
    BY <1>2, <1>3 DEF ConnectServer
  <2>2. ThreadsTyped'
    BY <1>3, <1>w, <2>1, GoTyped DEF ConnectServer
  <2> QED BY <1>3, <2>1, <2>2 DEF ConnectServer, StartReceving, ThreadsTyped
<1>4. CASE ConnectServerFails(w)
  <2>1. r \in Requests /\ a \in Addresses
    BY <1>2, <1>4 DEF ConnectServerFails
  <2>2. ThreadsTyped'
    BY <1>4, <1>w, <2>1, GoTyped DEF ConnectServerFails, Finishing
  <2>3. outcome' \in [Requests -> {"new", "open"} \cup Final]
    BY <1>4, SettleTyped DEF ConnectServerFails, Final
  <2> QED BY <1>4, <2>2, <2>3 DEF ConnectServerFails, ThreadsTyped
<1>5. CASE SendDiagnosticMessage(w)
  <2>1. outcome' \in [Requests -> {"new", "open"} \cup Final]
    BY <1>5, SettleTyped DEF SendDiagnosticMessage, Final
  <2>2. ThreadsTyped'
    BY <1>5, <1>w, RestTyped DEF SendDiagnosticMessage
  <2> QED BY <1>5, <2>1, <2>2 DEF SendDiagnosticMessage, ThreadsTyped
<1>6. CASE SendDiagnosticMessageFails(w)
  <2>1. r \in Requests /\ a \in Addresses
    BY <1>2, <1>6 DEF SendDiagnosticMessageFails
  <2>2. ThreadsTyped'
    BY <1>6, <1>w, <2>1, GoTyped DEF SendDiagnosticMessageFails, Finishing
  <2>3. outcome' \in [Requests -> {"new", "open"} \cup Final]
    BY <1>6, SettleTyped DEF SendDiagnosticMessageFails, Final
  <2> QED BY <1>6, <2>2, <2>3 DEF SendDiagnosticMessageFails, StopReceving, ThreadsTyped
<1> QED BY <1>1, <1>3, <1>4, <1>5, <1>6 DEF Forwards

(* Ending a request keeps the types (HandleRoutingFinish).                 *)
LEMMA FinishTyped ==
  ASSUME Typed, NEW w \in Threads, Finishes(w)
  PROVE  Typed'
<1> DEFINE a == thread[w].addr
<1>1. a \in Addresses
  BY ThreadFacts DEF Finishes, EraseConversation, ArbitrateAddressFinish, KeepAddress, Finishing
<1>2. CASE EraseConversation(w)
  <2>1. ThreadsTyped'
    BY <1>1, <1>2, GoTyped DEF EraseConversation, Finishing
  <2> QED BY <1>2, <2>1 DEF EraseConversation, EraseTransmitConversationId, ThreadsTyped
<1>3. CASE ArbitrateAddressFinish(w)
  <2>1. ThreadsTyped'
    BY <1>1, <1>3, GoTyped, RestTyped DEF ArbitrateAddressFinish, Finishing
  <2>2. arbitrate_address_queue' \in Seq(Addresses)
    <3>1. \/ arbitrate_address_queue' = Append(arbitrate_address_queue, a)
          \/ arbitrate_address_queue' = arbitrate_address_queue
      BY <1>3 DEF ArbitrateAddressFinish, AddArbitrateAddress
    <3>2. arbitrate_address_queue \in Seq(Addresses)
      OBVIOUS
    <3>3. Append(arbitrate_address_queue, a) \in Seq(Addresses)
      BY <1>1, <3>2
    <3> QED BY <3>1, <3>2, <3>3
  <2> QED BY <1>3, <2>1, <2>2 DEF ArbitrateAddressFinish, ThreadsTyped
<1>4. CASE KeepAddress(w)
  <2>1. ThreadsTyped'
    BY <1>4, RestTyped DEF KeepAddress
  <2>2. arbitrate_map' \in [Addresses -> ArbitrateState] /\ arbitration_timer' \subseteq Addresses
    BY <1>1, <1>4 DEF KeepAddress, ArbitrateAddressKeeping, ArbitrateState
  <2> QED BY <1>4, <2>1, <2>2 DEF KeepAddress, ThreadsTyped
<1> QED BY <1>2, <1>3, <1>4 DEF Finishes

(* The routing thread keeps the types (RoutingMessageQueue).               *)
LEMMA DispatchTyped ==
  ASSUME Typed, Dispatches
  PROVE  Typed'
<1>w. "routing" \in Threads
  BY DEF Threads, Senders
<1> DEFINE r == thread["routing"].req
<1>1. CASE HandleRoutingMessage
  <2>1. Head(routing_queue) \in Requests /\ Tail(routing_queue) \in Seq(Requests)
    BY <1>1 DEF HandleRoutingMessage
  <2>2. ThreadsTyped'
    BY <1>1, <1>w, <2>1, GoTyped DEF HandleRoutingMessage
  <2> QED BY <1>1, <2>1, <2>2 DEF HandleRoutingMessage, ThreadsTyped
<1>2. ASSUME NEW k \in Routes, TakeOver(k, r), r \in Requests
      PROVE  /\ transmit_map' \in [Addresses -> Testers \cup {None}]
             /\ last_transmit_cid' \in [Routes -> Testers \cup {None}]
             /\ shared' \subseteq Addresses
  <2>1. TesterOf[r] \in Testers
    BY <1>2, TargetFacts
  <2>2. CASE UNCHANGED <<transmit_map, last_transmit_cid, shared>>
    BY <2>2
  <2>3. CASE SetAllTransmitConversationIds(k, TesterOf[r]) /\ shared' = shared \cup TakenOver(k)
    <3>1. TakenOver(k) \subseteq Addresses
      BY DEF TakenOver
    <3>2. transmit_map' \in [Addresses -> Testers \cup {None}]
      BY <2>1, <2>3 DEF SetAllTransmitConversationIds
    <3>3. last_transmit_cid' \in [Routes -> Testers \cup {None}]
      BY <2>1, <2>3 DEF SetAllTransmitConversationIds
    <3> QED BY <2>3, <3>1, <3>2, <3>3
  <2> QED BY <1>2, <2>2, <2>3 DEF TakeOver
<1>3. CASE HandleFunctionalRouting
  <2>1. r \in Requests /\ "Gateway" \in Routes
    BY <1>3, <1>w, ThreadFacts DEF HandleFunctionalRouting, Routes
  <2>2. ThreadsTyped'
    BY <1>3, <1>w, <2>1, GoTyped DEF HandleFunctionalRouting
  <2>3. outcome' \in [Requests -> {"new", "open"} \cup Final]
    BY <1>3, SettleTyped DEF HandleFunctionalRouting, Final
  <2> QED BY <1>2, <1>3, <2>1, <2>2, <2>3 DEF HandleFunctionalRouting, ThreadsTyped
<1>4. CASE BroadcastToGateways
  <2>1. r \in Requests /\ "Node" \in Routes
    BY <1>4, <1>w, ThreadFacts DEF BroadcastToGateways, Routes
  <2>2. ThreadsTyped'
    BY <1>4, <1>w, <2>1, GoTyped DEF BroadcastToGateways
  <2> QED BY <1>2, <1>4, <2>1, <2>2 DEF BroadcastToGateways, ThreadsTyped
<1>5. CASE BroadcastToNodes
  <2>1. r \in Requests
    BY <1>5, <1>w, ThreadFacts DEF BroadcastToNodes, Routes
  <2>2. outcome' \in [Requests -> {"new", "open"} \cup Final]
    BY <1>5, <2>1, SettleTyped DEF BroadcastToNodes, Final
  <2>3. ThreadsTyped'
    BY <1>5, <1>w, RestTyped DEF BroadcastToNodes
  <2> QED BY <1>5, <2>2, <2>3 DEF BroadcastToNodes, ThreadsTyped
<1> QED BY <1>1, <1>3, <1>4, <1>5 DEF Dispatches

(* The arbitrating thread keeps the types (SendCacheMessage).              *)
LEMMA ArbitrateTyped ==
  ASSUME Typed, Arbitrates
  PROVE  Typed'
<1>w. "arbitrating" \in Threads
  BY DEF Threads, Senders
<1> DEFINE a == thread["arbitrating"].addr
<1>1. CASE HandleArbitrateAddressQueue
  <2>1. /\ Head(arbitrate_address_queue) \in Addresses
        /\ Tail(arbitrate_address_queue) \in Seq(Addresses)
    BY <1>1 DEF HandleArbitrateAddressQueue
  <2>2. ThreadsTyped'
    BY <1>1, <1>w, <2>1, GoTyped DEF HandleArbitrateAddressQueue, Waiting
  <2> QED BY <1>1, <2>1, <2>2 DEF HandleArbitrateAddressQueue, PopArbitrateAddress, ThreadsTyped
<1>2. CASE SendCacheMessage
  <2>1. a \in Addresses
    BY <1>2, <1>w, ThreadFacts DEF SendCacheMessage, Waiting
  <2>2. CASE /\ HasCacheMessage(a)
             /\ EraseCacheMessage(a)
             /\ Go("arbitrating", "handle", a, arbitrate_cache_map[a])
             /\ shared' \in {shared, shared \cup {a}}
    <3>1. arbitrate_cache_map[a] \in Requests /\ TargetOf[arbitrate_cache_map[a]] = a
      BY <2>1, <2>2
    <3>2. Physical(arbitrate_cache_map[a])
      BY <2>1, <3>1, NamesAssumption
    <3>3. ThreadsTyped'
      BY <1>w, <2>2, <3>1, <3>2, GoTyped
    <3>4. /\ arbitrate_cache_map' \in [Addresses -> Requests \cup {None}]
          /\ \A b \in Addresses : arbitrate_cache_map'[b] # None =>
               TargetOf[arbitrate_cache_map'[b]] = b
      BY <2>1, <2>2 DEF EraseCacheMessage
    <3> QED BY <1>2, <2>1, <2>2, <3>3, <3>4 DEF SendCacheMessage, ThreadsTyped
  <2>3. CASE /\ Go("arbitrating", "keep", a, None)
             /\ UNCHANGED <<arbitrate_cache_map, shared>>
    <3>1. ThreadsTyped'
      BY <1>w, <2>1, <2>3, GoTyped DEF Finishing
    <3> QED BY <1>2, <2>3, <3>1 DEF SendCacheMessage, ThreadsTyped
  <2> QED BY <1>2, <2>2, <2>3 DEF SendCacheMessage
<1> QED BY <1>1, <1>2 DEF Arbitrates

(* What the ECUs send keeps the types (HandleMessage).                     *)
LEMMA ReceiveTyped ==
  ASSUME Typed, NEW p \in Processors,
         \/ \E message \in EcuMessages, a \in Addresses, r \in Requests :
              HandleMessage(p, message, a, r)
         \/ Receives(p)
         \/ \E state \in BOOLEAN : GatewayRoutingStateChange(p, state)
  PROVE  Typed'
<1>p. p \in Threads
  BY DEF Threads
<1>1. ASSUME NEW message \in EcuMessages, NEW a \in Addresses, NEW r \in Requests,
             HandleMessage(p, message, a, r)
      PROVE  Typed'
  <2>1. ThreadsTyped'
    BY <1>1, <1>p, GoTyped DEF HandleMessage
  <2>2. pendings' \in 0..MaxResponsePending
    BY <1>1, BoundsAssumption DEF HandleMessage
  <2> QED BY <1>1, <2>1, <2>2 DEF HandleMessage, ThreadsTyped
<1>2. CASE StopTimer(p)
  <2>1. thread[p].addr \in Addresses
    BY <1>2, <1>p, ThreadFacts DEF StopTimer
  <2>2. PICK at \in {"start", "erase"} : Go(p, at, thread[p].addr, None)
    BY <1>2 DEF StopTimer
  <2>3. ThreadsTyped'
    BY <1>p, <2>1, <2>2, GoTyped DEF Waiting, Finishing
  <2> QED BY <1>2, <2>3 DEF StopTimer, StopTested, ThreadsTyped
<1>3. CASE StartTimer(p)
  <2>1. thread[p].addr \in Addresses
    BY <1>3, <1>p, ThreadFacts DEF StartTimer, Waiting
  <2>2. ThreadsTyped'
    BY <1>3, <1>p, RestTyped DEF StartTimer
  <2> QED BY <1>3, <2>1, <2>2 DEF StartTimer, StartReceivingTimer, ThreadsTyped
<1>4. ASSUME NEW state \in BOOLEAN, GatewayRoutingStateChange(p, state)
      PROVE  Typed'
  BY <1>4 DEF GatewayRoutingStateChange, SetRoutingState
<1> QED BY <1>1, <1>2, <1>3, <1>4 DEF Receives

(* The timers keep the types.                                              *)
LEMMA TimerTyped ==
  ASSUME Typed,
         \/ \E a \in Addresses : Expires(a)
         \/ ReleaseAddress \/ SendPendingMessage \/ StartP2StarTimer
  PROVE  Typed'
<1>t. {"diagnostic_message", "receiving", "arbitration", "pending"} \subseteq Threads
  BY DEF Threads, TimerThreads
<1>1. ASSUME NEW a \in Addresses, AcknowledgementTimeout(a)
      PROVE  Typed'
  <2>1. ThreadsTyped'
    BY <1>1, <1>t, GoTyped DEF AcknowledgementTimeout, Finishing
  <2> QED BY <1>1, <2>1 DEF AcknowledgementTimeout, DiagnosticMessageTimeout, ThreadsTyped
<1>2. ASSUME NEW a \in Addresses, ResponseTimeout(a)
      PROVE  Typed'
  <2>1. ThreadsTyped'
    BY <1>2, <1>t, GoTyped DEF ResponseTimeout, Finishing
  <2> QED BY <1>2, <2>1 DEF ResponseTimeout, ReceivingTimeout, ThreadsTyped
<1>3. ASSUME NEW a \in Addresses, ArbitrationTimeout(a)
      PROVE  Typed'
  <2>1. ThreadsTyped'
    BY <1>3, <1>t, GoTyped DEF ArbitrationTimeout, Waiting
  <2> QED BY <1>3, <2>1 DEF ArbitrationTimeout, ThreadsTyped
<1>4. ASSUME NEW a \in Addresses, PendingTimeout(a)
      PROVE  Typed'
  <2>1. ThreadsTyped'
    BY <1>4, <1>t, GoTyped DEF PendingTimeout, Waiting
  <2> QED BY <1>4, <2>1 DEF PendingTimeout, ThreadsTyped
<1>5. CASE ReleaseAddress
  <2>1. ThreadsTyped'
    BY <1>5, <1>t, RestTyped DEF ReleaseAddress
  <2> QED BY <1>5, <2>1 DEF ReleaseAddress, ArbitrateRelease, ArbitrateState, ThreadsTyped
<1>6. CASE SendPendingMessage
  <2>1. thread["pending"].addr \in Addresses
    BY <1>6, <1>t, ThreadFacts DEF SendPendingMessage, Waiting
  <2>2. ThreadsTyped'
    BY <1>6, <1>t, <2>1, GoTyped, RestTyped DEF SendPendingMessage, Waiting
  <2> QED BY <1>6, <2>2 DEF SendPendingMessage, ThreadsTyped
<1>7. CASE StartP2StarTimer
  <2>1. thread["pending"].addr \in Addresses
    BY <1>7, <1>t, ThreadFacts DEF StartP2StarTimer, Waiting
  <2>2. ThreadsTyped'
    BY <1>7, <1>t, RestTyped DEF StartP2StarTimer
  <2> QED BY <1>7, <2>1, <2>2 DEF StartP2StarTimer, StartPendingTimer, ThreadsTyped
<1> QED BY <1>1, <1>2, <1>3, <1>4, <1>5, <1>6, <1>7 DEF Expires
-----------------------------------------------------------------------------
(* The types hold initially.                                               *)
LEMMA InitTyped == Init => Typed
BY NamesAssumption, BoundsAssumption
   DEF Init, ArbitrationInit, RoutingTimerInit, RouteInit, ArbitrateState, ConversationState,
       Free, ThreadState, Idle

(* They depend on the variables only.                                      *)
LEMMA StutterTyped == ASSUME Typed, UNCHANGED vars PROVE Typed'
BY DEF vars

(* Every step of the proxy keeps them.                                     *)
LEMMA NextTyped == ASSUME Typed, [Next]_vars PROVE Typed'
<1>1. CASE Next
  BY <1>1, RequestTyped, ConversationTyped, ForwardTyped, FinishTyped, DispatchTyped,
     ArbitrateTyped, ReceiveTyped, TimerTyped DEF Next
<1>2. CASE UNCHANGED vars
  BY <1>2, StutterTyped
<1> QED BY <1>1, <1>2

(* Every variable keeps its type, and whatever waits for an address or is  *)
(* on its way there is for that address.                                   *)
THEOREM TypedInvariant == Spec => []Typed
<1>1. QED BY InitTyped, NextTyped, PTL DEF Spec

(* Every variable of the proxy has its type in every reachable state.      *)
THEOREM TypeCorrect == Spec => []TypeOK
<1>1. Typed => TypeOK
  BY DEF Typed
<1>2. QED BY <1>1, TypedInvariant, PTL
-----------------------------------------------------------------------------
(* KeepingIsTimed: who moves the keeping timer, its thread or an address.  *)

(* A step of one thread leaves the others where they are.                  *)
LEMMA OtherThreads ==
  ASSUME Typed, NEW w, NEW v \in Threads, v # w,
         Rest(w) \/ \E at, a, r : Go(w, at, a, r)
  PROVE  thread'[v] = thread[v]
BY DEF Rest, Go

KeepingUntouched ==
  /\ UNCHANGED <<arbitrate_map, arbitration_timer>>
  /\ thread'["arbitration"] = thread["arbitration"]

(* Most steps touch neither what an address is doing nor its keeping timer. *)
LEMMA KeepingFrame ==
  ASSUME Typed,
         \/ \E t \in Testers, r \in Requests :
              HandlePhysicalMessage(t, r) \/ HandleFunctionalMessage(t, r)
         \/ \E t \in Testers :
              RoutingMessage(t) \/ ArbitrateCacheMessage(t) \/ StartP2Timer(t)
         \/ Dispatches \/ Arbitrates
         \/ \E w \in Senders : Forwards(w)
         \/ \E p \in Processors, message \in EcuMessages, a \in Addresses, r \in Requests :
              HandleMessage(p, message, a, r)
         \/ \E p \in Processors : Receives(p)
         \/ \E p \in Processors, state \in BOOLEAN : GatewayRoutingStateChange(p, state)
         \/ \E a \in Addresses :
              AcknowledgementTimeout(a) \/ ResponseTimeout(a) \/ PendingTimeout(a)
         \/ SendPendingMessage \/ StartP2StarTimer
  PROVE  KeepingUntouched
<1>t. /\ "arbitration" \in Threads
      /\ "arbitration" \notin Senders \cup Processors
  BY ThreadsAssumption DEF Threads, TimerThreads, Senders
<1>1. ASSUME NEW t \in Testers, NEW r \in Requests,
             HandlePhysicalMessage(t, r) \/ HandleFunctionalMessage(t, r)
      PROVE  KeepingUntouched
  BY <1>1 DEF HandlePhysicalMessage, HandleFunctionalMessage, KeepingUntouched
<1>2. ASSUME NEW t \in Testers,
             RoutingMessage(t) \/ ArbitrateCacheMessage(t) \/ StartP2Timer(t)
      PROVE  KeepingUntouched
  BY <1>2 DEF RoutingMessage, ArbitrateCacheMessage, StartP2Timer, KeepingUntouched
<1>3. CASE Dispatches
  BY <1>3, <1>t, OtherThreads
     DEF Dispatches, HandleRoutingMessage, HandleFunctionalRouting, BroadcastToGateways,
         BroadcastToNodes, KeepingUntouched
<1>4. CASE Arbitrates
  BY <1>4, <1>t, OtherThreads
     DEF Arbitrates, HandleArbitrateAddressQueue, SendCacheMessage, KeepingUntouched
<1>5. ASSUME NEW w \in Senders, Forwards(w)
      PROVE  KeepingUntouched
  <2>1. CASE CheckAndHandleMessage(w)
    BY <2>1, <1>t, OtherThreads DEF CheckAndHandleMessage, KeepingUntouched
  <2>2. CASE ConnectServer(w) \/ ConnectServerFails(w)
    BY <2>2, <1>t, OtherThreads DEF ConnectServer, ConnectServerFails, KeepingUntouched
  <2>3. CASE SendDiagnosticMessage(w) \/ SendDiagnosticMessageFails(w)
    BY <2>3, <1>t, OtherThreads
       DEF SendDiagnosticMessage, SendDiagnosticMessageFails, KeepingUntouched
  <2> QED BY <1>5, <2>1, <2>2, <2>3 DEF Forwards
<1>6. ASSUME NEW p \in Processors,
             \/ \E message \in EcuMessages, a \in Addresses, r \in Requests :
                  HandleMessage(p, message, a, r)
             \/ Receives(p)
             \/ \E state \in BOOLEAN : GatewayRoutingStateChange(p, state)
      PROVE  KeepingUntouched
  BY <1>6, <1>t, OtherThreads
     DEF HandleMessage, Receives, StopTimer, StartTimer, GatewayRoutingStateChange,
         KeepingUntouched
<1>7. ASSUME NEW a \in Addresses,
             AcknowledgementTimeout(a) \/ ResponseTimeout(a) \/ PendingTimeout(a)
      PROVE  KeepingUntouched
  BY <1>7, <1>t, OtherThreads
     DEF AcknowledgementTimeout, ResponseTimeout, PendingTimeout, KeepingUntouched
<1>8. CASE SendPendingMessage \/ StartP2StarTimer
  BY <1>8, <1>t, OtherThreads DEF SendPendingMessage, StartP2StarTimer, KeepingUntouched
<1> QED BY <1>1, <1>2, <1>3, <1>4, <1>5, <1>6, <1>7, <1>8

(* No step leaves an address kept without its timer.                       *)
LEMMA KeepingStep ==
  ASSUME Typed, KeepingIsTimed, [Next]_vars
  PROVE  KeepingIsTimed'
<1> USE DEF KeepingIsTimed
<1>t. "arbitration" \in Threads
  BY DEF Threads, TimerThreads
<1>1. CASE KeepingUntouched
  BY <1>1 DEF KeepingUntouched
<1>2. ASSUME NEW t \in Testers, StartWorking(t)
      PROVE  KeepingIsTimed'
  BY <1>2 DEF StartWorking, ArbitrateStart
<1>3. ASSUME NEW w \in Threads, EraseConversation(w) \/ ArbitrateAddressFinish(w)
      PROVE  KeepingIsTimed'
  <2>1. thread[w].at # "release" /\ UNCHANGED <<arbitrate_map, arbitration_timer>>
    BY <1>3 DEF EraseConversation, ArbitrateAddressFinish
  <2>2. w # "arbitration" => thread'["arbitration"] = thread["arbitration"]
    BY <1>3, <1>t, OtherThreads DEF EraseConversation, ArbitrateAddressFinish
  <2> QED BY <2>1, <2>2
<1>4. ASSUME NEW w \in Threads, KeepAddress(w)
      PROVE  KeepingIsTimed'
  <2>1. thread[w].at # "release"
    BY <1>4 DEF KeepAddress
  <2>2. w # "arbitration" => thread'["arbitration"] = thread["arbitration"]
    BY <1>4, <1>t, OtherThreads DEF KeepAddress
  <2> QED BY <1>4, <2>1, <2>2 DEF KeepAddress, ArbitrateAddressKeeping
<1>5. ASSUME NEW a \in Addresses, ArbitrationTimeout(a)
      PROVE  KeepingIsTimed'
  <2>1. thread'["arbitration"] = [at |-> "release", addr |-> a, req |-> None]
    BY <1>5, <1>t DEF ArbitrationTimeout, Go
  <2> QED BY <1>5, <2>1 DEF ArbitrationTimeout, CanExpire
<1>6. CASE ReleaseAddress
  BY <1>6 DEF ReleaseAddress, ArbitrateRelease
<1>7. CASE UNCHANGED vars
  BY <1>7 DEF vars
<1> QED
  BY <1>1, <1>2, <1>3, <1>4, <1>5, <1>6, <1>7, KeepingFrame
     DEF Next, Converses, Finishes, Expires

(* Whatever its threads do, the proxy keeps no address for good: the       *)
(* keeping timer of every kept address runs, or is releasing it.           *)
THEOREM KeepingTimed == Spec => []KeepingIsTimed
<1>1. Init => KeepingIsTimed
  BY DEF Init, ArbitrationInit, KeepingIsTimed
<1>2. QED BY <1>1, KeepingStep, TypedInvariant, PTL DEF Spec
-----------------------------------------------------------------------------
(* PendingKeepsAlive: the steps that neither fill the cache nor move the   *)
(* P2 timer leave what keeps a waiting tester alive as it is.              *)

Reminding == thread["pending"].at \in {"remind", "rearm"}

PendingUntouched ==
  /\ \A a \in Addresses : arbitrate_cache_map'[a] \in {arbitrate_cache_map[a], None}
  /\ UNCHANGED pending_timer
  /\ Reminding => thread'["pending"] = thread["pending"]
  /\ \A t \in Testers : conversation[t].at = "arm" => conversation'[t] = conversation[t]

(* Most steps leave the cache, the reminders and the pending timer alone.  *)
LEMMA PendingFrame ==
  ASSUME Typed,
         \/ \E t \in Testers, r \in Requests :
              HandlePhysicalMessage(t, r) \/ HandleFunctionalMessage(t, r)
         \/ \E t \in Testers : StartWorking(t) \/ RoutingMessage(t)
         \/ Dispatches \/ Arbitrates
         \/ \E w \in Senders : Forwards(w)
         \/ \E w \in Threads : Finishes(w)
         \/ \E p \in Processors, message \in EcuMessages, a \in Addresses, r \in Requests :
              HandleMessage(p, message, a, r)
         \/ \E p \in Processors : Receives(p)
         \/ \E p \in Processors, state \in BOOLEAN : GatewayRoutingStateChange(p, state)
         \/ \E a \in Addresses :
              AcknowledgementTimeout(a) \/ ResponseTimeout(a) \/ ArbitrationTimeout(a)
         \/ ReleaseAddress
  PROVE  PendingUntouched
<1>t. /\ "pending" \in Threads
      /\ "pending" \notin Senders \cup Processors
  BY ThreadsAssumption DEF Threads, TimerThreads, Senders
<1>1. ASSUME NEW t \in Testers, NEW r \in Requests,
             HandlePhysicalMessage(t, r) \/ HandleFunctionalMessage(t, r)
      PROVE  PendingUntouched
  <2>1. \A u \in Testers : conversation[u].at = "arm" => conversation'[u] = conversation[u]
    BY <1>1 DEF HandlePhysicalMessage, HandleFunctionalMessage, Converse
  <2> QED BY <1>1, <2>1 DEF HandlePhysicalMessage, HandleFunctionalMessage, PendingUntouched
<1>2. ASSUME NEW t \in Testers, StartWorking(t) \/ RoutingMessage(t)
      PROVE  PendingUntouched
  <2>1. \A u \in Testers : conversation[u].at = "arm" => conversation'[u] = conversation[u]
    BY <1>2 DEF StartWorking, RoutingMessage, Converse
  <2> QED BY <1>2, <2>1 DEF StartWorking, RoutingMessage, PendingUntouched
<1>3. CASE Dispatches
  BY <1>3, <1>t, OtherThreads
     DEF Dispatches, HandleRoutingMessage, HandleFunctionalRouting, BroadcastToGateways,
         BroadcastToNodes, PendingUntouched
<1>4. CASE HandleArbitrateAddressQueue
  BY <1>4, <1>t, OtherThreads DEF HandleArbitrateAddressQueue, PendingUntouched, Senders
<1>5. CASE SendCacheMessage
  <2>1. thread'["pending"] = thread["pending"]
    BY <1>5, <1>t, OtherThreads DEF SendCacheMessage
  <2>2. \A a \in Addresses : arbitrate_cache_map'[a] \in {arbitrate_cache_map[a], None}
    BY <1>5 DEF SendCacheMessage, EraseCacheMessage
  <2> QED BY <1>5, <2>1, <2>2 DEF SendCacheMessage, PendingUntouched
<1>6. ASSUME NEW w \in Senders, Forwards(w)
      PROVE  PendingUntouched
  <2>1. CASE CheckAndHandleMessage(w)
    BY <2>1, <1>t, OtherThreads DEF CheckAndHandleMessage, PendingUntouched
  <2>2. CASE ConnectServer(w) \/ ConnectServerFails(w)
    BY <2>2, <1>t, OtherThreads DEF ConnectServer, ConnectServerFails, PendingUntouched
  <2>3. CASE SendDiagnosticMessage(w) \/ SendDiagnosticMessageFails(w)
    BY <2>3, <1>t, OtherThreads
       DEF SendDiagnosticMessage, SendDiagnosticMessageFails, PendingUntouched
  <2> QED BY <1>6, <2>1, <2>2, <2>3 DEF Forwards
<1>7. ASSUME NEW w \in Threads, Finishes(w)
      PROVE  PendingUntouched
  <2>1. thread[w].at \notin {"remind", "rearm"}
    BY <1>7 DEF Finishes, EraseConversation, ArbitrateAddressFinish, KeepAddress
  <2>2. w # "pending" => thread'["pending"] = thread["pending"]
    BY <1>7, <1>t, OtherThreads
       DEF Finishes, EraseConversation, ArbitrateAddressFinish, KeepAddress
  <2> QED
    BY <1>7, <2>1, <2>2
       DEF Finishes, EraseConversation, ArbitrateAddressFinish, KeepAddress,
           PendingUntouched, Reminding
<1>8. ASSUME NEW p \in Processors,
             \/ \E message \in EcuMessages, a \in Addresses, r \in Requests :
                  HandleMessage(p, message, a, r)
             \/ Receives(p)
             \/ \E state \in BOOLEAN : GatewayRoutingStateChange(p, state)
      PROVE  PendingUntouched
  BY <1>8, <1>t, OtherThreads
     DEF HandleMessage, Receives, StopTimer, StartTimer, GatewayRoutingStateChange,
         PendingUntouched
<1>9. ASSUME NEW a \in Addresses,
             AcknowledgementTimeout(a) \/ ResponseTimeout(a) \/ ArbitrationTimeout(a)
      PROVE  PendingUntouched
  BY <1>9, <1>t, OtherThreads
     DEF AcknowledgementTimeout, ResponseTimeout, ArbitrationTimeout, PendingUntouched
<1>10. CASE ReleaseAddress
  BY <1>10, <1>t, OtherThreads DEF ReleaseAddress, PendingUntouched
<1> QED BY <1>1, <1>2, <1>3, <1>4, <1>5, <1>6, <1>7, <1>8, <1>9, <1>10 DEF Arbitrates

(* No step leaves a cached request without a reminder to come.             *)
LEMMA PendingStep ==
  ASSUME Typed, PendingKeepsAlive, [Next]_vars
  PROVE  PendingKeepsAlive'
<1> USE DEF PendingKeepsAlive, Handling
<1>t. "pending" \in Threads
  BY DEF Threads, TimerThreads
<1>1. CASE PendingUntouched
  <2> SUFFICES ASSUME NEW a \in Addresses, arbitrate_cache_map'[a] # None
               PROVE  \/ a \in pending_timer'
                      \/ thread'["pending"].at \in {"remind", "rearm"} /\ thread'["pending"].addr = a
                      \/ \E t \in Testers : Handling(t, {"arm"}, a)'
    OBVIOUS
  <2>1. arbitrate_cache_map[a] # None
    BY <1>1 DEF PendingUntouched
  <2>2. CASE a \in pending_timer \/ (Reminding /\ thread["pending"].addr = a)
    BY <1>1, <2>2 DEF PendingUntouched, Reminding
  <2>3. ASSUME NEW t \in Testers, Handling(t, {"arm"}, a)
        PROVE  Handling(t, {"arm"}, a)'
    BY <1>1, <2>3 DEF PendingUntouched
  <2> QED BY <2>1, <2>2, <2>3 DEF Reminding
<1>2. ASSUME NEW t \in Testers, ArbitrateCacheMessage(t)
      PROVE  PendingKeepsAlive'
  <2> DEFINE r == conversation[t].req
  <2>1. r \in Requests /\ TargetOf[r] \in Addresses
    BY <1>2, ConversationFacts, TargetFacts DEF ArbitrateCacheMessage
  <2>2. \A a \in Addresses : a # TargetOf[r] => arbitrate_cache_map'[a] = arbitrate_cache_map[a]
    BY <1>2 DEF ArbitrateCacheMessage, CacheMessage
  <2>3. /\ conversation'[t] = [at |-> "arm", req |-> r]
        /\ \A u \in Testers : u # t => conversation'[u] = conversation[u]
        /\ conversation[t].at = "pending"
    BY <1>2 DEF ArbitrateCacheMessage, Converse
  <2> SUFFICES ASSUME NEW a \in Addresses, a # TargetOf[r], arbitrate_cache_map'[a] # None
               PROVE  \/ a \in pending_timer'
                      \/ thread'["pending"].at \in {"remind", "rearm"} /\ thread'["pending"].addr = a
                      \/ \E u \in Testers : Handling(u, {"arm"}, a)'
    BY <2>3
  <2>4. UNCHANGED <<pending_timer, thread>>
    BY <1>2 DEF ArbitrateCacheMessage
  <2>5. ASSUME NEW u \in Testers, Handling(u, {"arm"}, a)
        PROVE  Handling(u, {"arm"}, a)'
    BY <2>3, <2>5
  <2> QED BY <2>2, <2>4, <2>5
<1>3. ASSUME NEW t \in Testers, StartP2Timer(t)
      PROVE  PendingKeepsAlive'
  <2>1. \A u \in Testers : u # t => conversation'[u] = conversation[u]
    BY <1>3 DEF StartP2Timer
  <2> QED BY <1>3, <2>1 DEF StartP2Timer, StartPendingTimer
<1>4. ASSUME NEW a \in Addresses, PendingTimeout(a)
      PROVE  PendingKeepsAlive'
  <2>1. thread["pending"].at = "idle" /\ thread'["pending"] = [at |-> "remind", addr |-> a, req |-> None]
    BY <1>4, <1>t DEF PendingTimeout, CanExpire, Go
  <2> QED BY <1>4, <2>1 DEF PendingTimeout
<1>5. CASE SendPendingMessage
  <2> DEFINE a == thread["pending"].addr
  <2>1. CASE HasCacheMessage(a)
    <3>1. thread'["pending"] = [at |-> "rearm", addr |-> a, req |-> None]
      BY <1>5, <1>t, <2>1 DEF SendPendingMessage, Go
    <3> QED BY <1>5, <3>1 DEF SendPendingMessage
  <2>2. CASE ~HasCacheMessage(a)
    BY <1>5, <2>2 DEF SendPendingMessage
  <2> QED BY <2>1, <2>2
<1>6. CASE StartP2StarTimer
  BY <1>6 DEF StartP2StarTimer, StartPendingTimer
<1>7. CASE UNCHANGED vars
  BY <1>7 DEF vars
<1> QED
  BY <1>1, <1>2, <1>3, <1>4, <1>5, <1>6, <1>7, PendingFrame DEF Next, Converses, Expires

(* No tester whose request waits in the cache is left without its 0x78:    *)
(* the P2 or P2* timer runs, or a thread is about to start it.             *)
THEOREM PendingAlive == Spec => []PendingKeepsAlive
<1>1. Init => PendingKeepsAlive
  BY DEF Init, ArbitrationInit, PendingKeepsAlive
<1>2. QED BY <1>1, PendingStep, TypedInvariant, PTL DEF Spec
=============================================================================
