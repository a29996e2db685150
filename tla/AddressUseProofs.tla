-------------------------- MODULE AddressUseProofs ---------------------------
(***************************************************************************)
(* The use of an address, for every set of addresses, testers and          *)
(* requests: one that works is owned by somebody who will finish it, and   *)
(* the answer it is awaited to give goes to the tester that asked.         *)
(***************************************************************************)
EXTENDS RequestLifeProofs

-----------------------------------------------------------------------------
(* Threads and addresses.                                                  *)

OwnerPositions == {"handle", "send", "popped", "start", "erase", "check", "keep"}

Owns(w, a) == thread[w].at \in OwnerPositions /\ thread[w].addr = a

(* Who the owners of an address are.                                       *)
LEMMA OwnersAre ==
  ASSUME TypeOK, NEW a \in Addresses
  PROVE  Owners(a) = {w \in Threads : Owns(w, a)}
<1>1. ASSUME NEW w \in Threads, thread[w].addr = a
      PROVE  thread[w].at \notin Aside \cup {"sending"} \cup EcuMessages <=> thread[w].at \in OwnerPositions
  BY <1>1, NamesAssumption
     DEF TypeOK, ThreadState, Idle, Aside, Routes, Waiting, Finishing, EcuMessages, OwnerPositions
<1> QED BY <1>1 DEF Owners, ThreadsOn, Owns

(* What a thread's step leaves as it was, and what it makes of the thread. *)
LEMMA ThreadMoves ==
  ASSUME Typed, NEW w \in Threads, NEW at, NEW a, NEW r, Go(w, at, a, r)
  PROVE  /\ thread'[w] = [at |-> at, addr |-> a, req |-> r]
         /\ thread'[w].at = at /\ thread'[w].addr = a /\ thread'[w].req = r
         /\ \A v \in Threads \ {w} : thread'[v] = thread[v]
<1>1. thread \in [Threads -> ThreadState]
  BY DEF Typed, TypeOK
<1> QED BY <1>1 DEF Go

(* The same of a thread that comes to rest.                                *)
LEMMA ThreadRests ==
  ASSUME Typed, NEW w \in Threads, Rest(w)
  PROVE  /\ thread'[w] = Idle
         /\ \A v \in Threads \ {w} : thread'[v] = thread[v]
<1>1. thread \in [Threads -> ThreadState]
  BY DEF Typed, TypeOK
<1> QED BY <1>1 DEF Rest

-----------------------------------------------------------------------------
(* WorkingIsOwned.                                                         *)

Owned(a) == \E w \in Threads : Owns(w, a)

Worked(a) == Pipelined(a) \/ Owned(a) \/ RefusedByRoute(a)

AllWorked == \A a \in Addresses : arbitrate_map[a] = "Working" => Worked(a)

(* What a step takes from an address is made up for.                       *)
WorkGoesOn(a) ==
  /\ Granted(a) => Worked(a)'
  /\ Queued(a) => Worked(a)'
  /\ Dispatching(a) => Worked(a)'
  /\ Awaiting(a) => Worked(a)'
  /\ Owned(a) => Worked(a)'

(* A request that a closed route has refused stays refused.                *)
LEMMA ClosedStays ==
  ASSUME Typed, Custody, [Next]_vars, NEW r \in Requests, outcome[r] = "closed"
  PROVE  outcome'[r] = "closed"
<1>1. Custody' /\ [Life!Next]_[q \in Requests |-> Stage(q)]
  BY NextKept DEF KeepsPromise
<1>2. StagesKnown /\ StagesKnown'
  BY <1>1, StagesAre, PTL
<1>3. Stage(r) = "closed"
  BY <1>2 DEF StagesKnown
<1>4. Stage(r)' = "closed"
  <2> DEFINE stage == [q \in Requests |-> Stage(q)]
  <2>1. stage[r] = "closed" /\ (Stage(r)' = stage'[r])
    BY <1>3
  <2>2. ASSUME NEW q \in Requests, NEW from, NEW to, Life!Move(q, from, to), "closed" \notin from
        PROVE  stage'[r] = stage[r]
    <3>1. stage[q] \in from /\ \E s \in to : stage' = [stage EXCEPT ![q] = s]
      BY <2>2 DEF Life!Move
    <3> QED BY <2>1, <2>2, <3>1
  <2>3. ASSUME NEW q \in Requests, Life!Wait(q)
        PROVE  stage'[r] = stage[r]
    BY <2>1, <2>3 DEF Life!Wait
  <2>4. stage'[r] = stage[r]
    <3>1. CASE UNCHANGED stage
      BY <3>1
    <3>2. ASSUME NEW q \in Requests,
                 Life!Arbitrate(q) \/ Life!Queue(q) \/ Life!Forward(q) \/ Life!Settle(q)
          PROVE  stage'[r] = stage[r]
      BY <2>2, <3>2 DEF Life!Arbitrate, Life!Queue, Life!Forward, Life!Settle
    <3> QED BY <1>1, <2>3, <3>1, <3>2 DEF Life!Next
  <2> QED BY <2>1, <2>4
<1>5. ASSUME outcome'[r] = "open"
      PROVE  FALSE
  <2>1. PICK s : Named(s, r)'
    BY <1>1, <1>5 DEF Custody, InPlace, Waits, Named
  <2>2. s # "closed"
    BY <2>1 DEF Named
  <2> QED BY <1>2, <1>4, <1>5, <2>1, <2>2 DEF StagesKnown
<1> QED BY <1>2, <1>4, <1>5 DEF StagesKnown

(* An address that goes on working is owned by somebody.                   *)
LEMMA WorkedKept ==
  ASSUME Typed, Custody, [Next]_vars, NEW a \in Addresses, Worked(a), WorkGoesOn(a)
  PROVE  Worked(a)'
<1>1. RefusedByRoute(a) => RefusedByRoute(a)'
  BY ClosedStays DEF RefusedByRoute
<1> QED BY <1>1 DEF Worked, WorkGoesOn, Pipelined

(* What a step does not touch works on.                                    *)
LEMMA Untouched ==
  ASSUME NEW a
  PROVE  /\ UNCHANGED conversation /\ Granted(a) => Worked(a)'
         /\ UNCHANGED routing_queue /\ Queued(a) => Worked(a)'
         /\ UNCHANGED arbitrate_address_queue /\ Dispatching(a) => Worked(a)'
         /\ UNCHANGED <<diagnostic_message_timer, receiving_timer>> /\ Awaiting(a) => Worked(a)'
         /\ UNCHANGED thread /\ Owned(a) => Worked(a)'
<1> USE DEF Worked, Pipelined
<1>1. UNCHANGED conversation => (Granted(a)' <=> Granted(a))
  BY DEF Granted, Handling
<1>2. UNCHANGED routing_queue => (Queued(a)' <=> Queued(a))
  BY DEF Queued
<1>3. UNCHANGED arbitrate_address_queue => (Dispatching(a)' <=> Dispatching(a))
  BY DEF Dispatching
<1>4. UNCHANGED <<diagnostic_message_timer, receiving_timer>> => (Awaiting(a)' <=> Awaiting(a))
  BY DEF Awaiting
<1>5. UNCHANGED thread => (Owned(a)' <=> Owned(a))
  BY DEF Owned, Owns
<1> QED BY <1>1, <1>2, <1>3, <1>4, <1>5

(* A thread's step leaves what the others own, and what it owns itself     *)
(* unless it moves away from it.                                           *)
LEMMA OwnedGoesOn ==
  ASSUME Typed, NEW w \in Threads, NEW a, Owned(a),
         Rest(w) \/ \E at, b, r : Go(w, at, b, r),
         ~Owns(w, a) \/ Worked(a)' \/ Owns(w, a)'
  PROVE  Worked(a)'
<1>1. \A v \in Threads \ {w} : thread'[v] = thread[v]
  BY ThreadMoves, ThreadRests
<1> QED BY <1>1 DEF Owned, Owns, Worked

(* A conversation's step hands the address on to the next place.           *)
LEMMA ConversationWorks ==
  ASSUME Typed, NEW t \in Testers, NEW a \in Addresses,
         Converses(t) \/ \E r \in Requests : HandlePhysicalMessage(t, r) \/ HandleFunctionalMessage(t, r)
  PROVE  /\ WorkGoesOn(a)
         /\ arbitrate_map'[a] = "Working" => arbitrate_map[a] = "Working" \/ Worked(a)'
<1> USE DEF arbitration_vars, routing_timer_vars, route_vars
<1>c. conversation \in [Testers -> ConversationState]
  BY DEF Typed, TypeOK
<1>1. CASE \E r \in Requests : HandlePhysicalMessage(t, r) \/ HandleFunctionalMessage(t, r)
  <2>1. /\ conversation[t].at = "idle" /\ \A u \in Testers : u # t => conversation'[u] = conversation[u]
        /\ UNCHANGED <<arbitrate_map, routing_queue, arbitrate_address_queue,
                       diagnostic_message_timer, receiving_timer, thread>>
    BY <1>c, <1>1 DEF HandlePhysicalMessage, HandleFunctionalMessage, Converse
  <2>2. Granted(a) => Granted(a)'
    BY <2>1 DEF Granted, Handling
  <2> QED BY <2>1, <2>2, Untouched DEF WorkGoesOn, Worked, Pipelined
<1>2. CASE StartWorking(t)
  <2>1. /\ conversation[t].at = "pass" /\ \A u \in Testers : u # t => conversation'[u] = conversation[u]
        /\ conversation'[t] = [at |-> "route", req |-> conversation[t].req]
        /\ UNCHANGED <<routing_queue, arbitrate_address_queue, diagnostic_message_timer,
                       receiving_timer, thread>>
        /\ arbitrate_map' = [arbitrate_map EXCEPT ![TargetOf[conversation[t].req]] = "Working"]
    BY <1>c, <1>2 DEF StartWorking, Converse, ArbitrateStart
  <2>2. Granted(a) => Granted(a)'
    BY <2>1 DEF Granted, Handling
  <2>3. a = TargetOf[conversation[t].req] => Granted(a)
    BY <2>1 DEF Granted, Handling
  <2>4. a # TargetOf[conversation[t].req] => arbitrate_map'[a] = arbitrate_map[a]
    BY <2>1 DEF Typed, TypeOK, ArbitrationTypeOK
  <2> QED BY <2>1, <2>2, <2>3, <2>4, Untouched DEF WorkGoesOn, Worked, Pipelined
<1>3. CASE RoutingMessage(t)
  <2>1. /\ \A u \in Testers : u # t => conversation'[u] = conversation[u]
        /\ UNCHANGED <<arbitrate_map, arbitrate_address_queue, diagnostic_message_timer,
                       receiving_timer, thread>>
        /\ routing_queue' = Append(routing_queue, conversation[t].req)
    BY <1>c, <1>3 DEF RoutingMessage, AddRoutingMessage
  <2>2. routing_queue \in Seq(Requests) /\ conversation[t].req \in Requests
    BY <1>3, ConversationFacts DEF RoutingMessage, Typed, TypeOK, RouteTypeOK
  <2>3. /\ \A i \in DOMAIN routing_queue : i \in DOMAIN routing_queue' /\ routing_queue'[i] = routing_queue[i]
        /\ Len(routing_queue) + 1 \in DOMAIN routing_queue'
        /\ routing_queue'[Len(routing_queue) + 1] = conversation[t].req
    BY <2>1, <2>2
  <2>4. (Queued(a) \/ TargetOf[conversation[t].req] = a) => Queued(a)'
    BY <2>3 DEF Queued
  <2>5. Granted(a) => Granted(a)' \/ Queued(a)'
    BY <2>1, <2>4 DEF Granted, Handling
  <2> QED BY <2>1, <2>4, <2>5, Untouched DEF WorkGoesOn, Worked, Pipelined
<1>4. CASE ArbitrateCacheMessage(t) \/ StartP2Timer(t)
  <2>1. /\ conversation[t].at \in {"pending", "arm"} /\ \A u \in Testers : u # t => conversation'[u] = conversation[u]
        /\ UNCHANGED <<arbitrate_map, routing_queue, arbitrate_address_queue,
                       diagnostic_message_timer, receiving_timer, thread>>
    BY <1>c, <1>4 DEF ArbitrateCacheMessage, StartP2Timer, Converse
  <2>2. Granted(a) => Granted(a)'
    BY <2>1 DEF Granted, Handling
  <2> QED BY <2>1, <2>2, Untouched DEF WorkGoesOn, Worked, Pipelined
<1> QED BY <1>1, <1>2, <1>3, <1>4 DEF Converses

(* So does the routing thread's (Routing::HandleRoutingMessage).           *)
LEMMA DispatchWorks ==
  ASSUME Typed, Dispatches, NEW a \in Addresses
  PROVE  WorkGoesOn(a) /\ UNCHANGED arbitrate_map
<1> USE DEF arbitration_vars, routing_timer_vars, route_vars, At
<1> DEFINE w == "routing"
<1>w. w \in Threads
  BY DEF Threads, Senders
<1>1. CASE HandleRoutingMessage
  <2> DEFINE r == Head(routing_queue)
  <2>1. /\ routing_queue \in Seq(Requests) /\ routing_queue # <<>> /\ routing_queue' = Tail(routing_queue)
        /\ thread[w].at = "idle" /\ Go(w, "handle", IF Physical(r) THEN TargetOf[r] ELSE None, r)
        /\ UNCHANGED <<arbitrate_map, conversation, arbitrate_address_queue,
                       diagnostic_message_timer, receiving_timer>>
    BY <1>1 DEF HandleRoutingMessage, Typed, TypeOK, RouteTypeOK
  <2>2. thread'[w] = [at |-> "handle", addr |-> IF Physical(r) THEN TargetOf[r] ELSE None, req |-> r]
    BY <1>w, <2>1, ThreadMoves
  <2>3. TargetOf[r] = a => Owned(a)'
    BY <1>w, <2>2, NamesAssumption DEF Owned, Owns, OwnerPositions, Physical
  <2>4. r = routing_queue[1]
    BY <2>1
  <2>5. \A i \in DOMAIN routing_queue : i = 1 \/ (i - 1 \in DOMAIN routing_queue' /\ routing_queue'[i - 1] = routing_queue[i])
    BY <2>1
  <2>6. Queued(a) => TargetOf[r] = a \/ Queued(a)'
    BY <2>4, <2>5 DEF Queued
  <2>7. Owned(a) => Worked(a)'
    <3>1. ~Owns(w, a)
      BY <2>1 DEF Owns, OwnerPositions
    <3> QED BY <1>w, <2>1, <3>1, OwnedGoesOn
  <2> QED BY <2>1, <2>3, <2>6, <2>7, Untouched DEF WorkGoesOn, Worked, Pipelined
<1>2. CASE HandleFunctionalRouting \/ BroadcastToGateways \/ BroadcastToNodes
  <2>1. /\ UNCHANGED <<arbitrate_map, conversation, routing_queue, arbitrate_address_queue,
                       diagnostic_message_timer, receiving_timer>>
        /\ Rest(w) \/ \E at, b, r : Go(w, at, b, r)
    BY <1>2 DEF HandleFunctionalRouting, BroadcastToGateways, BroadcastToNodes
  <2>2. ~Owns(w, a)
    <3>1. CASE HandleFunctionalRouting
      <4>1. thread[w].at = "handle" /\ TargetOf[thread[w].req] = Functional
        BY <3>1 DEF HandleFunctionalRouting, Physical
      <4>2. thread[w].addr # a
        BY <1>w, <4>1, NamesAssumption DEF Typed, Consistent, Physical
      <4> QED BY <4>2 DEF Owns
    <3>2. CASE BroadcastToGateways \/ BroadcastToNodes
      BY <3>2 DEF BroadcastToGateways, BroadcastToNodes, Owns, OwnerPositions
    <3> QED BY <1>2, <3>1, <3>2
  <2> QED BY <1>w, <2>1, <2>2, OwnedGoesOn, Untouched DEF WorkGoesOn
<1> QED BY <1>1, <1>2 DEF Dispatches

(* So does forwarding: a sender owns the address until the acknowledgement *)
(* is awaited, and again if sending fails; only a closed route keeps a     *)
(* request from finishing (GatewayRoute::CheckAndHandleMessage).           *)
LEMMA ForwardWorks ==
  ASSUME Typed, NEW w \in Senders, Forwards(w), NEW a \in Addresses
  PROVE  WorkGoesOn(a) /\ UNCHANGED arbitrate_map
<1> USE DEF arbitration_vars, routing_timer_vars, route_vars, At
<1> DEFINE b == thread[w].addr
           r == thread[w].req
<1>w. w \in Threads
  BY DEF Threads
<1>1. /\ UNCHANGED <<arbitrate_map, conversation, routing_queue, arbitrate_address_queue>>
      /\ Rest(w) \/ \E at, c, q : Go(w, at, c, q)
  BY DEF Forwards, CheckAndHandleMessage, ConnectServer, ConnectServerFails, SendDiagnosticMessage,
         SendDiagnosticMessageFails
<1>2. ASSUME NEW at, NEW q, Go(w, at, b, q)
      PROVE  thread'[w].at = at /\ thread'[w].addr = b
  BY <1>w, <1>2, ThreadMoves
<1>3. ASSUME b = a => Worked(a)', Awaiting(a) => Worked(a)'
      PROVE  WorkGoesOn(a)
  <2>1. Owned(a) => Worked(a)'
    BY <1>1, <1>3, <1>w, OwnedGoesOn DEF Owns
  <2> QED BY <1>1, <1>3, <2>1, Untouched DEF WorkGoesOn
<1>4. ASSUME thread'[w].at \in OwnerPositions, thread'[w].addr = b
      PROVE  b = a => Worked(a)'
  BY <1>4, <1>w DEF Worked, Owned, Owns
<1>5. CASE CheckAndHandleMessage(w)
  <2>1. r \in Requests /\ b = TargetOf[r] /\ outcome \in [Requests -> {"new", "open"} \cup Final]
    BY <1>5, <1>w, ThreadFacts DEF CheckAndHandleMessage, Typed, TypeOK, Consistent
  <2>2. CASE Settle(r, "closed")
    <3>1. outcome'[r] = "closed"
      BY <2>1, <2>2 DEF Settle
    <3>2. b = a => Worked(a)'
      BY <2>1, <3>1 DEF Worked, RefusedByRoute
    <3> QED BY <1>3, <1>5, <3>2, Untouched, <1>1 DEF CheckAndHandleMessage
  <2>3. CASE Go(w, "send", b, r)
    <3>1. b = a => Worked(a)'
      BY <1>2, <1>4, <2>3 DEF OwnerPositions
    <3> QED BY <1>3, <1>5, <3>1, Untouched, <1>1 DEF CheckAndHandleMessage
  <2> QED BY <1>5, <2>2, <2>3 DEF CheckAndHandleMessage
<1>6. CASE ConnectServer(w)
  <2>1. diagnostic_message_timer' = diagnostic_message_timer \cup {b} /\ receiving_timer' = receiving_timer \ {b}
    BY <1>6 DEF ConnectServer, StartReceving
  <2>2. (b = a \/ Awaiting(a)) => Awaiting(a)'
    BY <2>1 DEF Awaiting
  <2> QED BY <1>1, <1>3, <2>2 DEF Worked, Pipelined
<1>7. CASE ConnectServerFails(w)
  <2>1. b = a => Worked(a)'
    BY <1>2, <1>4, <1>7 DEF ConnectServerFails, OwnerPositions
  <2> QED BY <1>1, <1>3, <1>7, <2>1, Untouched DEF ConnectServerFails
<1>8. CASE SendDiagnosticMessage(w)
  <2>1. ~Owns(w, a)
    BY <1>8 DEF SendDiagnosticMessage, Owns, OwnerPositions
  <2>2. Owned(a) => Worked(a)'
    BY <1>1, <1>w, <2>1, OwnedGoesOn
  <2> QED BY <1>1, <1>8, <2>2, Untouched DEF SendDiagnosticMessage, WorkGoesOn
<1>9. CASE SendDiagnosticMessageFails(w)
  <2>1. b = a => Worked(a)'
    BY <1>2, <1>4, <1>9 DEF SendDiagnosticMessageFails, OwnerPositions
  <2>2. b # a /\ Awaiting(a) => Awaiting(a)'
    BY <1>9 DEF SendDiagnosticMessageFails, StopReceving, Awaiting
  <2>3. Awaiting(a) => Worked(a)'
    BY <2>1, <2>2 DEF Worked, Pipelined
  <2> QED BY <1>1, <1>3, <2>1, <2>3
<1> QED BY <1>1, <1>5, <1>6, <1>7, <1>8, <1>9 DEF Forwards

(* Ending a request hands the address on to the one that waits, or keeps   *)
(* it (Arbitration::ArbitrateAddressFinish).                               *)
LEMMA FinishWorks ==
  ASSUME Typed, NEW w \in Threads, Finishes(w), NEW a \in Addresses, arbitrate_map'[a] = "Working"
  PROVE  WorkGoesOn(a) /\ arbitrate_map[a] = "Working"
<1> USE DEF arbitration_vars, routing_timer_vars, route_vars, At
<1> DEFINE b == thread[w].addr
<1>1. b \in Addresses /\ thread[w].at \in Finishing
  BY ThreadFacts DEF Finishes, EraseConversation, ArbitrateAddressFinish, KeepAddress, Finishing, Typed
<1>2. /\ UNCHANGED <<conversation, routing_queue, diagnostic_message_timer, receiving_timer>>
      /\ Rest(w) \/ \E at, c, q : Go(w, at, c, q)
  BY DEF Finishes, EraseConversation, ArbitrateAddressFinish, KeepAddress
<1>3. ASSUME Dispatching(a) => Worked(a)', b = a => Worked(a)'
      PROVE  WorkGoesOn(a)
  <2>1. Owned(a) => Worked(a)'
    BY <1>2, <1>3, OwnedGoesOn DEF Owns
  <2> QED BY <1>2, <1>3, <2>1, Untouched DEF WorkGoesOn
<1>4. ASSUME NEW at \in OwnerPositions, NEW q, Go(w, at, b, q)
      PROVE  b = a => Worked(a)'
  <2>1. thread'[w].at = at /\ thread'[w].addr = b
    BY <1>4 DEF Go, Typed, TypeOK
  <2> QED BY <2>1 DEF Worked, Owned, Owns
<1>5. CASE EraseConversation(w)
  BY <1>3, <1>4, <1>5, Untouched DEF EraseConversation, OwnerPositions
<1>6. CASE ArbitrateAddressFinish(w)
  <2>1. CASE Go(w, "keep", b, None) /\ UNCHANGED arbitrate_address_queue
    BY <1>3, <1>4, <1>6, <2>1, Untouched DEF ArbitrateAddressFinish, OwnerPositions
  <2>2. CASE arbitrate_address_queue' = Append(arbitrate_address_queue, b)
    <3>1. arbitrate_address_queue \in Seq(Addresses)
      BY DEF Typed, TypeOK, ArbitrationTypeOK
    <3>2. /\ \A i \in DOMAIN arbitrate_address_queue :
               i \in DOMAIN arbitrate_address_queue' /\ arbitrate_address_queue'[i] = arbitrate_address_queue[i]
          /\ Len(arbitrate_address_queue) + 1 \in DOMAIN arbitrate_address_queue'
          /\ arbitrate_address_queue'[Len(arbitrate_address_queue) + 1] = b
      BY <1>1, <2>2, <3>1
    <3>3. (Dispatching(a) \/ b = a) => Dispatching(a)'
      BY <3>2 DEF Dispatching
    <3> QED BY <1>3, <1>6, <3>3 DEF ArbitrateAddressFinish, Worked, Pipelined
  <2> QED BY <1>6, <2>1, <2>2 DEF ArbitrateAddressFinish, AddArbitrateAddress
<1>7. CASE KeepAddress(w)
  <2>1. b # a /\ arbitrate_map[a] = "Working" /\ UNCHANGED arbitrate_address_queue
    BY <1>1, <1>7 DEF KeepAddress, ArbitrateAddressKeeping, Typed, TypeOK, ArbitrationTypeOK
  <2> QED BY <1>3, <2>1, Untouched
<1> QED BY <1>5, <1>6, <1>7 DEF Finishes, EraseConversation, ArbitrateAddressFinish

(* The arbitrating thread owns the address it has taken from its queue     *)
(* (Arbitration::HandleArbitrateAddressQueue, SendCacheMessage).           *)
LEMMA ArbitrateWorks ==
  ASSUME Typed, Arbitrates, NEW a \in Addresses
  PROVE  WorkGoesOn(a) /\ UNCHANGED arbitrate_map
<1> USE DEF arbitration_vars, routing_timer_vars, route_vars, At
<1> DEFINE w == "arbitrating"
<1>w. w \in Threads
  BY DEF Threads, Senders
<1>1. /\ UNCHANGED <<arbitrate_map, conversation, routing_queue, diagnostic_message_timer, receiving_timer>>
      /\ \E at, b, r : Go(w, at, b, r)
  BY DEF Arbitrates, HandleArbitrateAddressQueue, SendCacheMessage
<1>2. CASE HandleArbitrateAddressQueue
  <2> DEFINE b == Head(arbitrate_address_queue)
  <2>1. /\ arbitrate_address_queue \in Seq(Addresses) /\ arbitrate_address_queue # <<>>
        /\ arbitrate_address_queue' = Tail(arbitrate_address_queue) /\ thread[w].at = "idle"
    BY <1>2 DEF HandleArbitrateAddressQueue, PopArbitrateAddress, Typed, TypeOK, ArbitrationTypeOK
  <2>2. thread'[w].at = "popped" /\ thread'[w].addr = b
    BY <1>2, <1>w DEF HandleArbitrateAddressQueue, Go, Typed, TypeOK
  <2>3. b = arbitrate_address_queue[1]
    BY <2>1
  <2>4. \A i \in DOMAIN arbitrate_address_queue :
          i = 1 \/ (i - 1 \in DOMAIN arbitrate_address_queue' /\ arbitrate_address_queue'[i - 1] = arbitrate_address_queue[i])
    BY <2>1
  <2>5. Dispatching(a) => b = a \/ Dispatching(a)'
    BY <2>3, <2>4 DEF Dispatching
  <2>6. b = a => Owned(a)'
    BY <1>w, <2>2 DEF Owned, Owns, OwnerPositions
  <2>7. Owned(a) => Worked(a)'
    <3>1. ~Owns(w, a)
      BY <2>1 DEF Owns, OwnerPositions
    <3> QED BY <1>1, <1>w, <3>1, OwnedGoesOn
  <2>8. Dispatching(a) => Worked(a)'
    BY <2>5, <2>6 DEF Worked, Pipelined
  <2> QED BY <1>1, <2>7, <2>8, Untouched DEF WorkGoesOn
<1>3. CASE SendCacheMessage
  <2> DEFINE b == thread[w].addr
  <2>1. thread'[w].at \in {"handle", "keep"} /\ thread'[w].addr = b /\ UNCHANGED arbitrate_address_queue
    BY <1>3, <1>w DEF SendCacheMessage, Go, Typed, TypeOK
  <2>2. b = a => Worked(a)'
    BY <1>w, <2>1 DEF Worked, Owned, Owns, OwnerPositions
  <2>3. Owned(a) => Worked(a)'
    BY <1>1, <1>w, <2>2, OwnedGoesOn DEF Owns
  <2> QED BY <1>1, <2>1, <2>3, Untouched DEF WorkGoesOn
<1> QED BY <1>1, <1>2, <1>3 DEF Arbitrates

(* A timer that is stopped, or expires, leaves its thread to go on with    *)
(* the address (HandleMessage, the timeouts of RoutingTimer).              *)
LEMMA AnswerWorks ==
  ASSUME Typed, NEW a \in Addresses,
         \/ \E p \in Processors, message \in EcuMessages, b \in Addresses, r \in Requests :
              HandleMessage(p, message, b, r)
         \/ \E p \in Processors : Receives(p)
         \/ \E b \in Addresses : AcknowledgementTimeout(b) \/ ResponseTimeout(b)
  PROVE  WorkGoesOn(a) /\ UNCHANGED arbitrate_map
<1> USE DEF arbitration_vars, routing_timer_vars, route_vars, At
<1>1. UNCHANGED <<arbitrate_map, conversation, routing_queue, arbitrate_address_queue>>
  BY DEF HandleMessage, Receives, StopTimer, StartTimer, AcknowledgementTimeout, ResponseTimeout
<1>2. ASSUME NEW w \in Threads, Rest(w) \/ \E at, b, r : Go(w, at, b, r), ~Owns(w, a) \/ Worked(a)',
             Awaiting(a) => Worked(a)'
      PROVE  WorkGoesOn(a)
  <2>1. Owned(a) => Worked(a)'
    BY <1>2, OwnedGoesOn
  <2> QED BY <1>1, <1>2, <2>1, Untouched DEF WorkGoesOn
<1>3. ASSUME NEW w \in Threads, NEW at \in {"start", "erase"}, NEW b, Go(w, at, b, None),
             \A c \in Addresses \ {b} : Awaiting(c) => Awaiting(c)', thread[w].at \notin OwnerPositions
      PROVE  WorkGoesOn(a)
  <2>1. thread'[w].at = at /\ thread'[w].addr = b
    BY <1>3 DEF Go, Typed, TypeOK
  <2>2. b = a => Worked(a)'
    BY <2>1 DEF Worked, Owned, Owns, OwnerPositions
  <2>3. b # a /\ Awaiting(a) => Worked(a)'
    BY <1>3 DEF Worked, Pipelined
  <2> QED BY <1>2, <1>3, <2>2, <2>3 DEF Owns
<1>4. ASSUME NEW p \in Processors, NEW message \in EcuMessages, NEW b \in Addresses, NEW r \in Requests,
             HandleMessage(p, message, b, r)
      PROVE  WorkGoesOn(a)
  <2>1. p \in Threads /\ ~Owns(p, a) /\ Go(p, message, b, None)
    BY <1>4 DEF HandleMessage, Owns, OwnerPositions, Threads
  <2> QED BY <1>2, <1>4, <2>1, Untouched DEF HandleMessage
<1>5. ASSUME NEW p \in Processors, StopTimer(p)
      PROVE  WorkGoesOn(a)
  <2> DEFINE b == thread[p].addr
  <2>1. p \in Threads /\ thread[p].at \notin OwnerPositions
    BY <1>5 DEF StopTimer, OwnerPositions, EcuMessages, Threads
  <2>2. PICK at \in {"start", "erase"} : Go(p, at, b, None)
    BY <1>5 DEF StopTimer
  <2>3. \A c \in Addresses \ {b} : Awaiting(c) => Awaiting(c)'
    BY <1>5 DEF StopTimer, StopTested, Awaiting
  <2> QED BY <1>3, <2>1, <2>2, <2>3
<1>6. ASSUME NEW p \in Processors, StartTimer(p)
      PROVE  WorkGoesOn(a)
  <2> DEFINE b == thread[p].addr
  <2>1. p \in Threads /\ receiving_timer' = receiving_timer \cup {b} /\ UNCHANGED diagnostic_message_timer
    BY <1>6 DEF StartTimer, StartReceivingTimer, Threads
  <2>2. (b = a \/ Awaiting(a)) => Awaiting(a)'
    BY <2>1 DEF Awaiting
  <2>3. (b = a \/ Awaiting(a)) => Worked(a)'
    BY <2>2 DEF Worked, Pipelined
  <2> QED BY <1>2, <1>6, <2>1, <2>3 DEF StartTimer, Owns
<1>7. ASSUME NEW b \in Addresses, AcknowledgementTimeout(b) \/ ResponseTimeout(b)
      PROVE  WorkGoesOn(a)
  <2>1. PICK w \in {"diagnostic_message", "receiving"} :
          thread[w].at = "idle" /\ Go(w, "erase", b, None)
    BY <1>7 DEF AcknowledgementTimeout, ResponseTimeout, CanExpire
  <2>2. w \in Threads /\ thread[w].at \notin OwnerPositions
    BY <2>1 DEF Threads, TimerThreads, OwnerPositions
  <2>3. \A c \in Addresses \ {b} : Awaiting(c) => Awaiting(c)'
    BY <1>7 DEF AcknowledgementTimeout, ResponseTimeout, DiagnosticMessageTimeout, ReceivingTimeout, Awaiting
  <2> QED BY <1>3, <2>1, <2>2, <2>3
<1> QED BY <1>1, <1>4, <1>5, <1>6, <1>7 DEF Receives

(* What the other threads do is nothing to an address that works: they     *)
(* release it, or remind a tester.                                         *)
LEMMA RestWorks ==
  ASSUME Typed, NEW a \in Addresses, arbitrate_map'[a] = "Working",
         \/ \E p \in Processors, state \in BOOLEAN : GatewayRoutingStateChange(p, state)
         \/ \E b \in Addresses : ArbitrationTimeout(b) \/ PendingTimeout(b)
         \/ ReleaseAddress \/ SendPendingMessage \/ StartP2StarTimer
  PROVE  WorkGoesOn(a) /\ arbitrate_map[a] = "Working"
<1> USE DEF arbitration_vars, routing_timer_vars, route_vars, At
<1>1. UNCHANGED <<conversation, routing_queue, arbitrate_address_queue, diagnostic_message_timer, receiving_timer>>
  BY DEF GatewayRoutingStateChange, ArbitrationTimeout, PendingTimeout, ReleaseAddress,
         SendPendingMessage, StartP2StarTimer
<1>2. ASSUME NEW w \in {"arbitration", "pending"}, thread[w].at \in {"idle", "release", "remind", "rearm"},
             Rest(w) \/ \E at, b, r : Go(w, at, b, r)
      PROVE  WorkGoesOn(a)
  <2>1. w \in Threads /\ ~Owns(w, a)
    BY <1>2 DEF Threads, TimerThreads, Owns, OwnerPositions
  <2>2. Owned(a) => Worked(a)'
    BY <1>2, <2>1, OwnedGoesOn
  <2> QED BY <1>1, <2>2, Untouched DEF WorkGoesOn
<1>3. CASE \E p \in Processors, state \in BOOLEAN : GatewayRoutingStateChange(p, state)
  BY <1>1, <1>3, Untouched DEF GatewayRoutingStateChange, WorkGoesOn
<1>4. CASE \E b \in Addresses : ArbitrationTimeout(b) \/ PendingTimeout(b)
  <2>1. PICK w \in {"arbitration", "pending"} : thread[w].at = "idle" /\ \E at, b, r : Go(w, at, b, r)
    BY <1>4 DEF ArbitrationTimeout, PendingTimeout, CanExpire
  <2>2. UNCHANGED arbitrate_map
    BY <1>4 DEF ArbitrationTimeout, PendingTimeout
  <2> QED BY <1>2, <2>1, <2>2
<1>5. CASE ReleaseAddress
  <2>1. arbitrate_map[a] = "Working"
    BY <1>5 DEF ReleaseAddress, ArbitrateRelease, Typed, TypeOK, ArbitrationTypeOK
  <2> QED BY <1>2, <1>5, <2>1 DEF ReleaseAddress
<1>6. CASE SendPendingMessage \/ StartP2StarTimer
  BY <1>2, <1>6 DEF SendPendingMessage, StartP2StarTimer
<1> QED BY <1>3, <1>4, <1>5, <1>6

(* No step leaves a working address to nobody.                             *)
LEMMA WorkedStep ==
  ASSUME Typed, Custody, AllWorked, [Next]_vars
  PROVE  AllWorked'
<1> SUFFICES ASSUME NEW a \in Addresses, arbitrate_map'[a] = "Working"
             PROVE  Worked(a)'
  BY DEF AllWorked
<1>1. CASE UNCHANGED vars
  BY <1>1, WorkedKept, Untouched DEF vars, arbitration_vars, routing_timer_vars, route_vars, AllWorked, WorkGoesOn
<1>2. CASE Next
  <2>1. WorkGoesOn(a) /\ (arbitrate_map[a] = "Working" \/ Worked(a)')
    BY <1>2, ConversationWorks, DispatchWorks, ForwardWorks, FinishWorks, ArbitrateWorks, AnswerWorks, RestWorks
       DEF Next, Expires
  <2> QED BY <1>2, <2>1, WorkedKept DEF AllWorked
<1> QED BY <1>1, <1>2

(* A working address has a request on its way to the ECU, an answer that   *)
(* is awaited, or a thread about to hand it on, but where a closed route   *)
(* has refused a request (GatewayRoute does not finish the address).       *)
THEOREM WorkingOwned == Spec => []WorkingIsOwned
<1>1. Init => AllWorked
  BY DEF Init, ArbitrationInit, AllWorked
<1>2. Typed /\ AllWorked => WorkingIsOwned
  BY OwnersAre DEF Typed, AllWorked, WorkingIsOwned, Worked, Owned
<1>3. QED BY <1>1, <1>2, WorkedStep, TypedInvariant, CustodyInvariant, PTL DEF Spec

-----------------------------------------------------------------------------
(* AnswerGoesHome: an address that was never granted twice at a time has   *)
(* either one request on its way to the ECU, or uses of a request that was *)
(* forwarded, and never both.                                              *)

Prepares(w, a) == thread[w].at \in {"handle", "send"} /\ thread[w].addr = a
Uses(w, a) ==
  /\ thread[w].at \in {"sending", "popped", "start", "erase", "check", "keep"} \cup EcuMessages
  /\ thread[w].addr = a

Prepared(a) == \E w \in Threads : Prepares(w, a)
Used(a) == \E w \in Threads : Uses(w, a)
Ending(a) == \E w \in Threads : thread[w].at \in {"popped", "check", "keep"} /\ thread[w].addr = a
Reacting(a) == \E w \in Threads : thread[w].at \in {"start"} \cup EcuMessages /\ thread[w].addr = a

Coming(a) == Granted(a) \/ Queued(a) \/ Prepared(a)
Forwarded(a) == Dispatching(a) \/ Awaiting(a) \/ Used(a)

GrantedOnce(a) ==
  \A t, u \in Testers : Handling(t, {"pass", "route"}, a) /\ Handling(u, {"pass", "route"}, a) => t = u

QueuedOnce(a) ==
  \A i, j \in DOMAIN routing_queue :
    TargetOf[routing_queue[i]] = a /\ TargetOf[routing_queue[j]] = a => i = j

PreparedOnce(a) == \A v, w \in Threads : Prepares(v, a) /\ Prepares(w, a) => v = w

Alone(a) ==
  /\ GrantedOnce(a) /\ QueuedOnce(a) /\ PreparedOnce(a)
  /\ Granted(a) => ~Queued(a) /\ ~Prepared(a)
  /\ Queued(a) => ~Prepared(a)
  /\ Coming(a) => ~Forwarded(a)

(* A request that is about to be sent has told the route its tester.       *)
Announced(a) ==
  \A w \in Threads : thread[w].at = "send" /\ thread[w].addr = a =>
    transmit_map[a] = TesterOf[thread[w].req]

(* The answer to a request that was sent, until somebody has handed the    *)
(* address on.                                                             *)
Answering(a) ==
  /\ arbitrate_map[a] = "Working"
  /\ ~Dispatching(a) /\ ~Ending(a)
  /\ Awaiting(a) \/ Reacting(a)

AtHome(a) ==
  Answering(a) => receving_info[a] \in Requests /\ transmit_map[a] = TesterOf[receving_info[a]]

Home(a) == Alone(a) /\ Announced(a) /\ AtHome(a)

AllHome == \A a \in Addresses \ shared : Home(a)

(* An address is in use as InUse says.                                     *)
LEMMA UseIs ==
  ASSUME TypeOK, NEW a \in Addresses
  PROVE  /\ ThreadsOn(a) = {w \in Threads : Prepares(w, a) \/ Uses(w, a)}
         /\ InUse(a) <=> Coming(a) \/ Forwarded(a)
<1>1. ASSUME NEW w \in Threads, thread[w].addr = a
      PROVE  thread[w].at \notin Aside <=>
               thread[w].at \in {"handle", "send", "sending", "popped", "start", "erase", "check", "keep"} \cup EcuMessages
  BY <1>1, NamesAssumption
     DEF TypeOK, ThreadState, Idle, Aside, Routes, Waiting, Finishing, EcuMessages
<1>2. ThreadsOn(a) = {w \in Threads : Prepares(w, a) \/ Uses(w, a)}
  BY <1>1 DEF ThreadsOn, Prepares, Uses
<1> QED BY <1>2 DEF InUse, Pipelined, Coming, Forwarded, Prepared, Used

(* A step that takes part in nothing of address a, as far as its thread    *)
(* goes: the thread was not at work on a before, and is not after.         *)
Uninvolved(w, a) == ~Prepares(w, a) /\ ~Uses(w, a)

ThreadsSame(a) ==
  /\ PreparedOnce(a) => PreparedOnce(a)'
  /\ Prepared(a)' <=> Prepared(a)
  /\ Used(a)' <=> Used(a)
  /\ Ending(a)' <=> Ending(a)
  /\ Reacting(a)' <=> Reacting(a)
  /\ transmit_map'[a] = transmit_map[a] => (Announced(a) => Announced(a)')

(* A thread that is not at work on an address leaves its use as it is.     *)
LEMMA ThreadAside ==
  ASSUME Typed, NEW w \in Threads, NEW a, Rest(w) \/ \E at, b, r : Go(w, at, b, r),
         Uninvolved(w, a), Uninvolved(w, a)'
  PROVE  ThreadsSame(a)
<1>1. \A v \in Threads \ {w} : thread'[v] = thread[v]
  BY ThreadMoves, ThreadRests
<1>2. PreparedOnce(a) => PreparedOnce(a)'
  BY <1>1 DEF Uninvolved, PreparedOnce, Prepares
<1>3. (Prepared(a)' <=> Prepared(a)) /\ (Used(a)' <=> Used(a))
  BY <1>1 DEF Uninvolved, Prepared, Used, Prepares, Uses
<1>4. (Ending(a)' <=> Ending(a)) /\ (Reacting(a)' <=> Reacting(a))
  BY <1>1 DEF Uninvolved, Ending, Reacting, Uses
<1>5. transmit_map'[a] = transmit_map[a] => (Announced(a) => Announced(a)')
  BY <1>1 DEF Uninvolved, Announced, Prepares
<1> QED BY <1>2, <1>3, <1>4, <1>5 DEF ThreadsSame

(* And so does a step of no thread.                                        *)
LEMMA ThreadsStay ==
  ASSUME UNCHANGED thread, NEW a
  PROVE  ThreadsSame(a)
BY DEF ThreadsSame, PreparedOnce, Prepared, Used, Ending, Reacting, Announced, Prepares, Uses

PlacesSame(a) ==
  /\ Granted(a)' <=> Granted(a)
  /\ Queued(a)' <=> Queued(a)
  /\ GrantedOnce(a) => GrantedOnce(a)'
  /\ QueuedOnce(a) => QueuedOnce(a)'

(* The conversations and the routing queue keep what they have.            *)
LEMMA PlacesStay ==
  ASSUME UNCHANGED <<conversation, routing_queue>>, NEW a
  PROVE  PlacesSame(a)
BY DEF PlacesSame, Granted, Handling, Queued, GrantedOnce, QueuedOnce

(* What a step must leave alone for the answers of an address to go home   *)
(* as before.                                                              *)
LEMMA HomeStays ==
  ASSUME NEW a, Home(a), ThreadsSame(a), PlacesSame(a),
         Dispatching(a)' <=> Dispatching(a), Awaiting(a)' <=> Awaiting(a),
         transmit_map'[a] = transmit_map[a], receving_info'[a] = receving_info[a],
         arbitrate_map'[a] = "Working" => arbitrate_map[a] = "Working"
  PROVE  Home(a)'
<1>1. Alone(a)'
  BY DEF Home, Alone, Coming, Forwarded, ThreadsSame, PlacesSame
<1>2. Announced(a)'
  BY DEF Home, ThreadsSame
<1>3. AtHome(a)'
  BY DEF Home, AtHome, Answering, ThreadsSame
<1> QED BY <1>1, <1>2, <1>3 DEF Home

NothingComes == \A a : ~Coming(a) /\ AtHome(a) => Home(a)

(* Nothing more is needed once no request is on its way.                   *)
LEMMA NothingComing == NothingComes
BY DEF NothingComes, Coming, Granted, Queued, Prepared, Home, Alone, Announced, GrantedOnce, QueuedOnce,
       PreparedOnce, Prepares

Others(w) == \A v \in Threads \ {w} : thread'[v] = thread[v]

(* What a thread does with an address once its request was forwarded, or   *)
(* given up.                                                               *)
LEMMA ForwardedHome ==
  ASSUME NEW w \in Threads, Others(w), NEW a, Home(a), UNCHANGED <<conversation, routing_queue>>,
         Forwarded(a) \/ Prepares(w, a), ~Prepares(w, a)', AtHome(a)'
  PROVE  Home(a)'
<1>1. ~Granted(a) /\ ~Queued(a) /\ \A v \in Threads \ {w} : ~Prepares(v, a)
  BY DEF Home, Alone, Coming, Prepared, PreparedOnce
<1>2. ~Prepared(a)'
  BY <1>1 DEF Others, Prepared, Prepares
<1>3. ~Granted(a)' /\ ~Queued(a)'
  BY <1>1 DEF Granted, Handling, Queued
<1>4. NothingComes'
  BY NothingComing, PTL
<1> QED BY <1>2, <1>3, <1>4 DEF NothingComes, Coming

(* A thread that goes on with an answer, and does not begin another.       *)
LEMMA AnswersOn ==
  ASSUME NEW w \in Threads, Others(w), NEW a, Home(a), UNCHANGED <<conversation, routing_queue>>,
         Forwarded(a), ~Prepares(w, a)',
         transmit_map'[a] = transmit_map[a], receving_info'[a] = receving_info[a],
         UNCHANGED <<arbitrate_map, arbitrate_address_queue>>,
         thread[w].at \notin {"popped", "check", "keep"} \/ thread[w].addr # a,
         Awaiting(a)' \/ thread'[w].at \in {"start"} \cup EcuMessages => Awaiting(a) \/ Reacting(a)
  PROVE  Home(a)'
<1>1. Dispatching(a) => Dispatching(a)'
  BY DEF Dispatching
<1>2. Ending(a) => Ending(a)'
  BY DEF Ending, Others
<1>3. Reacting(a)' => Reacting(a) \/ thread'[w].at \in {"start"} \cup EcuMessages
  BY DEF Reacting, Others
<1>4. Answering(a)' => Answering(a)
  BY <1>1, <1>2, <1>3 DEF Answering
<1>5. AtHome(a)'
  BY <1>4 DEF Home, AtHome
<1> QED BY <1>5, ForwardedHome

(* A request that comes alone, to an address of which nothing is awaited.  *)
ComesAlone(a) ==
  /\ GrantedOnce(a) /\ QueuedOnce(a) /\ PreparedOnce(a)
  /\ Granted(a) => ~Queued(a) /\ ~Prepared(a)
  /\ Queued(a) => ~Prepared(a)
  /\ Announced(a)
  /\ ~Dispatching(a) /\ ~Awaiting(a) /\ ~Used(a)

AloneIsHome == \A a : ComesAlone(a) => Home(a)

(* It is at home: there is no answer yet.                                  *)
LEMMA ComesHome == AloneIsHome
<1>1. \A a : Reacting(a) => Used(a)
  BY DEF Reacting, Used, Uses
<1> QED BY <1>1 DEF AloneIsHome, ComesAlone, Home, Alone, Forwarded, AtHome, Answering

(* An address that is granted while it is in use counts as shared, so the  *)
(* others get one request at a time (Conversation::HandleMessage).         *)
LEMMA RequestHome ==
  ASSUME Typed, NEW t \in Testers, NEW r \in Requests,
         HandlePhysicalMessage(t, r) \/ HandleFunctionalMessage(t, r),
         NEW a \in Addresses \ shared, Home(a), a \notin shared'
  PROVE  Home(a)'
<1> USE DEF arbitration_vars, routing_timer_vars, route_vars
<1>1. /\ conversation \in [Testers -> ConversationState] /\ conversation[t].at = "idle"
      /\ UNCHANGED <<arbitrate_map, arbitrate_address_queue, diagnostic_message_timer, receiving_timer,
                     receving_info, transmit_map, routing_queue, thread>>
  BY DEF HandlePhysicalMessage, HandleFunctionalMessage, Typed, TypeOK
<1>2. ThreadsSame(a) /\ (Dispatching(a)' <=> Dispatching(a)) /\ (Awaiting(a)' <=> Awaiting(a))
  BY <1>1, ThreadsStay DEF Dispatching, Awaiting
<1>3. \A u \in Testers : u # t => conversation'[u] = conversation[u]
  BY <1>1 DEF HandlePhysicalMessage, HandleFunctionalMessage, Converse
<1>4. CASE ~Handling(t, {"pass", "route"}, a)'
  <2>1. \A u \in Testers : Handling(u, {"pass", "route"}, a)' <=> Handling(u, {"pass", "route"}, a)
    BY <1>1, <1>3, <1>4 DEF Handling
  <2>2. PlacesSame(a)
    BY <1>1, <2>1 DEF PlacesSame, Granted, GrantedOnce, Queued, QueuedOnce
  <2> QED BY <1>1, <1>2, <2>2, HomeStays
<1>5. CASE Handling(t, {"pass", "route"}, a)'
  <2>1. conversation'[t].req = r /\ TargetOf[r] = a
    BY <1>1, <1>5 DEF Handling, HandlePhysicalMessage, HandleFunctionalMessage, Converse
  <2>2. HandlePhysicalMessage(t, r)
    BY <2>1, NamesAssumption DEF HandleFunctionalMessage, Physical
  <2>3. ~InUse(a)
    <3>1. CASE Converse(t, "pending", r) \/ UNCHANGED conversation
      BY <1>1, <1>5, <3>1 DEF Converse, Handling
    <3>2. CASE shared' = IF InUse(a) THEN shared \cup {a} ELSE shared
      BY <3>2
    <3> QED BY <2>1, <2>2, <3>1, <3>2 DEF HandlePhysicalMessage
  <2>4. ~Coming(a) /\ ~Forwarded(a)
    BY <2>3, UseIs DEF Typed
  <2>5. GrantedOnce(a)'
    BY <1>3, <2>4 DEF GrantedOnce, Handling, Coming, Granted
  <2>6. ~Queued(a)' /\ ~Prepared(a)' /\ ~Used(a)'
    BY <1>1, <2>4 DEF Coming, Queued, Prepared, Prepares, Forwarded, Used, Uses
  <2>7. QueuedOnce(a)' /\ PreparedOnce(a)' /\ Announced(a)'
    BY <2>6 DEF QueuedOnce, Queued, PreparedOnce, Prepared, Announced, Prepares
  <2>8. ComesAlone(a)'
    BY <1>2, <2>4, <2>5, <2>6, <2>7 DEF ComesAlone, Forwarded
  <2>9. AloneIsHome'
    BY ComesHome, PTL
  <2> QED BY <2>8, <2>9 DEF AloneIsHome
<1> QED BY <1>4, <1>5

(* The request goes on alone into the routing queue                        *)
(* (Routing::RoutingMessage), or waits in the cache.                       *)
LEMMA ConversationHome ==
  ASSUME Typed, NEW t \in Testers, Converses(t), NEW a \in Addresses, Home(a)
  PROVE  Home(a)'
<1> USE DEF arbitration_vars, routing_timer_vars, route_vars
<1>1. /\ conversation \in [Testers -> ConversationState] /\ routing_queue \in Seq(Requests)
      /\ UNCHANGED <<arbitrate_address_queue, diagnostic_message_timer, receiving_timer,
                     receving_info, transmit_map, thread>>
      /\ arbitrate_map \in [Addresses -> ArbitrateState]
  BY DEF Converses, StartWorking, RoutingMessage, ArbitrateCacheMessage, StartP2Timer, Typed, TypeOK,
         RouteTypeOK, ArbitrationTypeOK
<1>2. ThreadsSame(a) /\ (Dispatching(a)' <=> Dispatching(a)) /\ (Awaiting(a)' <=> Awaiting(a))
  BY <1>1, ThreadsStay DEF Dispatching, Awaiting
<1>3. \A u \in Testers : u # t => conversation'[u] = conversation[u]
  BY <1>1 DEF Converses, StartWorking, RoutingMessage, ArbitrateCacheMessage, StartP2Timer, Converse
<1>4. AloneIsHome'
  BY ComesHome, PTL
<1>5. ASSUME PlacesSame(a), Granted(a)
      PROVE  Home(a)'
  <2>1. ComesAlone(a)'
    BY <1>2, <1>5 DEF ComesAlone, Home, Alone, Coming, Forwarded, ThreadsSame, PlacesSame,
                      Announced, Prepared, Prepares
  <2> QED BY <1>4, <2>1 DEF AloneIsHome
<1>6. CASE StartWorking(t) \/ ArbitrateCacheMessage(t) \/ StartP2Timer(t)
  <2>1. UNCHANGED routing_queue
    BY <1>6 DEF StartWorking, ArbitrateCacheMessage, StartP2Timer
  <2>2. \A u \in Testers : Handling(u, {"pass", "route"}, a)' <=> Handling(u, {"pass", "route"}, a)
    <3>1. Handling(t, {"pass", "route"}, a)' <=> Handling(t, {"pass", "route"}, a)
      BY <1>1, <1>6 DEF StartWorking, ArbitrateCacheMessage, StartP2Timer, Converse, Handling, Free
    <3> QED BY <1>3, <3>1 DEF Handling
  <2>3. PlacesSame(a)
    BY <2>1, <2>2 DEF PlacesSame, Granted, GrantedOnce, Queued, QueuedOnce
  <2>4. CASE arbitrate_map'[a] = arbitrate_map[a]
    BY <1>1, <1>2, <2>3, <2>4, HomeStays
  <2>5. CASE arbitrate_map'[a] # arbitrate_map[a]
    <3>1. Granted(a)
      BY <1>1, <1>6, <2>5 DEF StartWorking, ArbitrateStart, ArbitrateCacheMessage, StartP2Timer, Granted, Handling
    <3> QED BY <1>5, <2>3, <3>1
  <2> QED BY <2>4, <2>5
<1>7. CASE RoutingMessage(t)
  <2> DEFINE r == conversation[t].req
             n == Len(routing_queue)
  <2>1. /\ conversation[t].at = "route" /\ conversation'[t].at = "idle" /\ r \in Requests
        /\ routing_queue' = Append(routing_queue, r) /\ UNCHANGED arbitrate_map
    BY <1>1, <1>7, ConversationFacts DEF RoutingMessage, AddRoutingMessage, Free, Typed
  <2>2. /\ n \in Nat /\ DOMAIN routing_queue = 1..n /\ DOMAIN routing_queue' = 1..(n + 1)
        /\ \A i \in DOMAIN routing_queue : routing_queue'[i] = routing_queue[i]
        /\ routing_queue'[n + 1] = r
    BY <1>1, <2>1
  <2>3. CASE TargetOf[r] = a
    <3>1. Handling(t, {"pass", "route"}, a) /\ Granted(a)
      BY <2>1, <2>3 DEF Handling, Granted
    <3>2. ~Queued(a) /\ ~Prepared(a) /\ ~Dispatching(a) /\ ~Awaiting(a) /\ ~Used(a) /\ GrantedOnce(a)
      BY <3>1 DEF Home, Alone, Coming, Forwarded
    <3>3. \A u \in Testers : ~Handling(u, {"pass", "route"}, a)'
      BY <1>3, <2>1, <3>1, <3>2 DEF GrantedOnce, Handling
    <3>4. ~Granted(a)' /\ GrantedOnce(a)'
      BY <3>3 DEF Granted, GrantedOnce
    <3>5. QueuedOnce(a)'
      BY <2>2, <3>2 DEF QueuedOnce, Queued
    <3>6. ~Prepared(a)' /\ ~Used(a)' /\ PreparedOnce(a)' /\ Announced(a)'
      BY <1>1, <1>2, <3>2 DEF ThreadsSame, Home, Alone
    <3>7. ComesAlone(a)'
      BY <1>2, <3>2, <3>4, <3>5, <3>6 DEF ComesAlone
    <3> QED BY <1>4, <3>7 DEF AloneIsHome
  <2>4. CASE TargetOf[r] # a
    <3>1. \A u \in Testers : Handling(u, {"pass", "route"}, a)' <=> Handling(u, {"pass", "route"}, a)
      BY <1>3, <2>1, <2>4 DEF Handling
    <3>2. (Granted(a)' <=> Granted(a)) /\ (GrantedOnce(a) => GrantedOnce(a)')
      BY <3>1 DEF Granted, GrantedOnce
    <3>3. (Queued(a)' <=> Queued(a)) /\ (QueuedOnce(a) => QueuedOnce(a)')
      BY <2>2, <2>4 DEF Queued, QueuedOnce
    <3>4. PlacesSame(a)
      BY <3>2, <3>3 DEF PlacesSame
    <3> QED BY <1>1, <1>2, <2>1, <3>4, HomeStays
  <2> QED BY <2>3, <2>4
<1> QED BY <1>6, <1>7 DEF Converses

(* The routing thread takes it out of the queue; what it broadcasts is for *)
(* no address of its own (Routing::HandleRoutingMessage).                  *)
LEMMA DispatchHome ==
  ASSUME Typed, Dispatches, NEW a \in Addresses \ shared, Home(a), a \notin shared'
  PROVE  Home(a)'
<1> USE DEF arbitration_vars, routing_timer_vars, route_vars, At
<1> DEFINE w == "routing"
<1>w. w \in Threads
  BY DEF Threads, Senders
<1>1. /\ UNCHANGED <<arbitrate_map, conversation, arbitrate_address_queue, diagnostic_message_timer,
                     receiving_timer, receving_info>>
      /\ Rest(w) \/ \E at, b, r : Go(w, at, b, r)
  BY DEF Dispatches, HandleRoutingMessage, HandleFunctionalRouting, BroadcastToGateways, BroadcastToNodes
<1>2. (Dispatching(a)' <=> Dispatching(a)) /\ (Awaiting(a)' <=> Awaiting(a))
  BY <1>1 DEF Dispatching, Awaiting
<1>3. CASE HandleRoutingMessage
  <2> DEFINE r == Head(routing_queue)
             n == Len(routing_queue)
  <2>1. /\ routing_queue \in Seq(Requests) /\ routing_queue # <<>> /\ routing_queue' = Tail(routing_queue)
        /\ thread[w].at = "idle" /\ Go(w, "handle", IF Physical(r) THEN TargetOf[r] ELSE None, r)
        /\ UNCHANGED transmit_map
    BY <1>3 DEF HandleRoutingMessage, Typed, TypeOK, RouteTypeOK
  <2>2. thread'[w] = [at |-> "handle", addr |-> IF Physical(r) THEN TargetOf[r] ELSE None, req |-> r]
    BY <1>w, <2>1, ThreadMoves
  <2>3. /\ n \in Nat /\ n > 0 /\ DOMAIN routing_queue = 1..n /\ DOMAIN routing_queue' = 1..(n - 1)
        /\ \A i \in 1..(n - 1) : routing_queue'[i] = routing_queue[i + 1]
        /\ r = routing_queue[1]
    BY <2>1
  <2>4. (Granted(a)' <=> Granted(a)) /\ (GrantedOnce(a) => GrantedOnce(a)')
    BY <1>1 DEF Granted, GrantedOnce, Handling
  <2>5. QueuedOnce(a) => QueuedOnce(a)'
    BY <2>3 DEF QueuedOnce
  <2>6. CASE TargetOf[r] = a
    <3>1. Queued(a)
      BY <2>3, <2>6 DEF Queued
    <3>2. ~Granted(a) /\ ~Prepared(a) /\ ~Dispatching(a) /\ ~Awaiting(a) /\ ~Used(a) /\ QueuedOnce(a)
      BY <3>1 DEF Home, Alone, Coming, Forwarded
    <3>3. ~Queued(a)'
      <4>1. ASSUME NEW i \in DOMAIN routing_queue', TargetOf[routing_queue'[i]] = a
            PROVE  FALSE
        <5>1. i + 1 \in DOMAIN routing_queue /\ TargetOf[routing_queue[i + 1]] = a
          BY <2>3, <4>1
        <5>2. 1 \in DOMAIN routing_queue /\ TargetOf[routing_queue[1]] = a
          BY <2>3, <2>6
        <5>3. i + 1 = 1
          BY <3>2, <5>1, <5>2 DEF QueuedOnce
        <5> QED BY <2>3, <4>1, <5>3
      <4> QED BY <4>1 DEF Queued
    <3>4. Others(w) /\ thread'[w].at = "handle"
      BY <1>w, <2>1, <2>2, ThreadMoves DEF Others
    <3>5. \A v \in Threads \ {w} : ~Prepares(v, a)' /\ ~Uses(v, a)'
      BY <3>2, <3>4 DEF Others, Prepared, Prepares, Used, Uses
    <3>6. PreparedOnce(a)' /\ Announced(a)' /\ ~Used(a)'
      BY <3>4, <3>5 DEF PreparedOnce, Announced, Used, Uses, Prepares, EcuMessages
    <3>7. ComesAlone(a)'
      BY <1>2, <2>4, <2>5, <3>2, <3>3, <3>6 DEF ComesAlone, Home, Alone
    <3>8. AloneIsHome'
      BY ComesHome, PTL
    <3> QED BY <3>7, <3>8 DEF AloneIsHome
  <2>7. CASE TargetOf[r] # a
    <3>1. Uninvolved(w, a) /\ Uninvolved(w, a)'
      BY <2>1, <2>2, <2>7, NamesAssumption DEF Uninvolved, Prepares, Uses, EcuMessages
    <3>2. ThreadsSame(a)
      BY <1>1, <1>w, <3>1, ThreadAside
    <3>3. Queued(a)' <=> Queued(a)
      <4>1. Queued(a)' => Queued(a)
        BY <2>3 DEF Queued
      <4>2. ASSUME NEW i \in DOMAIN routing_queue, TargetOf[routing_queue[i]] = a
            PROVE  Queued(a)'
        <5>1. i # 1 /\ i - 1 \in 1..(n - 1)
          BY <2>3, <2>7, <4>2
        <5> QED BY <2>3, <4>2, <5>1 DEF Queued
      <4> QED BY <4>1, <4>2 DEF Queued
    <3>4. PlacesSame(a)
      BY <2>4, <2>5, <3>3 DEF PlacesSame
    <3> QED BY <1>1, <1>2, <2>1, <3>2, <3>4, HomeStays
  <2> QED BY <2>6, <2>7
<1>4. CASE HandleFunctionalRouting \/ BroadcastToGateways \/ BroadcastToNodes
  <2>1. UNCHANGED <<conversation, routing_queue>>
    BY <1>4 DEF HandleFunctionalRouting, BroadcastToGateways, BroadcastToNodes
  <2>2. Uninvolved(w, a)
    <3>1. CASE HandleFunctionalRouting
      <4>1. thread[w].addr # a
        BY <1>w, <3>1, NamesAssumption DEF HandleFunctionalRouting, Typed, Consistent, Physical
      <4> QED BY <4>1 DEF Uninvolved, Prepares, Uses
    <3>2. CASE BroadcastToGateways \/ BroadcastToNodes
      BY <3>2 DEF BroadcastToGateways, BroadcastToNodes, Uninvolved, Prepares, Uses, EcuMessages
    <3> QED BY <1>4, <3>1, <3>2
  <2>3. thread'[w].at \in {"Gateway", "Node", "idle"}
    BY <1>4, <1>w DEF HandleFunctionalRouting, BroadcastToGateways, BroadcastToNodes, Go, Rest, Idle, Typed, TypeOK
  <2>4. Uninvolved(w, a)'
    BY <2>3 DEF Uninvolved, Prepares, Uses, EcuMessages
  <2>5. transmit_map'[a] = transmit_map[a]
    <3>1. ASSUME NEW k, NEW r, TakeOver(k, r)
          PROVE  transmit_map'[a] = transmit_map[a]
      BY <3>1 DEF TakeOver, SetAllTransmitConversationIds
    <3>2. CASE BroadcastToNodes
      BY <3>2 DEF BroadcastToNodes
    <3> QED BY <1>4, <3>1, <3>2 DEF HandleFunctionalRouting, BroadcastToGateways
  <2>6. ThreadsSame(a) /\ PlacesSame(a)
    BY <1>1, <1>w, <2>1, <2>2, <2>4, ThreadAside, PlacesStay
  <2> QED BY <1>1, <1>2, <2>5, <2>6, HomeStays
<1> QED BY <1>3, <1>4 DEF Dispatches

(* A sender tells the route its tester before it sends, and sends what the *)
(* route was told (CheckAndHandleMessage, RoutingTimer::StartReceving).    *)
LEMMA ForwardHome ==
  ASSUME Typed, NEW w \in Senders, Forwards(w), NEW a \in Addresses, Home(a)
  PROVE  Home(a)'
<1> USE DEF arbitration_vars, routing_timer_vars, route_vars, At
<1> DEFINE b == thread[w].addr
           r == thread[w].req
<1>w. w \in Threads
  BY DEF Threads
<1>1. /\ UNCHANGED <<arbitrate_map, conversation, routing_queue, arbitrate_address_queue>>
      /\ Rest(w) \/ \E at, q : Go(w, at, b, q)
      /\ thread[w].at \in {"handle", "send", "sending"}
  BY DEF Forwards, CheckAndHandleMessage, ConnectServer, ConnectServerFails, SendDiagnosticMessage,
         SendDiagnosticMessageFails
<1>2. Others(w) /\ thread'[w].addr \in {b, None}
  <2>1. Others(w)
    BY <1>w, <1>1, ThreadMoves, ThreadRests DEF Others
  <2>2. ASSUME NEW at, NEW q, Go(w, at, b, q)
        PROVE  thread'[w].addr = b
    BY <1>w, <2>2, ThreadMoves
  <2>3. Rest(w) => thread'[w].addr = None
    BY <1>w, ThreadRests DEF Idle
  <2> QED BY <1>1, <2>1, <2>2, <2>3
<1>3. transmit_map \in [Addresses -> Testers \cup {None}] /\ receving_info \in [Addresses -> Requests \cup {None}]
  BY DEF Typed, TypeOK, RouteTypeOK, RoutingTimerTypeOK
<1>4. CASE b # a
  <2>1. Uninvolved(w, a) /\ Uninvolved(w, a)'
    BY <1>2, <1>4, NamesAssumption DEF Uninvolved, Prepares, Uses
  <2>2. ThreadsSame(a) /\ PlacesSame(a)
    BY <1>1, <1>w, <2>1, ThreadAside, PlacesStay
  <2>3. Dispatching(a)' <=> Dispatching(a)
    BY <1>1 DEF Dispatching
  <2>4. Awaiting(a)' <=> Awaiting(a)
    BY <1>4 DEF Forwards, CheckAndHandleMessage, ConnectServer, ConnectServerFails, SendDiagnosticMessage,
                SendDiagnosticMessageFails, StartReceving, StopReceving, Awaiting
  <2>5. receving_info'[a] = receving_info[a]
    BY <1>3, <1>4 DEF Forwards, CheckAndHandleMessage, ConnectServer, ConnectServerFails, SendDiagnosticMessage,
                      SendDiagnosticMessageFails, StartReceving, StopReceving
  <2>6. transmit_map'[a] = transmit_map[a]
    BY <1>3, <1>4 DEF Forwards, CheckAndHandleMessage, ConnectServer, ConnectServerFails, SendDiagnosticMessage,
                      SendDiagnosticMessageFails, SetTransmitConversationId
  <2> QED BY <1>1, <2>2, <2>3, <2>4, <2>5, <2>6, HomeStays
<1>5. CASE b = a
  <2>1. CASE CheckAndHandleMessage(w)
    <3>1. Prepares(w, a)
      BY <1>5, <2>1 DEF CheckAndHandleMessage, Prepares
    <3>2. UNCHANGED <<diagnostic_message_timer, receiving_timer, receving_info>>
      BY <2>1 DEF CheckAndHandleMessage
    <3>3. ~Forwarded(a) /\ ~Granted(a) /\ ~Queued(a) /\ \A v \in Threads \ {w} : ~Prepares(v, a)
      BY <1>w, <3>1 DEF Home, Alone, Coming, Prepared, PreparedOnce
    <3>4. thread'[w].at \in {"idle", "send"}
      BY <1>w, <2>1 DEF CheckAndHandleMessage, Go, Rest, Idle, Typed, TypeOK
    <3>5. ~Uses(w, a)'
      BY <3>4 DEF Uses, EcuMessages
    <3>6. ~Dispatching(a)' /\ ~Awaiting(a)' /\ ~Used(a)'
      BY <1>1, <1>2, <3>2, <3>3, <3>5 DEF Forwarded, Dispatching, Awaiting, Used, Uses, Others
    <3>7. ~Granted(a)' /\ ~Queued(a)' /\ GrantedOnce(a)' /\ QueuedOnce(a)'
      BY <1>1, <3>3 DEF Granted, Handling, Queued, GrantedOnce, QueuedOnce
    <3>8. \A v \in Threads \ {w} : ~Prepares(v, a)'
      BY <1>2, <3>3 DEF Others, Prepares
    <3>9. PreparedOnce(a)'
      BY <3>8 DEF PreparedOnce
    <3>10. thread'[w].at = "send" => transmit_map'[a] = TesterOf[thread'[w].req]
      <4>1. CASE Rest(w)
        BY <1>w, <4>1, ThreadRests DEF Idle
      <4>2. CASE Go(w, "send", b, r) /\ transmit_map' = [transmit_map EXCEPT ![b] = TesterOf[r]]
        <5>1. thread'[w].req = r
          BY <1>w, <4>2, ThreadMoves
        <5> QED BY <1>3, <1>5, <4>2, <5>1
      <4> QED BY <2>1, <4>1, <4>2 DEF CheckAndHandleMessage, SetTransmitConversationId
    <3>11. Announced(a)'
      BY <3>8, <3>10 DEF Announced, Prepares
    <3>12. ComesAlone(a)'
      BY <3>6, <3>7, <3>9, <3>11 DEF ComesAlone
    <3>13. AloneIsHome'
      BY ComesHome, PTL
    <3> QED BY <3>12, <3>13 DEF AloneIsHome
  <2>2. CASE ConnectServer(w)
    <3>1. Prepares(w, a) /\ thread[w].at = "send"
      BY <1>5, <2>2 DEF ConnectServer, Prepares
    <3>2. transmit_map[a] = TesterOf[r]
      BY <1>w, <1>5, <3>1 DEF Home, Announced
    <3>3. thread'[w].at = "sending"
      BY <1>w, <2>2, ThreadMoves DEF ConnectServer
    <3>4. receving_info'[a] = r /\ transmit_map' = transmit_map /\ r \in Requests
      BY <1>w, <1>3, <1>5, <2>2, ThreadFacts DEF ConnectServer, StartReceving, Typed
    <3>5. AtHome(a)'
      BY <3>2, <3>4 DEF AtHome
    <3> QED BY <1>1, <1>w, <1>2, <3>1, <3>3, <3>5, ForwardedHome DEF Prepares
  <2>3. CASE ConnectServerFails(w)
    <3>1. Prepares(w, a)
      BY <1>5, <2>3 DEF ConnectServerFails, Prepares
    <3>2. ~Forwarded(a)
      BY <1>w, <3>1 DEF Home, Alone, Coming, Prepared
    <3>3. thread'[w].at = "erase"
      BY <1>w, <2>3, ThreadMoves DEF ConnectServerFails
    <3>4. ~Awaiting(a)'
      BY <2>3, <3>2 DEF ConnectServerFails, Forwarded, Awaiting
    <3>5. ~Reacting(a)'
      BY <1>2, <3>2, <3>3 DEF Others, Forwarded, Used, Uses, Reacting, EcuMessages
    <3>6. AtHome(a)'
      BY <3>4, <3>5 DEF AtHome, Answering
    <3> QED BY <1>1, <1>w, <1>2, <3>1, <3>3, <3>6, ForwardedHome DEF Prepares
  <2>4. CASE SendDiagnosticMessage(w) \/ SendDiagnosticMessageFails(w)
    <3>1. thread[w].at = "sending"
      BY <2>4 DEF SendDiagnosticMessage, SendDiagnosticMessageFails
    <3>2. Forwarded(a)
      BY <1>w, <1>5, <3>1 DEF Forwarded, Used, Uses
    <3>3. thread'[w].at \in {"idle", "erase"}
      BY <1>w, <2>4 DEF SendDiagnosticMessage, SendDiagnosticMessageFails, Go, Rest, Idle, Typed, TypeOK
    <3>4. Awaiting(a)' => Awaiting(a)
      BY <2>4 DEF SendDiagnosticMessage, SendDiagnosticMessageFails, StopReceving, Awaiting
    <3>5. UNCHANGED <<receving_info, transmit_map>>
      BY <2>4 DEF SendDiagnosticMessage, SendDiagnosticMessageFails, StopReceving
    <3> QED BY <1>1, <1>w, <1>2, <3>1, <3>2, <3>3, <3>4, <3>5, AnswersOn DEF Prepares, EcuMessages
  <2> QED BY <2>1, <2>2, <2>3, <2>4 DEF Forwards
<1> QED BY <1>4, <1>5

(* Whoever ends a request makes an end of its answer first                 *)
(* (HandleRoutingFinish, Arbitration::ArbitrateAddressFinish).             *)
LEMMA FinishHome ==
  ASSUME Typed, NEW w \in Threads, Finishes(w), NEW a \in Addresses, Home(a)
  PROVE  Home(a)'
<1> USE DEF arbitration_vars, routing_timer_vars, route_vars, At
<1> DEFINE b == thread[w].addr
<1>1. /\ UNCHANGED <<conversation, routing_queue, diagnostic_message_timer, receiving_timer, receving_info>>
      /\ Rest(w) \/ \E at, q : Go(w, at, b, q)
      /\ thread[w].at \in Finishing
  BY DEF Finishes, EraseConversation, ArbitrateAddressFinish, KeepAddress, Finishing
<1>2. Others(w) /\ thread'[w].addr \in {b, None} /\ b \in Addresses
  <2>1. Others(w)
    BY <1>1, ThreadMoves, ThreadRests DEF Others
  <2>2. ASSUME NEW at, NEW q, Go(w, at, b, q)
        PROVE  thread'[w].addr = b
    BY <2>2, ThreadMoves
  <2>3. Rest(w) => thread'[w].addr = None
    BY ThreadRests DEF Idle
  <2>4. b \in Addresses
    BY <1>1, ThreadFacts DEF Typed
  <2> QED BY <1>1, <2>1, <2>2, <2>3, <2>4
<1>3. /\ arbitrate_map \in [Addresses -> ArbitrateState] /\ arbitrate_address_queue \in Seq(Addresses)
      /\ transmit_map \in [Addresses -> Testers \cup {None}]
  BY DEF Typed, TypeOK, ArbitrationTypeOK, RouteTypeOK
<1>4. ASSUME arbitrate_address_queue' = Append(arbitrate_address_queue, b)
      PROVE  Dispatching(a)' <=> Dispatching(a) \/ b = a
  <2>1. /\ DOMAIN arbitrate_address_queue = 1..Len(arbitrate_address_queue)
        /\ DOMAIN arbitrate_address_queue' = 1..(Len(arbitrate_address_queue) + 1)
        /\ \A i \in DOMAIN arbitrate_address_queue : arbitrate_address_queue'[i] = arbitrate_address_queue[i]
        /\ arbitrate_address_queue'[Len(arbitrate_address_queue) + 1] = b /\ Len(arbitrate_address_queue) \in Nat
    BY <1>2, <1>3, <1>4
  <2> QED BY <2>1 DEF Dispatching
<1>5. \/ UNCHANGED arbitrate_address_queue
      \/ arbitrate_address_queue' = Append(arbitrate_address_queue, b)
  BY DEF Finishes, EraseConversation, ArbitrateAddressFinish, KeepAddress, AddArbitrateAddress
<1>6. CASE b # a
  <2>1. Uninvolved(w, a) /\ Uninvolved(w, a)'
    BY <1>2, <1>6, NamesAssumption DEF Uninvolved, Prepares, Uses
  <2>2. ThreadsSame(a) /\ PlacesSame(a)
    BY <1>1, <2>1, ThreadAside, PlacesStay
  <2>3. (Dispatching(a)' <=> Dispatching(a)) /\ (Awaiting(a)' <=> Awaiting(a))
    BY <1>1, <1>4, <1>5, <1>6 DEF Dispatching, Awaiting
  <2>4. arbitrate_map'[a] = arbitrate_map[a]
    BY <1>3, <1>6 DEF Finishes, EraseConversation, ArbitrateAddressFinish, KeepAddress, ArbitrateAddressKeeping
  <2>5. transmit_map'[a] = transmit_map[a]
    BY <1>3, <1>6 DEF Finishes, EraseConversation, ArbitrateAddressFinish, KeepAddress,
                      EraseTransmitConversationId
  <2> QED BY <1>1, <2>2, <2>3, <2>4, <2>5, HomeStays
<1>7. CASE b = a
  <2>1. Forwarded(a)
    BY <1>1, <1>7 DEF Forwarded, Used, Uses, Finishing
  <2>2. ~Prepares(w, a)'
    BY DEF Finishes, EraseConversation, ArbitrateAddressFinish, KeepAddress, Go, Rest, Idle, Prepares, Typed, TypeOK
  <2>3. ASSUME NEW at \in {"check", "keep"}, NEW q, Go(w, at, b, q)
        PROVE  Ending(a)'
    <3>1. thread'[w].at = at /\ thread'[w].addr = b
      BY <2>3, ThreadMoves
    <3> QED BY <1>7, <3>1 DEF Ending
  <2>4. ~Answering(a)'
    <3>1. CASE EraseConversation(w)
      BY <2>3, <3>1 DEF EraseConversation, Answering
    <3>2. CASE ArbitrateAddressFinish(w)
      BY <1>4, <1>7, <2>3, <3>2 DEF ArbitrateAddressFinish, AddArbitrateAddress, Answering
    <3>3. CASE KeepAddress(w)
      <4>1. arbitrate_map'[a] = "Keeping"
        BY <1>3, <1>7, <3>3 DEF KeepAddress, ArbitrateAddressKeeping
      <4> QED BY <4>1 DEF Answering
    <3> QED BY <3>1, <3>2, <3>3 DEF Finishes
  <2>5. AtHome(a)'
    BY <2>4 DEF AtHome
  <2> QED BY <1>1, <1>2, <2>1, <2>2, <2>5, ForwardedHome
<1> QED BY <1>6, <1>7

(* The cached request of an address is sent when the one before has ended, *)
(* or the address counts as shared (Arbitration::SendCacheMessage).        *)
LEMMA ArbitrateHome ==
  ASSUME Typed, Arbitrates, NEW a \in Addresses \ shared, Home(a), a \notin shared'
  PROVE  Home(a)'
<1> USE DEF arbitration_vars, routing_timer_vars, route_vars, At
<1> DEFINE w == "arbitrating"
<1>w. w \in Threads
  BY DEF Threads, Senders
<1>1. /\ UNCHANGED <<arbitrate_map, conversation, routing_queue, diagnostic_message_timer, receiving_timer,
                     receving_info, transmit_map>>
      /\ \E at, b, r : Go(w, at, b, r)
  BY DEF Arbitrates, HandleArbitrateAddressQueue, SendCacheMessage
<1>2. Others(w)
  BY <1>w, <1>1, ThreadMoves DEF Others
<1>3. Awaiting(a)' <=> Awaiting(a)
  BY <1>1 DEF Awaiting
<1>4. ASSUME thread'[w].at \in {"popped", "keep"}, thread'[w].addr = a, Forwarded(a)
      PROVE  Home(a)'
  <2>1. Ending(a)' /\ ~Prepares(w, a)'
    BY <1>w, <1>4 DEF Ending, Prepares
  <2>2. AtHome(a)'
    BY <2>1 DEF AtHome, Answering
  <2> QED BY <1>1, <1>2, <1>4, <1>w, <2>1, <2>2, ForwardedHome
<1>5. CASE HandleArbitrateAddressQueue
  <2> DEFINE q == arbitrate_address_queue
             b == Head(q)
             n == Len(q)
  <2>1. /\ q \in Seq(Addresses) /\ q # <<>> /\ arbitrate_address_queue' = Tail(q) /\ thread[w].at = "idle"
    BY <1>5 DEF HandleArbitrateAddressQueue, PopArbitrateAddress, Typed, TypeOK, ArbitrationTypeOK
  <2>2. /\ n \in Nat /\ n > 0 /\ DOMAIN q = 1..n /\ DOMAIN arbitrate_address_queue' = 1..(n - 1)
        /\ \A i \in 1..(n - 1) : arbitrate_address_queue'[i] = q[i + 1]
        /\ b = q[1]
    BY <2>1
  <2>3. thread'[w].at = "popped" /\ thread'[w].addr = b
    BY <1>5, <1>w DEF HandleArbitrateAddressQueue, Go, Typed, TypeOK
  <2>4. CASE b = a
    <3>1. Forwarded(a)
      BY <2>2, <2>4 DEF Forwarded, Dispatching
    <3> QED BY <1>4, <2>3, <2>4, <3>1
  <2>5. CASE b # a
    <3>1. Uninvolved(w, a) /\ Uninvolved(w, a)'
      BY <2>1, <2>3, <2>5 DEF Uninvolved, Prepares, Uses, EcuMessages
    <3>2. ThreadsSame(a) /\ PlacesSame(a)
      BY <1>1, <1>w, <3>1, ThreadAside, PlacesStay
    <3>3. Dispatching(a)' <=> Dispatching(a)
      <4>1. Dispatching(a)' => Dispatching(a)
        BY <2>2 DEF Dispatching
      <4>2. ASSUME NEW i \in DOMAIN q, q[i] = a
            PROVE  Dispatching(a)'
        <5>1. i # 1 /\ i - 1 \in 1..(n - 1)
          BY <2>2, <2>5, <4>2
        <5> QED BY <2>2, <4>2, <5>1 DEF Dispatching
      <4> QED BY <4>1, <4>2 DEF Dispatching
    <3> QED BY <1>1, <1>3, <3>2, <3>3, HomeStays
  <2> QED BY <2>4, <2>5
<1>6. CASE SendCacheMessage
  <2> DEFINE b == thread[w].addr
  <2>1. thread[w].at = "popped" /\ UNCHANGED arbitrate_address_queue
    BY <1>6 DEF SendCacheMessage
  <2>2. thread'[w].at \in {"handle", "keep"} /\ thread'[w].addr = b
    BY <1>6, <1>w DEF SendCacheMessage, Go, Typed, TypeOK
  <2>3. Dispatching(a)' <=> Dispatching(a)
    BY <2>1 DEF Dispatching
  <2>4. CASE b # a
    <3>1. Uninvolved(w, a) /\ Uninvolved(w, a)'
      BY <2>2, <2>4 DEF Uninvolved, Prepares, Uses
    <3>2. ThreadsSame(a) /\ PlacesSame(a)
      BY <1>1, <1>w, <3>1, ThreadAside, PlacesStay
    <3> QED BY <1>1, <1>3, <2>3, <3>2, HomeStays
  <2>5. CASE b = a /\ thread'[w].at = "keep"
    <3>1. Forwarded(a)
      BY <1>w, <2>1, <2>5 DEF Forwarded, Used, Uses
    <3> QED BY <1>4, <2>2, <2>5, <3>1
  <2>6. CASE b = a /\ thread'[w].at = "handle"
    <3>1. shared' = IF Pipelined(a) \/ ThreadsOn(a) # {w} THEN shared \cup {a} ELSE shared
      <4>1. ASSUME Go(w, "keep", b, None)
            PROVE  FALSE
        <5>1. thread'[w].at = "keep"
          BY <1>w, <4>1, ThreadMoves
        <5> QED BY <2>6, <5>1
      <4> QED BY <1>6, <2>6, <4>1 DEF SendCacheMessage
    <3>2. ~Pipelined(a) /\ \A v \in Threads \ {w} : ~Prepares(v, a) /\ ~Uses(v, a)
      BY <3>1, UseIs DEF Typed
    <3>3. ~Granted(a)' /\ ~Queued(a)' /\ GrantedOnce(a)' /\ QueuedOnce(a)'
      BY <1>1, <3>2 DEF Pipelined, Granted, Handling, Queued, GrantedOnce, QueuedOnce
    <3>4. \A v \in Threads \ {w} : ~Prepares(v, a)' /\ ~Uses(v, a)'
      BY <1>2, <3>2 DEF Others, Prepares, Uses
    <3>5. ~Uses(w, a)'
      BY <2>6 DEF Uses, EcuMessages
    <3>6. PreparedOnce(a)' /\ ~Used(a)'
      BY <3>4, <3>5 DEF PreparedOnce, Used
    <3>7. Announced(a)'
      BY <2>6, <3>4 DEF Announced, Prepares
    <3>8. ~Dispatching(a)' /\ ~Awaiting(a)'
      BY <1>3, <2>3, <3>2 DEF Pipelined
    <3>9. ComesAlone(a)'
      BY <3>3, <3>6, <3>7, <3>8 DEF ComesAlone
    <3>10. AloneIsHome'
      BY ComesHome, PTL
    <3> QED BY <3>9, <3>10 DEF AloneIsHome
  <2> QED BY <2>2, <2>4, <2>5, <2>6
<1> QED BY <1>5, <1>6 DEF Arbitrates

(* The ECU's messages and the timeouts go on with an answer that is        *)
(* awaited, and begin none (HandleMessage, the timeouts of RoutingTimer).  *)
LEMMA AnswerHome ==
  ASSUME Typed, NEW a \in Addresses, Home(a),
         \/ \E p \in Processors, message \in EcuMessages, b \in Addresses, r \in Requests :
              HandleMessage(p, message, b, r)
         \/ \E p \in Processors : Receives(p)
         \/ \E b \in Addresses : AcknowledgementTimeout(b) \/ ResponseTimeout(b)
  PROVE  Home(a)'
<1> USE DEF arbitration_vars, routing_timer_vars, route_vars, At
<1>1. UNCHANGED <<arbitrate_map, conversation, routing_queue, arbitrate_address_queue, transmit_map,
                  receving_info>>
  BY DEF HandleMessage, Receives, StopTimer, StartTimer, AcknowledgementTimeout, ResponseTimeout,
         StopTested, StartReceivingTimer, DiagnosticMessageTimeout, ReceivingTimeout
<1>2. Dispatching(a)' <=> Dispatching(a)
  BY <1>1 DEF Dispatching
<1>3. ASSUME NEW w \in Threads, Rest(w) \/ \E at, b, r : Go(w, at, b, r), Uninvolved(w, a), Uninvolved(w, a)',
             Awaiting(a)' <=> Awaiting(a)
      PROVE  Home(a)'
  <2>1. ThreadsSame(a) /\ PlacesSame(a)
    BY <1>1, <1>3, ThreadAside, PlacesStay
  <2> QED BY <1>1, <1>2, <1>3, <2>1, HomeStays
<1>4. ASSUME NEW w \in Threads, Rest(w) \/ \E at, b, r : Go(w, at, b, r), Awaiting(a) \/ Reacting(a),
             thread[w].at \notin {"popped", "check", "keep"}, thread'[w].at \notin {"handle", "send"}
      PROVE  Home(a)'
  <2>1. Others(w)
    BY <1>4, ThreadMoves, ThreadRests DEF Others
  <2>2. Forwarded(a)
    BY <1>4 DEF Forwarded, Reacting, Used, Uses
  <2> QED BY <1>1, <1>4, <2>1, <2>2, AnswersOn DEF Prepares
<1>5. ASSUME NEW p \in Processors, NEW message \in EcuMessages, NEW b \in Addresses, NEW r \in Requests,
             HandleMessage(p, message, b, r)
      PROVE  Home(a)'
  <2>1. p \in Threads /\ Go(p, message, b, None) /\ thread[p].at = "idle"
    BY <1>5 DEF HandleMessage, Threads
  <2>2. thread'[p].at = message /\ thread'[p].addr = b
    BY <2>1 DEF Go, Typed, TypeOK
  <2>3. Awaiting(a)' <=> Awaiting(a)
    BY <1>5 DEF HandleMessage, Awaiting
  <2>4. CASE b # a
    BY <1>3, <2>1, <2>2, <2>3, <2>4 DEF Uninvolved, Prepares, Uses, EcuMessages
  <2>5. CASE b = a
    <3>1. Awaiting(a)
      BY <1>5, <2>5 DEF HandleMessage, Reacts, Awaiting
    <3> QED BY <1>4, <2>1, <2>2, <3>1 DEF EcuMessages
  <2> QED BY <2>4, <2>5
<1>6. ASSUME NEW p \in Processors, StopTimer(p)
      PROVE  Home(a)'
  <2> DEFINE b == thread[p].addr
  <2>1. p \in Threads /\ thread[p].at \in EcuMessages
    BY <1>6 DEF StopTimer, Threads
  <2>2. PICK at \in {"start", "erase"} : Go(p, at, b, None)
    BY <1>6 DEF StopTimer
  <2>3. thread'[p].at = at /\ thread'[p].addr = b
    BY <2>1, <2>2, ThreadMoves
  <2>4. CASE b # a
    <3>1. Awaiting(a)' <=> Awaiting(a)
      BY <1>6, <2>4 DEF StopTimer, StopTested, Awaiting
    <3> QED BY <1>3, <2>1, <2>2, <2>3, <2>4, <3>1 DEF Uninvolved, Prepares, Uses
  <2>5. CASE b = a
    <3>1. Reacting(a)
      BY <2>1, <2>5 DEF Reacting
    <3> QED BY <1>4, <2>1, <2>2, <2>3, <3>1 DEF EcuMessages
  <2> QED BY <2>4, <2>5
<1>7. ASSUME NEW p \in Processors, StartTimer(p)
      PROVE  Home(a)'
  <2> DEFINE b == thread[p].addr
  <2>1. p \in Threads /\ thread[p].at = "start" /\ Rest(p)
    BY <1>7 DEF StartTimer, Threads
  <2>2. thread'[p].at = "idle"
    BY <2>1, ThreadRests DEF Idle
  <2>3. CASE b # a
    <3>1. Awaiting(a)' <=> Awaiting(a)
      BY <1>7, <2>3 DEF StartTimer, StartReceivingTimer, Awaiting
    <3> QED BY <1>3, <2>1, <2>2, <2>3, <3>1 DEF Uninvolved, Prepares, Uses, EcuMessages
  <2>4. CASE b = a
    <3>1. Reacting(a)
      BY <2>1, <2>4 DEF Reacting
    <3> QED BY <1>4, <2>1, <2>2, <3>1
  <2> QED BY <2>3, <2>4
<1>8. ASSUME NEW b \in Addresses, AcknowledgementTimeout(b) \/ ResponseTimeout(b)
      PROVE  Home(a)'
  <2>1. PICK w \in {"diagnostic_message", "receiving"} :
          thread[w].at = "idle" /\ Go(w, "erase", b, None)
    BY <1>8 DEF AcknowledgementTimeout, ResponseTimeout, CanExpire
  <2>2. w \in Threads
    BY <2>1 DEF Threads, TimerThreads
  <2>3. thread'[w].at = "erase" /\ thread'[w].addr = b
    BY <2>1, <2>2 DEF Go, Typed, TypeOK
  <2>4. CASE b # a
    <3>1. Awaiting(a)' <=> Awaiting(a)
      BY <1>8, <2>4 DEF AcknowledgementTimeout, ResponseTimeout, DiagnosticMessageTimeout, ReceivingTimeout,
                        Awaiting
    <3> QED BY <1>3, <2>1, <2>2, <2>3, <2>4, <3>1 DEF Uninvolved, Prepares, Uses, EcuMessages
  <2>5. CASE b = a
    <3>1. Awaiting(a)
      BY <1>8, <2>5 DEF AcknowledgementTimeout, ResponseTimeout, DiagnosticMessageTimeout, ReceivingTimeout,
                        Awaiting
    <3> QED BY <1>4, <2>1, <2>2, <2>3, <3>1
  <2> QED BY <2>4, <2>5
<1> QED BY <1>5, <1>6, <1>7, <1>8 DEF Receives

(* What the other threads do leaves every answer where it is.              *)
LEMMA RestHome ==
  ASSUME Typed, NEW a \in Addresses, Home(a),
         \/ \E p \in Processors, state \in BOOLEAN : GatewayRoutingStateChange(p, state)
         \/ \E b \in Addresses : ArbitrationTimeout(b) \/ PendingTimeout(b)
         \/ ReleaseAddress \/ SendPendingMessage \/ StartP2StarTimer
  PROVE  Home(a)'
<1> USE DEF arbitration_vars, routing_timer_vars, route_vars, At
<1>1. UNCHANGED <<conversation, routing_queue, arbitrate_address_queue, diagnostic_message_timer,
                  receiving_timer, receving_info, transmit_map>>
  BY DEF GatewayRoutingStateChange, ArbitrationTimeout, PendingTimeout, ReleaseAddress,
         SendPendingMessage, StartP2StarTimer, SetRoutingState
<1>2. arbitrate_map'[a] = "Working" => arbitrate_map[a] = "Working"
  BY DEF GatewayRoutingStateChange, ArbitrationTimeout, PendingTimeout, ReleaseAddress, ArbitrateRelease,
         SendPendingMessage, StartP2StarTimer, Typed, TypeOK, ArbitrationTypeOK
<1>3. (Dispatching(a)' <=> Dispatching(a)) /\ (Awaiting(a)' <=> Awaiting(a)) /\ PlacesSame(a)
  BY <1>1, PlacesStay DEF Dispatching, Awaiting
<1>4. ThreadsSame(a)
  <2>1. CASE UNCHANGED thread
    BY <2>1, ThreadsStay
  <2>2. ASSUME NEW w \in {"arbitration", "pending"}, Rest(w) \/ \E at, b, r : Go(w, at, b, r),
               thread[w].at \in {"idle", "release", "remind", "rearm"},
               thread'[w].at \in {"idle", "release", "remind", "rearm"}
        PROVE  ThreadsSame(a)
    <3>1. w \in Threads
      BY <2>2 DEF Threads, TimerThreads
    <3>2. Uninvolved(w, a) /\ Uninvolved(w, a)'
      BY <2>2 DEF Uninvolved, Prepares, Uses, EcuMessages
    <3> QED BY <2>2, <3>1, <3>2, ThreadAside
  <2>3. CASE \E b \in Addresses : ArbitrationTimeout(b) \/ PendingTimeout(b)
    <3>1. PICK w \in {"arbitration", "pending"}, at \in {"release", "remind"}, b \in Addresses :
            thread[w].at = "idle" /\ Go(w, at, b, None)
      BY <2>3 DEF ArbitrationTimeout, PendingTimeout, CanExpire
    <3>2. thread'[w].at = at
      BY <3>1, ThreadMoves DEF Threads, TimerThreads
    <3> QED BY <2>2, <3>1, <3>2
  <2>4. ASSUME NEW w \in {"arbitration", "pending"}, Rest(w)
        PROVE  thread'[w].at = "idle"
    BY <2>4, ThreadRests DEF Threads, TimerThreads, Idle
  <2>5. CASE ReleaseAddress \/ StartP2StarTimer
    BY <2>2, <2>4, <2>5 DEF ReleaseAddress, StartP2StarTimer
  <2>6. CASE SendPendingMessage
    <3>1. ASSUME NEW b, Go("pending", "rearm", b, None)
          PROVE  thread'["pending"].at = "rearm"
      BY <3>1, ThreadMoves DEF Threads, TimerThreads
    <3> QED BY <2>2, <2>4, <2>6, <3>1 DEF SendPendingMessage
  <2> QED BY <2>1, <2>3, <2>5, <2>6 DEF GatewayRoutingStateChange
<1> QED BY <1>1, <1>2, <1>3, <1>4, HomeStays

(* An address that was shared stays so.                                    *)
LEMMA SharedGrows ==
  ASSUME Next
  PROVE  shared \subseteq shared'
<1> USE DEF ghost_vars
<1>1. ASSUME NEW t \in Testers, NEW r \in Requests, HandlePhysicalMessage(t, r) \/ HandleFunctionalMessage(t, r)
      PROVE  shared \subseteq shared'
  BY <1>1 DEF HandlePhysicalMessage, HandleFunctionalMessage
<1>2. ASSUME NEW t \in Testers, Converses(t)
      PROVE  shared \subseteq shared'
  BY <1>2 DEF Converses, StartWorking, RoutingMessage, ArbitrateCacheMessage, StartP2Timer
<1>3. CASE Dispatches
  <2>1. ASSUME NEW k, NEW r, TakeOver(k, r)
        PROVE  shared \subseteq shared'
    BY <2>1 DEF TakeOver
  <2> QED BY <1>3, <2>1 DEF Dispatches, HandleRoutingMessage, HandleFunctionalRouting, BroadcastToGateways,
                            BroadcastToNodes
<1>4. CASE Arbitrates
  BY <1>4 DEF Arbitrates, HandleArbitrateAddressQueue, SendCacheMessage
<1>5. ASSUME NEW w \in Senders, Forwards(w)
      PROVE  shared \subseteq shared'
  BY <1>5 DEF Forwards, CheckAndHandleMessage, ConnectServer, ConnectServerFails, SendDiagnosticMessage,
              SendDiagnosticMessageFails
<1>6. ASSUME NEW w \in Threads, Finishes(w)
      PROVE  shared \subseteq shared'
  BY <1>6 DEF Finishes, EraseConversation, ArbitrateAddressFinish, KeepAddress
<1>7. ASSUME NEW p \in Processors,
             \/ \E message \in EcuMessages, a \in Addresses, r \in Requests : HandleMessage(p, message, a, r)
             \/ Receives(p)
             \/ \E state \in BOOLEAN : GatewayRoutingStateChange(p, state)
      PROVE  shared \subseteq shared'
  BY <1>7 DEF HandleMessage, Receives, StopTimer, StartTimer, GatewayRoutingStateChange
<1>8. ASSUME NEW a \in Addresses, Expires(a)
      PROVE  shared \subseteq shared'
  BY <1>8 DEF Expires, AcknowledgementTimeout, ResponseTimeout, ArbitrationTimeout, PendingTimeout
<1>9. CASE ReleaseAddress \/ SendPendingMessage \/ StartP2StarTimer
  BY <1>9 DEF ReleaseAddress, SendPendingMessage, StartP2StarTimer
<1> QED BY <1>1, <1>2, <1>3, <1>4, <1>5, <1>6, <1>7, <1>8, <1>9 DEF Next

(* No step sends the answer of an address elsewhere.                       *)
LEMMA HomeStep ==
  ASSUME Typed, AllHome, [Next]_vars
  PROVE  AllHome'
<1> USE DEF arbitration_vars, routing_timer_vars, route_vars
<1> SUFFICES ASSUME NEW a \in Addresses, a \notin shared'
             PROVE  Home(a)'
  BY DEF AllHome
<1>1. CASE UNCHANGED vars
  <2>1. a \in Addresses \ shared /\ Home(a)
    BY <1>1 DEF vars, ghost_vars, AllHome
  <2>2. ThreadsSame(a) /\ PlacesSame(a)
    BY <1>1, ThreadsStay, PlacesStay DEF vars
  <2> QED BY <1>1, <2>1, <2>2, HomeStays DEF vars, Dispatching, Awaiting
<1>2. CASE Next
  <2>1. a \notin shared
    BY <1>2, SharedGrows
  <2>2. Home(a)
    BY <2>1 DEF AllHome
  <2> QED BY <1>2, <2>1, <2>2, RequestHome, ConversationHome, DispatchHome, ForwardHome, FinishHome,
             ArbitrateHome, AnswerHome, RestHome DEF Next, Expires
<1> QED BY <1>1, <1>2

(* As long as an address is granted to one request at a time, the answer   *)
(* it is awaited to give goes to the tester of that request, whoever uses  *)
(* the route meanwhile (Set/GetTransmitConversationId).                    *)
THEOREM AnswerGoesToTester == Spec => []AnswerGoesHome
<1>1. Init => AllHome
  <2> SUFFICES ASSUME Init, NEW a \in Addresses
               PROVE  Home(a)
    BY DEF AllHome
  <2>1. ~Coming(a)
    BY DEF Init, RouteInit, Coming, Granted, Handling, Free, Queued, Prepared, Prepares, Idle
  <2>2. ~Awaiting(a) /\ ~Reacting(a)
    BY DEF Init, RoutingTimerInit, Awaiting, Reacting, Idle, EcuMessages
  <2>3. AtHome(a)
    BY <2>2 DEF AtHome, Answering
  <2> QED BY <2>1, <2>3, NothingComing DEF NothingComes
<1>2. Typed /\ AllHome => AnswerGoesHome
  <2> SUFFICES ASSUME Typed, AllHome, NEW a \in Addresses \ shared,
                      arbitrate_map[a] = "Working", Awaiting(a), Owners(a) = {}, ~Dispatching(a)
               PROVE  GetTransmitConversationId(a) = TesterOf[receving_info[a]]
    BY DEF AnswerGoesHome
  <2>1. ~Ending(a)
    BY OwnersAre DEF Typed, Ending, Owns, OwnerPositions
  <2>2. receving_info[a] \in Requests /\ transmit_map[a] = TesterOf[receving_info[a]]
    BY <2>1 DEF AllHome, Home, AtHome, Answering
  <2>3. transmit_map[a] # None
    BY <2>2, TargetFacts, NamesAssumption
  <2> QED BY <2>2, <2>3 DEF GetTransmitConversationId
<1>3. QED BY <1>1, <1>2, HomeStep, TypedInvariant, PTL DEF Spec
=============================================================================
