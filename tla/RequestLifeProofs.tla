-------------------------- MODULE RequestLifeProofs --------------------------
(***************************************************************************)
(* The proxy implements RequestLife for every set of addresses, testers    *)
(* and requests.  What makes it so is the custody of the requests: one     *)
(* that is open is in exactly one place, and there only once.              *)
(***************************************************************************)
EXTENDS DiagnosticProxyProofs, FiniteSetTheorems

-----------------------------------------------------------------------------
(* The places a request can be in.                                         *)

Admitted(r) ==
  \E t \in Testers : conversation[t].at \in {"pass", "route"} /\ conversation[t].req = r

Deferred(r) == \E t \in Testers : conversation[t].at = "pending" /\ conversation[t].req = r

InQueue(r) == \E i \in DOMAIN routing_queue : routing_queue[i] = r

InCache(r) == \E a \in Addresses : arbitrate_cache_map[a] = r

Carried(r) == \E w \in Senders : thread[w].req = r

Waits(r) == Admitted(r) \/ Deferred(r) \/ InQueue(r) \/ InCache(r)

(* A request that is open is in one of them, and one that is not is in     *)
(* none, but for a functional one that a closed route has refused while    *)
(* its thread goes on to the other route.                                  *)
InPlace(r) ==
  /\ Admitted(r) => ~Deferred(r) /\ ~InQueue(r) /\ ~InCache(r) /\ ~Carried(r)
  /\ Deferred(r) => ~InQueue(r) /\ ~InCache(r) /\ ~Carried(r)
  /\ InQueue(r) => ~InCache(r) /\ ~Carried(r)
  /\ InCache(r) => ~Carried(r)
  /\ Waits(r) => outcome[r] = "open"
  /\ outcome[r] = "open" => Waits(r) \/ Carried(r)

Once ==
  /\ \A t \in Testers : conversation[t].at # "idle" => TesterOf[conversation[t].req] = t
  /\ \A i, j \in DOMAIN routing_queue : routing_queue[i] = routing_queue[j] => i = j
  /\ \A v, w \in Senders : thread[v].req = thread[w].req /\ thread[v].req # None => v = w
  /\ \A w \in Senders : thread[w].req # None =>
       \/ outcome[thread[w].req] = "open"
       \/ thread[w].at \in Routes /\ outcome[thread[w].req] = "closed"

Custody == (\A r \in Requests : InPlace(r)) /\ Once

(* A request is where it was.                                              *)
Stays(r) ==
  /\ outcome'[r] = outcome[r]
  /\ Admitted(r)' <=> Admitted(r)
  /\ Deferred(r)' <=> Deferred(r)
  /\ InQueue(r)' <=> InQueue(r)
  /\ InCache(r)' <=> InCache(r)
  /\ Carried(r)' <=> Carried(r)

(* Where a request is by the places' names in RequestLife.                 *)
Named(s, r) ==
  \/ s = "admitted" /\ Admitted(r)
  \/ s = "pending" /\ Deferred(r)
  \/ s = "queued" /\ InQueue(r)
  \/ s = "waiting" /\ InCache(r)
  \/ s = "forwarding" /\ Carried(r)

WhereaboutsNamed == \A r \in Requests : \A s : s \in Whereabouts(r) <=> Named(s, r)

(* The whereabouts of a request are the names of the places it is in.      *)
LEMMA WhereaboutsAre == WhereaboutsNamed
<1> SUFFICES ASSUME NEW r \in Requests, NEW s
             PROVE  s \in Whereabouts(r) <=> Named(s, r)
  BY DEF WhereaboutsNamed
<1> QED BY DEF Whereabouts, Named, Admitted, Deferred, InQueue, InCache, Carried

(* An open request has the stage of the only place it is in.               *)
LEMMA OneStage ==
  ASSUME NEW W, NEW s, \A x : x \in W <=> x = s
  PROVE  Cardinality(W) = 1 /\ (CHOOSE x \in W : TRUE) = s
<1>1. W = {s}
  OBVIOUS
<1> QED BY <1>1, FS_Singleton

StagesKnown ==
  \A r \in Requests :
    /\ outcome[r] # "open" => Stage(r) = outcome[r]
    /\ outcome[r] = "open" => \A s : Named(s, r) => Stage(r) = s

(* Custody tells the stage of every request.                               *)
LEMMA StagesAre == Custody => StagesKnown
<1> SUFFICES ASSUME Custody, NEW r \in Requests
             PROVE  /\ outcome[r] # "open" => Stage(r) = outcome[r]
                    /\ outcome[r] = "open" => \A s : Named(s, r) => Stage(r) = s
  BY DEF StagesKnown
<1>1. outcome[r] # "open" => Stage(r) = outcome[r]
  BY DEF Stage
<1>2. ASSUME outcome[r] = "open", NEW s, Named(s, r)
      PROVE  Stage(r) = s
  <2>1. \A x : x \in Whereabouts(r) <=> x = s
    BY <1>2, WhereaboutsAre DEF WhereaboutsNamed, Named, Custody, InPlace
  <2>2. Cardinality(Whereabouts(r)) = 1 /\ (CHOOSE x \in Whereabouts(r) : TRUE) = s
    BY <2>1, OneStage
  <2> QED BY <1>2, <2>2 DEF Stage
<1> QED BY <1>1, <1>2

-----------------------------------------------------------------------------
(* What a step of the proxy is for RequestLife.                            *)

(* A request that stays in its place stays at its stage.                   *)
LEMMA StageStays ==
  ASSUME NEW r \in Requests, Stays(r)
  PROVE  Stage(r)' = Stage(r)
<1>1. WhereaboutsNamed'
  BY WhereaboutsAre, PTL
<1>2. \A s : s \in Whereabouts(r)' <=> s \in Whereabouts(r)
  <2>1. \A s : s \in Whereabouts(r) <=> Named(s, r)
    BY WhereaboutsAre DEF WhereaboutsNamed
  <2>2. \A s : s \in Whereabouts(r)' <=> Named(s, r)'
    BY <1>1 DEF WhereaboutsNamed
  <2> QED BY <2>1, <2>2 DEF Named, Stays
<1>3. Whereabouts(r)' = Whereabouts(r)
  BY <1>2
<1> QED BY <1>3 DEF Stage, Stays

Staying(S) == \A r \in Requests \ S : Stays(r)

(* Custody is kept by a step that moves only requests it keeps in place.   *)
LEMMA InPlaceKept ==
  ASSUME Custody, NEW S, Staying(S), \A r \in Requests \cap S : InPlace(r)', Once'
  PROVE  Custody'
<1>1. ASSUME NEW r \in Requests, Stays(r)
      PROVE  InPlace(r)'
  BY <1>1 DEF Custody, InPlace, Waits, Stays
<1> QED BY <1>1 DEF Staying, Custody

(* A step that moves nothing stutters for RequestLife.                     *)
LEMMA StutterIs ==
  ASSUME Staying({})
  PROVE  UNCHANGED [r \in Requests |-> Stage(r)]
BY StageStays DEF Staying

(* A step that moves one request is one of RequestLife's moves.            *)
LEMMA MoveIs ==
  ASSUME NEW r \in Requests, Staying({r}), NEW from, NEW to, Stage(r) \in from, Stage(r)' \in to
  PROVE  Life!Move(r, from, to)
<1>1. \A q \in Requests \ {r} : Stage(q)' = Stage(q)
  BY StageStays DEF Staying
<1>2. [q \in Requests |-> Stage(q)]' = [[q \in Requests |-> Stage(q)] EXCEPT ![r] = Stage(r)']
  BY <1>1
<1> QED BY <1>2 DEF Life!Move

KeepsPromise == Custody' /\ [Life!Next]_[r \in Requests |-> Stage(r)]

(* The stage of a request, from its place or from what became of it.       *)
Reaches(s, r) == IF outcome[r] = "open" THEN Named(s, r) ELSE s = outcome[r]

(* A step that moves one request, and knows from where and where to.       *)
LEMMA MoveKept ==
  ASSUME Custody, NEW r \in Requests, Staying({r}), InPlace(r)', Once',
         NEW from, NEW to, NEW s \in from, NEW u \in to, Reaches(s, r), Reaches(u, r)'
  PROVE  Custody' /\ Life!Move(r, from, to)
<1>1. Custody'
  BY InPlaceKept
<1>2. StagesKnown /\ StagesKnown'
  BY <1>1, StagesAre, PTL
<1>3. Stage(r) = s /\ Stage(r)' = u
  BY <1>2 DEF StagesKnown, Reaches
<1> QED BY <1>1, <1>3, MoveIs

(* A step that moves nothing.                                              *)
LEMMA StayKept ==
  ASSUME Custody, Staying({}), Once'
  PROVE  KeepsPromise
<1>1. Custody'
  BY InPlaceKept
<1> QED BY <1>1, StutterIs DEF KeepsPromise

(* What the senders carry after the step of one of them.                   *)
LEMMA Carrying ==
  ASSUME Typed, NEW w \in Senders, NEW x,
         (x = None /\ Rest(w)) \/ (\E at, a : Go(w, at, a, x))
  PROVE  /\ thread'[w].req = x
         /\ \A v \in Senders \ {w} : thread'[v] = thread[v]
<1>1. thread \in [Threads -> ThreadState] /\ w \in Threads
  BY DEF Typed, TypeOK, Threads
<1> QED BY <1>1 DEF Rest, Go, Idle, Threads

(* A sender carries a request or nothing.                                  *)
LEMMA SenderFacts ==
  ASSUME Typed, NEW w \in Senders
  PROVE  w \in Threads /\ thread[w].req \in Requests \cup {None}
BY DEF Typed, TypeOK, Threads, ThreadState, Idle

(* What every thread but the senders does is nothing to the requests.      *)
LEMMA ElsewhereKept ==
  ASSUME Typed, Custody, UNCHANGED <<conversation, routing_queue, arbitrate_cache_map, outcome>>,
         \A w \in Senders : \/ thread'[w] = thread[w]
                            \/ thread[w].req = None /\ thread'[w].req = None
  PROVE  KeepsPromise
<1>1. \A w \in Senders : thread'[w].req = thread[w].req
  OBVIOUS
<1>2. Once'
  BY <1>1 DEF Custody, Once
<1>3. ASSUME NEW r \in Requests
      PROVE  Stays(r)
  BY <1>1 DEF Stays, Admitted, Deferred, InQueue, InCache, Carried
<1> QED BY <1>2, <1>3, StayKept DEF Staying
-----------------------------------------------------------------------------
(* The steps of a conversation.                                            *)

(* What the arbitration decides about a new request                        *)
(* (Conversation::HandleMessage).                                          *)
LEMMA RequestKept ==
  ASSUME Typed, Custody, NEW t \in Testers, NEW r \in Requests,
         HandlePhysicalMessage(t, r) \/ HandleFunctionalMessage(t, r)
  PROVE  KeepsPromise
<1> USE DEF HandlePhysicalMessage, HandleFunctionalMessage, Settle
<1>1. /\ outcome[r] = "new" /\ TesterOf[r] = t /\ conversation[t].at = "idle"
      /\ UNCHANGED <<routing_queue, arbitrate_cache_map, thread>>
  BY DEF arbitration_vars, route_vars
<1>2. conversation \in [Testers -> ConversationState] /\ outcome \in [Requests -> {"new", "open"} \cup Final]
  BY DEF Typed, TypeOK
<1>3. InPlace(r) /\ ~Waits(r) /\ ~Carried(r)
  BY <1>1, NamesAssumption DEF Custody, Once, Carried, InPlace
<1>4. CASE outcome' = [outcome EXCEPT ![r] = "rejected"] /\ UNCHANGED conversation
  <2>1. Staying({r}) /\ InPlace(r)' /\ Once'
    BY <1>1, <1>2, <1>3, <1>4
       DEF Staying, Stays, InPlace, Waits, Admitted, Deferred, InQueue, InCache, Carried, Once, Custody
  <2>2. Reaches("new", r) /\ Reaches("rejected", r)'
    BY <1>1, <1>2, <1>4 DEF Reaches
  <2>3. Custody' /\ Life!Move(r, {"new"}, {"admitted", "rejected"} \cup (IF Physical(r) THEN {"pending"} ELSE {}))
    BY <2>1, <2>2, MoveKept
  <2> QED BY <2>3 DEF KeepsPromise, Life!Next, Life!Arbitrate, Life!Physical, Physical
<1>5. ASSUME NEW at \in {"pass", "route", "pending"}, Converse(t, at, r), at = "pending" => Physical(r),
             outcome' = [outcome EXCEPT ![r] = "open"]
      PROVE  KeepsPromise
  <2>1. /\ conversation'[t] = [at |-> at, req |-> r]
        /\ \A u \in Testers : u # t => conversation'[u] = conversation[u]
    BY <1>2, <1>5 DEF Converse
  <2>2. outcome'[r] = "open" /\ \A q \in Requests : q # r => outcome'[q] = outcome[q]
    BY <1>2, <1>5
  <2>3. Staying({r})
    BY <1>1, <2>1, <2>2 DEF Staying, Stays, Admitted, Deferred, InQueue, InCache, Carried
  <2>4. InPlace(r)'
    BY <1>1, <1>3, <2>1, <2>2 DEF InPlace, Waits, Admitted, Deferred, InQueue, InCache, Carried
  <2>5. Once'
    BY <1>1, <1>3, <2>1, <2>2, SenderFacts, NamesAssumption DEF Once, Custody, Carried
  <2>6. Reaches("new", r) /\ Reaches(IF at = "pending" THEN "pending" ELSE "admitted", r)'
    BY <1>1, <2>1, <2>2 DEF Reaches, Named, Admitted, Deferred
  <2>7. Custody' /\ Life!Move(r, {"new"}, {"admitted", "rejected"} \cup (IF Physical(r) THEN {"pending"} ELSE {}))
    BY <1>5, <2>3, <2>4, <2>5, <2>6, MoveKept
  <2> QED BY <2>7 DEF KeepsPromise, Life!Next, Life!Arbitrate, Life!Physical, Physical
<1> QED BY <1>4, <1>5

(* A request goes from its conversation into the routing queue             *)
(* (Routing::RoutingMessage).                                              *)
LEMMA RoutingKept ==
  ASSUME Typed, Custody, NEW t \in Testers, RoutingMessage(t), NEW r, r = conversation[t].req
  PROVE  KeepsPromise
<1>1. /\ conversation[t].at = "route" /\ routing_queue' = Append(routing_queue, r)
      /\ conversation' = [conversation EXCEPT ![t] = Free]
      /\ UNCHANGED <<arbitrate_cache_map, thread, outcome>>
  BY DEF RoutingMessage, AddRoutingMessage, arbitration_vars
<1>2. conversation \in [Testers -> ConversationState] /\ r \in Requests /\ routing_queue \in Seq(Requests)
  BY <1>1, ConversationFacts DEF Typed, TypeOK, RouteTypeOK
<1>3. /\ conversation'[t].at = "idle"
      /\ \A u \in Testers : u # t => conversation'[u] = conversation[u]
  BY <1>1, <1>2 DEF Free
<1>4. /\ DOMAIN routing_queue = 1..Len(routing_queue) /\ Len(routing_queue) \in Nat
      /\ DOMAIN routing_queue' = 1..(Len(routing_queue) + 1)
      /\ \A i \in DOMAIN routing_queue : routing_queue'[i] = routing_queue[i]
      /\ routing_queue'[Len(routing_queue) + 1] = r
  BY <1>1, <1>2
<1>5. \A q : InQueue(q)' <=> InQueue(q) \/ q = r
  BY <1>4 DEF InQueue
<1>6. \A u \in Testers : u # t => ~(conversation[u].at # "idle" /\ conversation[u].req = r)
  BY <1>1 DEF Custody, Once
<1>7. Admitted(r) /\ InPlace(r)
  BY <1>1, <1>2 DEF Admitted, Custody
<1>8. Staying({r})
  BY <1>1, <1>3, <1>5 DEF Staying, Stays, Admitted, Deferred, InCache, Carried
<1>9. InPlace(r)'
  BY <1>1, <1>3, <1>5, <1>6, <1>7 DEF InPlace, Waits, Admitted, Deferred, InCache, Carried
<1>10. Once'
  <2>1. \A i, j \in DOMAIN routing_queue' : routing_queue'[i] = routing_queue'[j] => i = j
    BY <1>4, <1>7 DEF InPlace, InQueue, Custody, Once
  <2> QED BY <1>1, <1>3, <2>1 DEF Custody, Once
<1>11. Reaches("admitted", r) /\ Reaches("queued", r)'
  BY <1>1, <1>5, <1>7 DEF Reaches, Named, InPlace, Waits
<1>12. Custody' /\ Life!Move(r, {"admitted"}, {"queued"})
  BY <1>2, <1>8, <1>9, <1>10, <1>11, MoveKept
<1> QED BY <1>2, <1>12 DEF KeepsPromise, Life!Next, Life!Queue

(* A request goes from its conversation into the cache, and the one that   *)
(* is there is told busy (Arbitration::ArbitrateCacheMessage).             *)
LEMMA CacheKept ==
  ASSUME Typed, Custody, NEW t \in Testers, ArbitrateCacheMessage(t), NEW r, r = conversation[t].req,
         NEW d, d = arbitrate_cache_map[TargetOf[r]]
  PROVE  KeepsPromise
<1> DEFINE a == TargetOf[r]
<1>1. /\ conversation[t].at = "pending"
      /\ arbitrate_cache_map' = [arbitrate_cache_map EXCEPT ![a] = r]
      /\ outcome' = IF d # None THEN [outcome EXCEPT ![d] = "busy"] ELSE outcome
      /\ conversation' = [conversation EXCEPT ![t] = [at |-> "arm", req |-> r]]
      /\ UNCHANGED <<routing_queue, thread>>
  BY DEF ArbitrateCacheMessage, CacheMessage, HasCacheMessage, Settle, Converse, route_vars
<1>2. /\ conversation \in [Testers -> ConversationState] /\ r \in Requests
      /\ arbitrate_cache_map \in [Addresses -> Requests \cup {None}]
      /\ outcome \in [Requests -> {"new", "open"} \cup Final]
      /\ None \notin Requests
  BY <1>1, ConversationFacts, NamesAssumption DEF Typed, TypeOK, ArbitrationTypeOK
<1>3. /\ a \in Addresses
      /\ \A b \in Addresses : arbitrate_cache_map[b] # None => TargetOf[arbitrate_cache_map[b]] = b
  BY <1>1, <1>2, TargetFacts DEF Typed, Consistent, Physical, HasCacheMessage
<1>4. /\ conversation'[t].at = "arm" /\ conversation'[t].req = r
      /\ \A u \in Testers : u # t => conversation'[u] = conversation[u]
  BY <1>1, <1>2
<1>5. /\ arbitrate_cache_map'[a] = r
      /\ \A b \in Addresses \ {a} : arbitrate_cache_map'[b] = arbitrate_cache_map[b]
  BY <1>1, <1>2, <1>3
<1>6. \A u \in Testers : u # t => ~(conversation[u].at # "idle" /\ conversation[u].req = r)
  BY <1>1 DEF Custody, Once
<1>7. Deferred(r) /\ InPlace(r) /\ outcome[r] = "open" /\ d # r
  BY <1>1, <1>2, <1>3 DEF Deferred, Custody, InPlace, Waits, InCache
<1>8. d # None => d \in Requests /\ InCache(d) /\ InPlace(d) /\ outcome[d] = "open"
  BY <1>2, <1>3 DEF InCache, Custody, InPlace, Waits
<1>9. \A q \in Requests \ {r, d} : Stays(q)
  BY <1>1, <1>2, <1>3, <1>4, <1>5
     DEF Stays, Admitted, Deferred, InQueue, InCache, Carried
<1>10. InPlace(r)' /\ Reaches("waiting", r)'
  <2>1. outcome'[r] = "open"
    BY <1>1, <1>2, <1>7
  <2>2. InCache(r)' /\ ~InQueue(r)' /\ ~Carried(r)'
    BY <1>1, <1>3, <1>5, <1>7 DEF InPlace, InQueue, InCache, Carried
  <2>3. ~Admitted(r)' /\ ~Deferred(r)'
    BY <1>4, <1>6 DEF Admitted, Deferred
  <2> QED BY <2>1, <2>2, <2>3 DEF InPlace, Waits, Reaches, Named
<1>11. d # None => InPlace(d)' /\ outcome'[d] = "busy"
  <2> SUFFICES ASSUME d # None
               PROVE  InPlace(d)' /\ outcome'[d] = "busy"
    OBVIOUS
  <2>1. outcome'[d] = "busy"
    BY <1>1, <1>2, <1>8
  <2>2. ~Admitted(d)' /\ ~Deferred(d)' /\ ~InQueue(d)' /\ ~Carried(d)'
    BY <1>1, <1>4, <1>8 DEF InPlace, Admitted, Deferred, InQueue, Carried
  <2>3. ~InCache(d)'
    BY <1>2, <1>3, <1>5, <1>7 DEF InCache
  <2> QED BY <2>1, <2>2, <2>3 DEF InPlace, Waits
<1>12. Once'
  <2>1. \A w \in Senders : thread[w].req # None /\ d # None => thread[w].req # d
    BY <1>8 DEF InPlace, Carried
  <2>2. \A w \in Senders : thread[w].req # None => outcome'[thread[w].req] = outcome[thread[w].req]
    BY <1>1, <1>2, <2>1, SenderFacts
  <2>3. \A u \in Testers : conversation'[u].at # "idle" => TesterOf[conversation'[u].req] = u
    BY <1>1, <1>4 DEF Custody, Once
  <2> QED BY <1>1, <2>2, <2>3 DEF Custody, Once
<1>13. Custody'
  <2>1. Staying({r, d}) /\ \A q \in Requests \cap {r, d} : InPlace(q)'
    BY <1>9, <1>10, <1>11, <1>2 DEF Staying
  <2> QED BY <1>12, <2>1, InPlaceKept
<1>14. StagesKnown /\ StagesKnown'
  BY <1>13, StagesAre, PTL
<1>15. /\ Stage(r) = "pending" /\ Stage(r)' = "waiting"
       /\ d # None => Stage(d) = "waiting" /\ Stage(d)' = "busy"
  <2>1. Stage(r) = "pending"
    BY <1>2, <1>7, <1>14 DEF StagesKnown, Named
  <2>2. Stage(r)' = "waiting"
    BY <1>2, <1>10, <1>14 DEF StagesKnown, Reaches
  <2>3. d # None => Stage(d) = "waiting"
    BY <1>8, <1>14 DEF StagesKnown, Named
  <2>4. d # None => Stage(d)' = "busy"
    BY <1>8, <1>11, <1>14 DEF StagesKnown
  <2> QED BY <2>1, <2>2, <2>3, <2>4
<1>16. ASSUME NEW q \in Requests \ {r, d}
       PROVE  Stage(q)' = Stage(q) /\ (Stage(q) = "waiting" => TargetOf[q] # a)
  <2>1. Stage(q)' = Stage(q)
    BY <1>9, StageStays
  <2>2. ASSUME Stage(q) = "waiting"
        PROVE  InCache(q)
    <3>1. outcome[q] = "open"
      BY <1>2, <1>14, <2>2 DEF StagesKnown, Final
    <3> QED
      BY <1>14, <2>2, <3>1 DEF StagesKnown, Custody, InPlace, Waits, Named
  <2>3. InCache(q) => TargetOf[q] # a
    BY <1>2, <1>3 DEF InCache
  <2> QED BY <2>1, <2>2, <2>3
<1>17. d # None => TargetOf[d] = a
  BY <1>3
<1>18. Life!Wait(r)
  <2> DEFINE new == [q \in Requests |->
                       CASE q = r -> "waiting"
                         [] q # r /\ Stage(q) = "waiting" /\ TargetOf[q] = TargetOf[r] -> "busy"
                         [] OTHER -> Stage(q)]
  <2>1. ASSUME NEW q \in Requests
        PROVE  new[q] = Stage(q)'
    BY <1>2, <1>15, <1>16, <1>17
  <2>2. [q \in Requests |-> Stage(q)]' = new
    BY <2>1
  <2> QED BY <1>2, <1>15, <2>2 DEF Life!Wait
<1> QED BY <1>2, <1>13, <1>18 DEF KeepsPromise, Life!Next

(* The steps of a conversation.                                            *)
LEMMA ConversationKept ==
  ASSUME Typed, Custody, NEW t \in Testers, Converses(t)
  PROVE  KeepsPromise
<1>1. ASSUME StartWorking(t) \/ StartP2Timer(t)
      PROVE  KeepsPromise
  <2>1. /\ UNCHANGED <<routing_queue, arbitrate_cache_map, thread, outcome>>
        /\ \A u \in Testers : u # t => conversation'[u] = conversation[u]
        /\ \/ conversation[t].at = "pass" /\ conversation'[t] = [at |-> "route", req |-> conversation[t].req]
           \/ conversation[t].at = "arm" /\ conversation'[t] = Free
    BY <1>1 DEF StartWorking, StartP2Timer, Converse, route_vars, Typed, TypeOK
  <2>2. Staying({})
    BY <2>1 DEF Staying, Stays, Admitted, Deferred, InQueue, InCache, Carried, Free
  <2>3. Once'
    BY <2>1 DEF Custody, Once, Free
  <2> QED BY <2>2, <2>3, StayKept
<1> QED BY <1>1, RoutingKept, CacheKept DEF Converses
-----------------------------------------------------------------------------
(* The steps of the senders.                                               *)

(* A sender goes on with its request, or settles it.                       *)
LEMMA SenderKept ==
  ASSUME Typed, Custody, NEW w \in Senders, NEW r \in Requests, r = thread[w].req,
         UNCHANGED <<conversation, routing_queue, arbitrate_cache_map>>,
         \A v \in Senders \ {w} : thread'[v] = thread[v],
         \A q \in Requests \ {r} : outcome'[q] = outcome[q],
         thread'[w].req \in {r, None},
         \/ outcome[r] = "open" /\ outcome'[r] = "open" /\ thread'[w].req = r
         \/ /\ outcome'[r] \in {"closed", "failed", "sent"} /\ outcome[r] \in {"open", outcome'[r]}
            /\ thread'[w].req = None \/ (outcome'[r] = "closed" /\ thread'[w].at \in Routes)
  PROVE  KeepsPromise
<1>1. None \notin Requests
  BY NamesAssumption
<1>2. InPlace(r) /\ Carried(r) /\ ~Waits(r)
  BY DEF Custody, Carried, InPlace, Waits
<1>3. \A v \in Senders \ {w} : thread[v].req # r
  BY <1>1 DEF Custody, Once
<1>4. \A q \in Requests \ {r} : Stays(q)
  BY <1>1 DEF Stays, Admitted, Deferred, InQueue, InCache, Carried
<1>5. ~Waits(r)' /\ (Carried(r)' <=> thread'[w].req = r)
  BY <1>1, <1>2, <1>3 DEF Waits, Admitted, Deferred, InQueue, InCache, Carried
<1>6. InPlace(r)'
  BY <1>1, <1>5 DEF InPlace, Waits
<1>7. Once'
  <2>1. \A u, v \in Senders : thread'[u].req = thread'[v].req /\ thread'[u].req # None => u = v
    BY <1>3 DEF Custody, Once
  <2>2. \A v \in Senders \ {w} : thread[v].req # None => outcome'[thread[v].req] = outcome[thread[v].req]
    BY <1>3, SenderFacts
  <2>3. \A v \in Senders : thread'[v].req # None =>
          \/ outcome'[thread'[v].req] = "open"
          \/ thread'[v].at \in Routes /\ outcome'[thread'[v].req] = "closed"
    BY <2>2 DEF Custody, Once
  <2> QED BY <2>1, <2>3 DEF Custody, Once
<1>8. CASE outcome[r] = "open" /\ outcome'[r] \in {"closed", "failed", "sent"}
  <2>1. Reaches("forwarding", r)
    BY <1>2, <1>8 DEF Reaches, Named
  <2> SUFFICES ASSUME NEW x, x = outcome'[r]
               PROVE  KeepsPromise
    OBVIOUS
  <2>2. Reaches(x, r)'
    BY <1>8 DEF Reaches
  <2>3. Custody' /\ Life!Move(r, {"forwarding"}, {"closed", "failed", "sent"})
    BY <1>4, <1>6, <1>7, <1>8, <2>1, <2>2, MoveKept DEF Staying
  <2> QED BY <2>3 DEF KeepsPromise, Life!Next, Life!Settle
<1>9. CASE outcome'[r] = outcome[r]
  <2>1. CASE Carried(r)'
    <3>1. Stays(r)
      BY <1>2, <1>5, <1>9, <2>1 DEF Stays, Waits
    <3> QED BY <1>4, <1>7, <3>1, StayKept DEF Staying
  <2>2. CASE ~Carried(r)'
    <3>1. outcome[r] = "closed"
      BY <1>1, <1>5, <1>9, <2>2 DEF Custody, Once
    <3>2. Reaches("closed", r) /\ Reaches("closed", r)'
      BY <1>9, <3>1 DEF Reaches
    <3>3. Custody' /\ Life!Move(r, {"closed"}, {"closed"})
      BY <1>4, <1>6, <1>7, <3>2, MoveKept DEF Staying
    <3>4. UNCHANGED [q \in Requests |-> Stage(q)]
      <4>1. StagesKnown /\ StagesKnown'
        BY <3>3, StagesAre, PTL
      <4>2. Stage(r)' = Stage(r)
        BY <1>9, <3>1, <4>1 DEF StagesKnown
      <4>3. \A q \in Requests : Stage(q)' = Stage(q)
        BY <1>4, <4>2, StageStays
      <4> QED BY <4>3
    <3> QED BY <3>3, <3>4 DEF KeepsPromise
  <2> QED BY <2>1, <2>2
<1> QED BY <1>8, <1>9

(* A request that cannot be sent now, or that is on its way to its ECU, is *)
(* settled or carried on (CheckAndHandleMessage, SendDiagnosticMessage).   *)
LEMMA ForwardKept ==
  ASSUME Typed, Custody, NEW w \in Senders, Forwards(w), NEW r, r = thread[w].req
  PROVE  KeepsPromise
<1>1. thread[w].at \in {"handle", "send", "sending"}
  BY DEF Forwards, CheckAndHandleMessage, ConnectServer, ConnectServerFails, SendDiagnosticMessage,
         SendDiagnosticMessageFails, At
<1>2. w \in Threads /\ r \in Requests /\ thread \in [Threads -> ThreadState]
  BY <1>1, ThreadFacts DEF Typed, TypeOK, Threads
<1>3. outcome[r] = "open" /\ outcome \in [Requests -> {"new", "open"} \cup Final]
  BY <1>1, <1>2, NamesAssumption DEF Custody, Once, Routes, Typed, TypeOK
<1>4. UNCHANGED <<conversation, routing_queue, arbitrate_cache_map>>
  BY DEF Forwards, CheckAndHandleMessage, ConnectServer, ConnectServerFails, SendDiagnosticMessage,
         SendDiagnosticMessageFails, arbitration_vars, route_vars
<1>5. ASSUME NEW at, NEW a, Go(w, at, a, r), UNCHANGED outcome
      PROVE  KeepsPromise
  <2>1. thread'[w].req = r /\ \A v \in Senders \ {w} : thread'[v] = thread[v]
    BY <1>5, Carrying
  <2> QED BY <1>2, <1>3, <1>4, <1>5, <2>1, SenderKept
<1>6. ASSUME Rest(w) \/ \E at, a : Go(w, at, a, None), NEW x \in {"closed", "failed", "sent"}, Settle(r, x)
      PROVE  KeepsPromise
  <2>1. thread'[w].req = None /\ \A v \in Senders \ {w} : thread'[v] = thread[v]
    BY <1>6, Carrying
  <2>2. outcome'[r] = x /\ \A q \in Requests \ {r} : outcome'[q] = outcome[q]
    BY <1>2, <1>3, <1>6 DEF Settle
  <2> QED BY <1>2, <1>3, <1>4, <2>1, <2>2, SenderKept
<1>7. CASE CheckAndHandleMessage(w)
  BY <1>5, <1>6, <1>7 DEF CheckAndHandleMessage
<1>8. CASE ConnectServer(w)
  BY <1>5, <1>8 DEF ConnectServer
<1>9. CASE ConnectServerFails(w)
  BY <1>6, <1>9 DEF ConnectServerFails
<1>10. CASE SendDiagnosticMessage(w)
  BY <1>6, <1>10 DEF SendDiagnosticMessage
<1>11. CASE SendDiagnosticMessageFails(w)
  BY <1>6, <1>11 DEF SendDiagnosticMessageFails
<1> QED BY <1>7, <1>8, <1>9, <1>10, <1>11 DEF Forwards

(* A functional request goes to the gateways and then to the nodes         *)
(* (HandleFunctionalRouting, BroadcastToGateways, BroadcastToNodes).       *)
LEMMA BroadcastKept ==
  ASSUME Typed, Custody, NEW r, r = thread["routing"].req,
         HandleFunctionalRouting \/ BroadcastToGateways \/ BroadcastToNodes
  PROVE  KeepsPromise
<1> DEFINE w == "routing"
<1>1. w \in Senders /\ thread[w].at \in {"handle"} \cup Routes
  BY DEF HandleFunctionalRouting, BroadcastToGateways, BroadcastToNodes, At, Routes, Senders
<1>2. w \in Threads /\ r \in Requests /\ thread \in [Threads -> ThreadState]
  BY <1>1, ThreadFacts DEF Typed, TypeOK, Threads
<1>3. outcome[r] \in {"open", "closed"} /\ outcome \in [Requests -> {"new", "open"} \cup Final]
  BY <1>1, <1>2, NamesAssumption DEF Custody, Once, Routes, Typed, TypeOK
<1>4. UNCHANGED <<conversation, routing_queue, arbitrate_cache_map>>
  BY DEF HandleFunctionalRouting, BroadcastToGateways, BroadcastToNodes, arbitration_vars, route_vars
<1>5. ASSUME NEW x, Settle(r, x)
      PROVE  outcome'[r] = x /\ \A q \in Requests \ {r} : outcome'[q] = outcome[q]
  BY <1>2, <1>3, <1>5 DEF Settle
<1>6. CASE HandleFunctionalRouting
  <2>1. outcome[r] = "open"
    BY <1>1, <1>2, <1>6, NamesAssumption DEF HandleFunctionalRouting, At, Custody, Once, Routes
  <2>2. outcome'[r] \in {"open", "closed"} /\ \A q \in Requests \ {r} : outcome'[q] = outcome[q]
    BY <1>5, <1>6 DEF HandleFunctionalRouting
  <2>3. thread'[w] = [at |-> "Gateway", addr |-> None, req |-> r]
    BY <1>2, <1>6 DEF HandleFunctionalRouting, Go
  <2>4. \A v \in Senders \ {w} : thread'[v] = thread[v]
    BY <1>1, <1>6, Carrying DEF HandleFunctionalRouting
  <2> QED BY <1>1, <1>2, <1>4, <2>1, <2>2, <2>3, <2>4, SenderKept DEF Routes
<1>7. CASE BroadcastToGateways
  <2>1. thread'[w] = [at |-> "Node", addr |-> None, req |-> r]
    BY <1>2, <1>7 DEF BroadcastToGateways, Go
  <2>2. (\A v \in Senders \ {w} : thread'[v] = thread[v]) /\ UNCHANGED outcome
    BY <1>1, <1>7, Carrying DEF BroadcastToGateways
  <2> QED BY <1>1, <1>2, <1>3, <1>4, <2>1, <2>2, SenderKept DEF Routes
<1>8. CASE BroadcastToNodes
  <2>1. thread'[w].req = None /\ \A v \in Senders \ {w} : thread'[v] = thread[v]
    BY <1>1, <1>8, Carrying DEF BroadcastToNodes
  <2>2. /\ outcome'[r] = IF outcome[r] = "open" THEN "sent" ELSE outcome[r]
        /\ \A q \in Requests \ {r} : outcome'[q] = outcome[q]
    BY <1>5, <1>8 DEF BroadcastToNodes
  <2> QED BY <1>1, <1>2, <1>3, <1>4, <2>1, <2>2, SenderKept
<1> QED BY <1>6, <1>7, <1>8

(* The first request of the routing queue goes to the routing thread       *)
(* (Routing::HandleRoutingMessage).                                        *)
LEMMA DequeueKept ==
  ASSUME Typed, Custody, HandleRoutingMessage, NEW r, r = Head(routing_queue)
  PROVE  KeepsPromise
<1> DEFINE w == "routing"
<1>1. /\ w \in Senders /\ w \in Threads /\ thread[w].at = "idle"
      /\ routing_queue # <<>> /\ routing_queue' = Tail(routing_queue)
      /\ UNCHANGED <<conversation, arbitrate_cache_map, outcome>>
  BY DEF HandleRoutingMessage, At, Senders, Threads, arbitration_vars
<1>2. routing_queue \in Seq(Requests) /\ None \notin Requests
  BY NamesAssumption DEF Typed, TypeOK, RouteTypeOK
<1>3. r \in Requests /\ thread[w].req = None
  <2>1. r \in Requests
    BY <1>1, <1>2
  <2>2. thread[w].req = None
    BY <1>1 DEF Typed, TypeOK, ThreadState, Idle, Routes, Waiting, Finishing, EcuMessages
  <2> QED BY <2>1, <2>2
<1>4. /\ Len(routing_queue) \in Nat \ {0} /\ DOMAIN routing_queue = 1..Len(routing_queue)
      /\ DOMAIN routing_queue' = 1..(Len(routing_queue) - 1)
      /\ \A i \in DOMAIN routing_queue' : routing_queue'[i] = routing_queue[i + 1]
      /\ r = routing_queue[1]
  BY <1>1, <1>2
<1>5. \A i, j \in DOMAIN routing_queue : routing_queue[i] = routing_queue[j] => i = j
  BY DEF Custody, Once
<1>6. InQueue(r) /\ InPlace(r) /\ outcome[r] = "open"
  BY <1>3, <1>4 DEF InQueue, Custody, InPlace, Waits
<1>7. ~InQueue(r)'
  BY <1>4, <1>5 DEF InQueue
<1>8. \A q \in Requests \ {r} : InQueue(q)' <=> InQueue(q)
  <2> SUFFICES ASSUME NEW q \in Requests \ {r}
               PROVE  InQueue(q)' <=> InQueue(q)
    OBVIOUS
  <2>1. ASSUME NEW i \in DOMAIN routing_queue, routing_queue[i] = q
        PROVE  InQueue(q)'
    <3>1. i # 1 /\ i - 1 \in DOMAIN routing_queue' /\ routing_queue'[i - 1] = q
      BY <1>4, <2>1
    <3> QED BY <3>1 DEF InQueue
  <2>2. ASSUME NEW i \in DOMAIN routing_queue', routing_queue'[i] = q
        PROVE  InQueue(q)
    <3>1. i + 1 \in DOMAIN routing_queue /\ routing_queue[i + 1] = q
      BY <1>4, <2>2
    <3> QED BY <3>1 DEF InQueue
  <2> QED BY <2>1, <2>2 DEF InQueue
<1>9. thread'[w].req = r /\ \A v \in Senders \ {w} : thread'[v] = thread[v]
  BY <1>1, Carrying DEF HandleRoutingMessage
<1>10. \A q \in Requests \ {r} : Stays(q)
  BY <1>1, <1>2, <1>3, <1>8, <1>9 DEF Stays, Admitted, Deferred, InCache, Carried
<1>11. InPlace(r)' /\ Reaches("queued", r) /\ Reaches("forwarding", r)'
  <2>1. ~Waits(r)'
    BY <1>1, <1>6, <1>7 DEF InPlace, Waits, Admitted, Deferred, InCache
  <2>2. Carried(r)'
    BY <1>1, <1>9 DEF Carried
  <2> QED BY <1>1, <1>6, <2>1, <2>2 DEF InPlace, Waits, Reaches, Named
<1>12. Once'
  <2>1. \A i, j \in DOMAIN routing_queue' : routing_queue'[i] = routing_queue'[j] => i = j
    BY <1>4, <1>5
  <2>2. \A v \in Senders : thread[v].req # r
    BY <1>6 DEF InPlace, Carried
  <2>3. \A u, v \in Senders : thread'[u].req = thread'[v].req /\ thread'[u].req # None => u = v
    BY <1>9, <2>2 DEF Custody, Once
  <2>4. \A v \in Senders : thread'[v].req # None =>
          \/ outcome'[thread'[v].req] = "open"
          \/ thread'[v].at \in Routes /\ outcome'[thread'[v].req] = "closed"
    BY <1>1, <1>6, <1>9 DEF Custody, Once
  <2> QED BY <1>1, <2>1, <2>3, <2>4 DEF Custody, Once
<1>13. Custody' /\ Life!Move(r, {"queued", "waiting"}, {"forwarding"})
  BY <1>3, <1>10, <1>11, <1>12, MoveKept DEF Staying
<1> QED BY <1>3, <1>13 DEF KeepsPromise, Life!Next, Life!Forward

(* A request that waits in the cache goes to the arbitrating thread        *)
(* (Arbitration::SendCacheMessage).                                        *)
LEMMA UncacheKept ==
  ASSUME Typed, Custody, SendCacheMessage, NEW a, a = thread["arbitrating"].addr,
         HasCacheMessage(a), NEW r, r = arbitrate_cache_map[a]
  PROVE  KeepsPromise
<1> DEFINE w == "arbitrating"
<1>1. /\ w \in Senders /\ w \in Threads /\ thread[w].at = "popped" /\ r # None
      /\ arbitrate_cache_map' = [arbitrate_cache_map EXCEPT ![a] = None]
      /\ UNCHANGED <<conversation, routing_queue, outcome>>
  BY DEF SendCacheMessage, EraseCacheMessage, HasCacheMessage, At, Senders, Threads, route_vars
<1>2. arbitrate_cache_map \in [Addresses -> Requests \cup {None}] /\ None \notin Requests
  BY NamesAssumption DEF Typed, TypeOK, ArbitrationTypeOK
<1>3. a \in Addresses /\ r \in Requests /\ thread[w].req = None
  BY <1>1, <1>2, ThreadFacts DEF Typed, TypeOK, ThreadState, Idle, Waiting, Routes
<1>4. \A b \in Addresses : arbitrate_cache_map[b] # None => TargetOf[arbitrate_cache_map[b]] = b
  BY DEF Typed, Consistent, HasCacheMessage
<1>5. InCache(r) /\ InPlace(r) /\ outcome[r] = "open"
  BY <1>3 DEF InCache, Custody, InPlace, Waits
<1>6. /\ arbitrate_cache_map'[a] = None
      /\ \A b \in Addresses \ {a} : arbitrate_cache_map'[b] = arbitrate_cache_map[b]
  BY <1>1, <1>2, <1>3
<1>7. ~InCache(r)'
  BY <1>1, <1>3, <1>4, <1>6 DEF InCache
<1>8. thread'[w].req = r /\ \A v \in Senders \ {w} : thread'[v] = thread[v]
  <2>1. Go(w, "handle", a, r)
    BY DEF SendCacheMessage
  <2> QED BY <1>1, <2>1, Carrying
<1>9. \A q \in Requests \ {r} : Stays(q)
  BY <1>1, <1>2, <1>3, <1>6, <1>8 DEF Stays, Admitted, Deferred, InQueue, InCache, Carried
<1>10. InPlace(r)' /\ Reaches("waiting", r) /\ Reaches("forwarding", r)'
  <2>1. ~Waits(r)'
    BY <1>1, <1>5, <1>7 DEF InPlace, Waits, Admitted, Deferred, InQueue
  <2>2. Carried(r)'
    BY <1>1, <1>8 DEF Carried
  <2> QED BY <1>1, <1>5, <2>1, <2>2 DEF InPlace, Waits, Reaches, Named
<1>11. Once'
  <2>1. \A v \in Senders : thread[v].req # r
    BY <1>5 DEF InPlace, Carried
  <2>2. \A u, v \in Senders : thread'[u].req = thread'[v].req /\ thread'[u].req # None => u = v
    BY <1>8, <2>1 DEF Custody, Once
  <2>3. \A v \in Senders : thread'[v].req # None =>
          \/ outcome'[thread'[v].req] = "open"
          \/ thread'[v].at \in Routes /\ outcome'[thread'[v].req] = "closed"
    BY <1>1, <1>5, <1>8 DEF Custody, Once
  <2> QED BY <1>1, <2>2, <2>3 DEF Custody, Once
<1>12. Custody' /\ Life!Move(r, {"queued", "waiting"}, {"forwarding"})
  BY <1>3, <1>9, <1>10, <1>11, MoveKept DEF Staying
<1> QED BY <1>3, <1>12 DEF KeepsPromise, Life!Next, Life!Forward

-----------------------------------------------------------------------------
(* Every other step leaves the requests where they are: it ends the use of *)
(* an address, reacts to an ECU or to a timer.                             *)
LEMMA OthersKept ==
  ASSUME Typed, Custody,
         \/ HandleArbitrateAddressQueue \/ (SendCacheMessage /\ ~HasCacheMessage(thread["arbitrating"].addr))
         \/ \E w \in Threads : Finishes(w)
         \/ \E p \in Processors, message \in EcuMessages, a \in Addresses, r \in Requests :
              HandleMessage(p, message, a, r)
         \/ \E p \in Processors : Receives(p)
         \/ \E p \in Processors, state \in BOOLEAN : GatewayRoutingStateChange(p, state)
         \/ \E a \in Addresses : Expires(a)
         \/ ReleaseAddress \/ SendPendingMessage \/ StartP2StarTimer
  PROVE  KeepsPromise
<1> USE DEF At, arbitration_vars, route_vars
<1>1. ASSUME NEW w \in Threads,
             \/ thread[w].at \in {"idle"} \cup Waiting \cup Finishing \cup EcuMessages \/ w \notin Senders,
             Rest(w) \/ \E at, a : Go(w, at, a, None)
      PROVE  \A v \in Senders : \/ thread'[v] = thread[v]
                                \/ thread[v].req = None /\ thread'[v].req = None
  <2>1. w \in Senders => thread'[w].req = None /\ \A v \in Senders \ {w} : thread'[v] = thread[v]
    BY <1>1, Carrying
  <2>2. w \in Senders => thread[w].req = None
    BY <1>1 DEF Typed, TypeOK, ThreadState, Idle, Routes, Waiting, Finishing, EcuMessages
  <2>3. w \notin Senders => \A v \in Senders : thread'[v] = thread[v]
    BY <1>1, OtherThreads DEF Threads
  <2> QED BY <2>1, <2>2, <2>3
<1>2. /\ Senders \cup TimerThreads \cup Processors \subseteq Threads
      /\ Senders \cap (TimerThreads \cup Processors) = {}
  BY ThreadsAssumption DEF Threads, Senders, TimerThreads
<1>3. CASE HandleArbitrateAddressQueue
  <2>1. \A v \in Senders : thread'[v] = thread[v] \/ (thread[v].req = None /\ thread'[v].req = None)
    BY <1>1, <1>2, <1>3 DEF HandleArbitrateAddressQueue, Senders
  <2> QED BY <1>3, <2>1, ElsewhereKept DEF HandleArbitrateAddressQueue
<1>4. CASE SendCacheMessage /\ ~HasCacheMessage(thread["arbitrating"].addr)
  <2>1. \A v \in Senders : thread'[v] = thread[v] \/ (thread[v].req = None /\ thread'[v].req = None)
    BY <1>1, <1>2, <1>4 DEF SendCacheMessage, Senders, Waiting
  <2> QED BY <1>4, <2>1, ElsewhereKept DEF SendCacheMessage
<1>5. ASSUME NEW w \in Threads, Finishes(w)
      PROVE  KeepsPromise
  <2>1. \A v \in Senders : thread'[v] = thread[v] \/ (thread[v].req = None /\ thread'[v].req = None)
    BY <1>1, <1>5 DEF Finishes, EraseConversation, ArbitrateAddressFinish, KeepAddress, Finishing
  <2>2. UNCHANGED <<conversation, routing_queue, arbitrate_cache_map, outcome>>
    BY <1>5 DEF Finishes, EraseConversation, ArbitrateAddressFinish, KeepAddress
  <2> QED BY <2>1, <2>2, ElsewhereKept
<1>6. ASSUME NEW p \in Processors,
             \/ \E message \in EcuMessages, a \in Addresses, r \in Requests :
                  HandleMessage(p, message, a, r)
             \/ Receives(p)
             \/ \E state \in BOOLEAN : GatewayRoutingStateChange(p, state)
      PROVE  KeepsPromise
  <2>1. \A v \in Senders : thread'[v] = thread[v] \/ (thread[v].req = None /\ thread'[v].req = None)
    BY <1>1, <1>2, <1>6 DEF HandleMessage, Receives, StopTimer, StartTimer, GatewayRoutingStateChange
  <2>2. UNCHANGED <<conversation, routing_queue, arbitrate_cache_map, outcome>>
    BY <1>6 DEF HandleMessage, Receives, StopTimer, StartTimer, GatewayRoutingStateChange
  <2> QED BY <2>1, <2>2, ElsewhereKept
<1>7. ASSUME NEW a \in Addresses, Expires(a)
      PROVE  KeepsPromise
  <2>1. \A v \in Senders : thread'[v] = thread[v] \/ (thread[v].req = None /\ thread'[v].req = None)
    BY <1>1, <1>2, <1>7
       DEF Expires, AcknowledgementTimeout, ResponseTimeout, ArbitrationTimeout, PendingTimeout, TimerThreads
  <2>2. UNCHANGED <<conversation, routing_queue, arbitrate_cache_map, outcome>>
    BY <1>7 DEF Expires, AcknowledgementTimeout, ResponseTimeout, ArbitrationTimeout, PendingTimeout
  <2> QED BY <2>1, <2>2, ElsewhereKept
<1>8. CASE ReleaseAddress \/ SendPendingMessage \/ StartP2StarTimer
  <2>1. \A v \in Senders : thread'[v] = thread[v] \/ (thread[v].req = None /\ thread'[v].req = None)
    BY <1>1, <1>2, <1>8 DEF ReleaseAddress, SendPendingMessage, StartP2StarTimer, TimerThreads
  <2>2. UNCHANGED <<conversation, routing_queue, arbitrate_cache_map, outcome>>
    BY <1>8 DEF ReleaseAddress, SendPendingMessage, StartP2StarTimer
  <2> QED BY <2>1, <2>2, ElsewhereKept
<1> QED BY <1>3, <1>4, <1>5, <1>6, <1>7, <1>8

(* Every step keeps custody, and is a step of RequestLife or none.         *)
LEMMA NextKept ==
  ASSUME Typed, Custody, [Next]_vars
  PROVE  KeepsPromise
<1>1. CASE UNCHANGED vars
  BY <1>1, ElsewhereKept DEF vars, arbitration_vars, route_vars
<1>2. CASE Dispatches
  BY <1>2, DequeueKept, BroadcastKept DEF Dispatches
<1>3. CASE Arbitrates
  BY <1>3, UncacheKept, OthersKept DEF Arbitrates
<1>4. ASSUME NEW w \in Senders, Forwards(w)
      PROVE  KeepsPromise
  BY <1>4, ForwardKept
<1> QED BY <1>1, <1>2, <1>3, <1>4, RequestKept, ConversationKept, OthersKept DEF Next

(* Nothing has been sent when the proxy starts.                            *)
LEMMA InitKept == Init => Custody /\ Life!Init
<1> SUFFICES ASSUME Init
             PROVE  Custody /\ Life!Init
  OBVIOUS
<1>1. Custody
  BY NamesAssumption
     DEF Init, ArbitrationInit, RouteInit, Custody, InPlace, Waits, Admitted, Deferred, InQueue,
         InCache, Carried, Once, Free, Idle, Senders, Threads
<1>2. \A r \in Requests : Stage(r) = "new"
  BY <1>1, StagesAre DEF StagesKnown, Init
<1> QED BY <1>1, <1>2 DEF Life!Init

(* An open request is in exactly one place - with its conversation, in the *)
(* routing queue, in the cache or with a sender - and there only once; a   *)
(* request that is settled is in none.                                     *)
THEOREM CustodyInvariant == Spec => []Custody
<1>1. Typed /\ Custody /\ [Next]_vars => Custody'
  BY NextKept DEF KeepsPromise
<1>2. QED BY <1>1, InitKept, TypedInvariant, PTL DEF Spec

(* The proxy implements RequestLife: whatever its threads do, no request   *)
(* is lost, none is sent or answered twice, and one that is displaced in   *)
(* the cache is told busy.                                                 *)
THEOREM ImplementsRequestLife == Spec => RequestLifeHolds
<1>1. Typed /\ Custody /\ [Next]_vars => [Life!Next]_[r \in Requests |-> Stage(r)]
  BY NextKept DEF KeepsPromise
<1>2. QED BY <1>1, InitKept, TypedInvariant, CustodyInvariant, PTL DEF Spec, RequestLifeHolds, Life!Spec
=============================================================================
