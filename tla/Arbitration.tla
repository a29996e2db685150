----------------------------- MODULE Arbitration -----------------------------
(***************************************************************************)
(* class Arbitration and class ArbitrationTimer: who may use a diagnostic  *)
(* address.  Every operator below is what the code does under one lock, so *)
(* that the modules composing it can interleave threads between them.      *)
(***************************************************************************)
EXTENDS Diagnostics

VARIABLES
  arbitrate_map,            \* address -> Initial, Working or Keeping
  arbitrate_info_map,       \* address -> the tester it was last granted to
  arbitrate_cache_map,      \* address -> the one request waiting for it
  arbitrate_address_queue,  \* addresses whose waiting request is to be sent
  arbitration_timer,        \* addresses whose 5 s keeping timer is running
  pending_timer             \* addresses whose P2 / P2* timer is running

arbitration_vars ==
  <<arbitrate_map, arbitrate_info_map, arbitrate_cache_map,
    arbitrate_address_queue, arbitration_timer, pending_timer>>

ArbitrateState == {"Initial", "Working", "Keeping"}

ArbitrationTypeOK ==
  /\ arbitrate_map \in [Addresses -> ArbitrateState]
  /\ arbitrate_info_map \in [Addresses -> Testers \cup {None}]
  /\ arbitrate_cache_map \in [Addresses -> Requests \cup {None}]
  /\ arbitrate_address_queue \in Seq(Addresses)
  /\ arbitration_timer \subseteq Addresses
  /\ pending_timer \subseteq Addresses

(* Subscribe: every address starts free, with its timers stopped.          *)
ArbitrationInit ==
  /\ arbitrate_map = [a \in Addresses |-> "Initial"]
  /\ arbitrate_info_map = [a \in Addresses |-> None]
  /\ arbitrate_cache_map = [a \in Addresses |-> None]
  /\ arbitrate_address_queue = <<>>
  /\ arbitration_timer = {}
  /\ pending_timer = {}

-----------------------------------------------------------------------------
(* The decision on a physical request, taken under arbitrate_mutex_.       *)

Outranks(t, u) == PriorityOf[t] < PriorityOf[u]

Held(a) == arbitrate_map[a] # "Initial" /\ arbitrate_info_map[a] # None

Preempts(a, t) == Held(a) /\ Outranks(t, arbitrate_info_map[a])

(* The tester an address is kept for comes back to it.                     *)
Resumes(a, t) ==
  /\ arbitrate_map[a] = "Keeping"
  /\ PriorityOf[t] = PriorityOf[arbitrate_info_map[a]]
  /\ AddressOf[t] = AddressOf[arbitrate_info_map[a]]

ArbitrateResult(a, t) ==
  CASE ~Held(a) -> "Pass"
    [] Preempts(a, t) -> IF arbitrate_map[a] = "Working" THEN "Pending" ELSE "Pass"
    [] OTHER -> IF Resumes(a, t) THEN "Pass" ELSE "Reject"

GetArbitrateResult(a, t) ==
  arbitrate_info_map' =
    IF arbitrate_map[a] = "Initial" \/ Preempts(a, t)
    THEN [arbitrate_info_map EXCEPT ![a] = t]
    ELSE arbitrate_info_map

(* The decision on a functional request: no address may be working.        *)
FunctionalRejected == \E a \in Addresses : arbitrate_map[a] = "Working"

-----------------------------------------------------------------------------
(* The life of an address.                                                 *)

ArbitrateStart(a) ==
  arbitrate_map' = [arbitrate_map EXCEPT ![a] = "Working"]

(* Mutant: the keeping timer is not started.                               *)
KeepUntimed(a) ==
  /\ UNCHANGED arbitration_timer
  /\ arbitrate_map' = [arbitrate_map EXCEPT ![a] = "Keeping"]

(* ArbitrateAddressKeeping: arms the keeping timer, then ArbitrateFinish.  *)
ArbitrateAddressKeeping(a) ==
  /\ arbitration_timer' = arbitration_timer \cup {a}
  /\ arbitrate_map' = [arbitrate_map EXCEPT ![a] = "Keeping"]

(* ArbitrationTimeout -> ArbitrateRelease, whatever the address is doing.  *)
ArbitrateRelease(a) ==
  arbitrate_map' = [arbitrate_map EXCEPT ![a] = "Initial"]

-----------------------------------------------------------------------------
(* The cache: one waiting request for each address.                        *)

HasCacheMessage(a) == arbitrate_cache_map[a] # None

CacheMessage(a, r) ==
  arbitrate_cache_map' = [arbitrate_cache_map EXCEPT ![a] = r]

EraseCacheMessage(a) ==
  arbitrate_cache_map' = [arbitrate_cache_map EXCEPT ![a] = None]

AddArbitrateAddress(a) ==
  arbitrate_address_queue' = Append(arbitrate_address_queue, a)

PopArbitrateAddress ==
  arbitrate_address_queue' = Tail(arbitrate_address_queue)

StartPendingTimer(a) == pending_timer' = pending_timer \cup {a}
=============================================================================
