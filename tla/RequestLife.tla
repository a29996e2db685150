----------------------------- MODULE RequestLife -----------------------------
(***************************************************************************)
(* What the proxy promises about every request, whatever its threads do:   *)
(* it is in one place at a time, it is forwarded at most once, nothing is  *)
(* lost on the way, and it is settled exactly once.  Only one request can  *)
(* wait for an address; the one that is displaced is told so.              *)
(***************************************************************************)
EXTENDS Diagnostics

VARIABLE stage  \* request -> where it is in its life

Final == {"rejected", "busy", "closed", "failed", "sent"}

Stages ==
  {"new", "admitted", "pending", "waiting", "queued", "forwarding"} \cup Final

Init == stage = [r \in Requests |-> "new"]

Move(r, from, to) ==
  /\ stage[r] \in from
  /\ \E s \in to : stage' = [stage EXCEPT ![r] = s]

(* The arbitration's verdict; only a physical request is made to wait.     *)
Arbitrate(r) ==
  Move(r, {"new"}, {"admitted", "rejected"} \cup (IF Physical(r) THEN {"pending"} ELSE {}))

(* A request starts to wait, and displaces the one that waited before.     *)
Wait(r) ==
  /\ stage[r] = "pending"
  /\ stage' = [q \in Requests |->
       CASE q = r -> "waiting"
         [] q # r /\ stage[q] = "waiting" /\ TargetOf[q] = TargetOf[r] -> "busy"
         [] OTHER -> stage[q]]

Queue(r) == Move(r, {"admitted"}, {"queued"})

Forward(r) == Move(r, {"queued", "waiting"}, {"forwarding"})

Settle(r) == Move(r, {"forwarding"}, {"closed", "failed", "sent"})

Next ==
  \E r \in Requests : Arbitrate(r) \/ Wait(r) \/ Queue(r) \/ Forward(r) \/ Settle(r)

Spec == Init /\ [][Next]_stage

(* One request at a time waits for an address.                             *)
OneWaits ==
  \A q, r \in Requests :
    stage[q] = "waiting" /\ stage[r] = "waiting" /\ TargetOf[q] = TargetOf[r] => q = r
=============================================================================
