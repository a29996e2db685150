-------------------------- MODULE MCDiagnosticProxy --------------------------
(***************************************************************************)
(* Instances of DiagnosticProxy.  The priorities 1 (a local tester) and 3  *)
(* (a virtual one) are those of the TesterTable in proxy_config.json; a    *)
(* tester between the two makes it possible to displace a waiting request. *)
(***************************************************************************)
EXTENDS DiagnosticProxy, TLC

CONSTANTS a1, a2, g, local, middle, virtual, r1, r2, r3, r4, f1, sa1, sa2

TestersAddress == local :> sa1 @@ middle :> sa1 @@ virtual :> sa2
TestersPriority == local :> 1 @@ middle :> 2 @@ virtual :> 3
RequestsTester == r1 :> virtual @@ r2 :> local @@ r3 :> middle @@ r4 :> local @@ f1 :> local
RequestsSid == r1 :> 34 @@ r2 :> 34 @@ r3 :> 16 @@ r4 :> 34 @@ f1 :> 16

Only(S, f) == [x \in S |-> f[x]]
AddressOfTesters == Only(Testers, TestersAddress)
PriorityOfTesters == Only(Testers, TestersPriority)
TesterOfRequests == Only(Requests, RequestsTester)
SidOfRequests == Only(Requests, RequestsSid)

(* Every physical request is for the same address.                         *)
AllToOne == [r \in Requests |-> a1]

(* A functional request besides, which is for every address.               *)
AndFunctional == [r \in Requests |-> IF r = f1 THEN Functional ELSE a1]

BehindOne == [a \in Addresses |-> g]
=============================================================================
