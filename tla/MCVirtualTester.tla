---------------------------- MODULE MCVirtualTester ----------------------------
(* Instances of VirtualTester: task r1 has a script that runs once, t1, r2 *)
(* a periodic one, per.                                                    *)
EXTENDS VirtualTester

CONSTANTS t1, per, file1, file2, r1, r2, p1, p2

Types == [p \in Paths |-> IF p = per THEN "periodic" ELSE "temp"]
OwnFiles == [p \in Paths |-> IF p = per THEN file2 ELSE file1]
Priorities == [p \in Paths |-> 1]
Directories == [r \in Tasks |-> IF r = r2 THEN per ELSE t1]
=============================================================================
