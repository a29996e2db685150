---------------------------- MODULE MCScriptDaemon ----------------------------
(* Instances of ScriptDaemon: two scripts of a client, t1 and t2, a        *)
(* periodic task, per, and an event task, ev.                              *)
EXTENDS ScriptDaemon

CONSTANTS t1, t2, per, ev, file1, file2, file3, file4, p1, p2, p3

Types == [p \in Paths |-> CASE p = per -> "periodic" [] p = ev -> "event" [] OTHER -> "temp"]

OwnFiles == [p \in Paths |-> CASE p = t1 -> file1 [] p = t2 -> file2
                               [] p = per -> file3 [] p = ev -> file4]

(* The client's script and the periodic one have the same directory name.  *)
SharedFiles == [p \in Paths |-> IF p = ev THEN file4 ELSE file1]

Priorities == [p \in Paths |-> IF p = per THEN 2 ELSE 1]
=============================================================================
