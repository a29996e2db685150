----------------------- MODULE MCRoutingDoIpConnection -----------------------
(* One connection to an ECU that asks for activation, with at most three   *)
(* sockets open at a time.                                                 *)
EXTENDS RoutingDoIpConnection

CONSTANTS s1, s2, s3
=============================================================================
