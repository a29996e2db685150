-------------------------- MODULE MCDoIpConnection --------------------------
(***************************************************************************)
(* Instances of DoIpConnection: a host that connects twice, with s1 and    *)
(* then s3, and hosts that connect once, which may change places.          *)
(***************************************************************************)
EXTENDS DoIpConnection, TLC

CONSTANTS h1, h2, h3, s1, s2, s3, sa1, sa2

Only(S, f) == [x \in S |-> f[x]]
ConnectingTwice == Only(Sockets, s1 :> h1 @@ s2 :> h2 @@ s3 :> h1)
ConnectingOnce == Only(Sockets, s1 :> h1 @@ s2 :> h2 @@ s3 :> h3)

SocketOf == h1 :> s1 @@ h2 :> s2 @@ h3 :> s3
Alike ==
  {p @@ (s1 :> SocketOf[p[h1]] @@ s2 :> SocketOf[p[h2]] @@ s3 :> SocketOf[p[h3]])
     @@ (sa1 :> q[sa1] @@ sa2 :> q[sa2]) :
       p \in Permutations({h1, h2, h3}), q \in Permutations({sa1, sa2})}
=============================================================================
