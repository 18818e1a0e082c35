------------------------------ MODULE MCServer ------------------------------
(***************************************************************************)
(* Instances of Server for TLC.                                            *)
(***************************************************************************)
EXTENDS Server, TLC

CONSTANTS h1, t1, g1, d1, k1, s1, s3, s4

Keep == <<[s \in Signals |-> "keep"]>>

\* Sessions: h1 an HTTP request, t1 a TCP connection, g1 a gRPC stream, each
\* with one event; k1 a websocket and d1 the UDP loop, without.
LoadOne == [c \in Callers |-> IF c = h1 THEN <<s1>> ELSE IF c = t1 THEN <<s3>>
                              ELSE IF c = g1 THEN <<s4>> ELSE <<>>]
KindAll == [c \in Callers |->
              CASE c = h1 -> "http" [] c = t1 -> "tcp" [] c = k1 -> "ws"
                [] c = d1 -> "udp" [] c = g1 -> "grpc"]

TcpUdp == <<"tcp", "udp">>
OnlyGrpc == <<"grpc">>
=============================================================================
