------------------------ MODULE MCSocketMultiplexer ------------------------
(* Small instances of SocketMultiplexer: each caller owns one socket.      *)
EXTENDS SocketMultiplexer, TLC

CONSTANTS t1, t2, s1, s2

MCOwner == (s1 :> t1) @@ (s2 :> t2)

JobNames == Permutations(Jobs)
=============================================================================
