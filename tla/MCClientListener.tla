-------------------------- MODULE MCClientListener --------------------------
\* Two connections, plain or with TLS.
EXTENDS ClientListener, TLC
Symmetry == Permutations(Conns)
=============================================================================
