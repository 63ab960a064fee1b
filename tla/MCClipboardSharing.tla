-------------------------- MODULE MCClipboardSharing --------------------------
EXTENDS ClipboardSharing, TLC
Symmetry == Permutations(Clients)
=============================================================================
