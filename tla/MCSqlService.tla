--------------------------- MODULE MCSqlService ---------------------------
\* SqlService with named clients for TLC; the clients are interchangeable.
EXTENDS SqlService, TLC
CONSTANTS alice, bob
Symmetry == Permutations(Clients)
=============================================================================
