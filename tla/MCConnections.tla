--------------------------- MODULE MCConnections ---------------------------
EXTENDS ConnectionsManager, TLC

Symmetry == Permutations(Clients) \cup Permutations(Fds)
              \cup Permutations(Workers)
=============================================================================
