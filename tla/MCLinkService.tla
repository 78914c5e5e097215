--------------------------- MODULE MCLinkService ---------------------------
EXTENDS LinkRequirements, TLC

Symmetry == Permutations(Links) \cup Permutations(Reqs) \cup Permutations(Clients)
============================================================================
