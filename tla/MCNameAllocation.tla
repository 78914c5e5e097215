-------------------------- MODULE MCNameAllocation --------------------------
EXTENDS NameAllocation, TLC

Symmetry == Permutations(Reqs)
=============================================================================
