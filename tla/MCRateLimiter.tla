--------------------------- MODULE MCRateLimiter ---------------------------
EXTENDS RateLimiter, TLC

Symmetry == Permutations(Keys)
=============================================================================
