--------------------------- MODULE MCIdempotency ---------------------------
EXTENDS IdempotencyProperties, TLC

MCSymmetry == Permutations(Attempt) \cup Permutations(Key) \cup Permutations(Request)
=============================================================================
