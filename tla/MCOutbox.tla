------------------------------ MODULE MCOutbox ------------------------------
EXTENDS OutboxProperties, TLC

MCSymmetry == Permutations(Relay) \cup Permutations(Consumer)
=============================================================================
