--------------------------- MODULE MCStaffAccess ---------------------------
EXTENDS StaffAccessProperties, TLC

MCSymmetry == Permutations(Worker) \cup Permutations(Founder) \cup Permutations(User \ Founder)
=============================================================================
