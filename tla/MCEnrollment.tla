---------------------------- MODULE MCEnrollment ----------------------------
EXTENDS EnrollmentProperties, TLC

CONSTANTS s1, s2, s3

MCSymmetry == Permutations(Place) \cup Permutations(Worker)
=============================================================================
