---------------------------- MODULE MCUserRecord ----------------------------
\* UserRecord with interchangeable windows and interchangeable others.
EXTENDS UserRecord, TLC

MCSymmetry == Permutations(Windows) \cup Permutations(Others)
=============================================================================
