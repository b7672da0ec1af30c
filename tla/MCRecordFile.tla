---------------------------- MODULE MCRecordFile ----------------------------
\* RecordFile with interchangeable workers.
EXTENDS RecordFile, TLC

MCSymmetry == Permutations(Workers)
=============================================================================
