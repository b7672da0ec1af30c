--------------------------- MODULE MCUserRegistry ---------------------------
\* UserRegistry with a hash table in which all ids collide.
EXTENDS UserRegistry, TLC

MCHome == [id \in Ids |-> 1]
MCSymmetry == Permutations(Ids) \cup Permutations(Workers)
=============================================================================
