--------------------------- MODULE MCSessionSteps ---------------------------
\* SessionSteps with two login types of one position each.
EXTENDS SessionSteps

MCTypes == {"API", "OAUTH"}
MCSegment == [t \in MCTypes |-> IF t = "API" THEN {0} ELSE {1}]
=============================================================================
