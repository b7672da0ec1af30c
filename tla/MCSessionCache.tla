--------------------------- MODULE MCSessionCache ---------------------------
\* SessionCache with small rows: one position for telnet, and for the web
\* one position, so that the second web login of a user evicts the first.
EXTENDS SessionCache

MCTypes == {"TELNET", "API"}
MCProcTypes == {"TELNET"}
MCSegment == [t \in MCTypes |-> IF t = "TELNET" THEN {0} ELSE {1}]
=============================================================================
