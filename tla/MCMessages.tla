----------------------------- MODULE MCMessages -----------------------------
\* Messages to a user with one telnet session and one web session.
EXTENDS Messages

=============================================================================
