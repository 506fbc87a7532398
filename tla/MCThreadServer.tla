---------------------------- MODULE MCThreadServer ----------------------------
\* A small instance of ThreadServer: one client talks, the others only
\* connect and leave.
EXTENDS ThreadServer

CONSTANTS c1, c2, c3

MCClients == {c1, c2, c3}
MCMaxSends == [c \in MCClients |-> IF c = c1 THEN 1 ELSE 0]

=============================================================================
