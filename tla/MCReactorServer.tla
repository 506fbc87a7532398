--------------------------- MODULE MCReactorServer ---------------------------
\* A small instance of ReactorServer: one client talks, the others only
\* connect and leave.
EXTENDS ReactorServer

CONSTANTS c1, c2, c3

MCClients == {c1, c2, c3}
MCMaxSends == [c \in MCClients |-> IF c = c1 THEN 2 ELSE 0]

=============================================================================
