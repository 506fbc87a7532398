------------------------------ MODULE MCService ------------------------------
\* A small instance of Service and ServedClient: more clients than the server has descriptors.
EXTENDS ServedClient

CONSTANTS c1, c2, c3

MCClients == {c1, c2, c3}
MCMaxSends == [c \in MCClients |-> 0]

=============================================================================
