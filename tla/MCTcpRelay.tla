----------------------------- MODULE MCTcpRelay -----------------------------
EXTENDS TcpRelay

CONSTANTS c1, c2

\* One connection with traffic, one that only competes for descriptors.
MCChunks ==
    [c \in Conns |-> [s \in Sides |->
       CASE c = c1 /\ s = "client" -> 2
         [] c = c1 /\ s = "honey" -> 1
         [] OTHER -> 0]]
=============================================================================
