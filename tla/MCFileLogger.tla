---------------------------- MODULE MCFileLogger ----------------------------
EXTENDS FileLogger

CONSTANTS p1, p2, g1, g2

\* One process with two goroutines, and two processes with one each.
Shared == [g \in Writers |-> p1]
Separate == [g \in Writers |-> IF g = g1 THEN p1 ELSE p2]

\* One goroutine logs long lines, the other short ones.
Lengths == [g \in Writers |-> [k \in 1..MaxMsgs |-> IF g = g1 THEN 2 ELSE 1]]
=============================================================================
