--------------------------- MODULE MCStdioServer ---------------------------
EXTENDS StdioServer, TLC

CONSTANTS r1, r2, r3, c1, a1, k1

OneAgent == [r \in Run |-> a1]
SameConversation == [r \in Run |-> k1]
TwoSlots == [s \in Sem |-> 2]

NoTrailer == <<>>
Symmetry == Permutations(Run)
=============================================================================
