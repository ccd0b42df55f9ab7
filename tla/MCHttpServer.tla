---------------------------- MODULE MCHttpServer ----------------------------
EXTENDS HttpServer, TLC

CONSTANTS r1, r2, a1, a2, k1

OneAgent == [r \in Run |-> a1]
TwoAgents == [r \in Run |-> IF r = r1 THEN a1 ELSE a2]
SameConversation == [r \in Run |-> k1]
OneSlot == [s \in Sem |-> 1]
NarrowAgent == [s \in Sem |-> IF s = Server THEN 2 ELSE 1]

EndFrame == <<End>>
Symmetry == Permutations(Run)
=============================================================================
