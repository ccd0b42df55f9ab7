------------------------------- MODULE MCCodex -------------------------------
EXTENDS CodexLogin

CONSTANTS s1, s2, x1, x2, x3, i1, d1, c1, c2

\* x1 and x2 share a service, x3 is made by another one on the same store.
Service == [w \in Writers |-> IF w = x3 THEN s2 ELSE s1]
Mixed == [c \in Calls |-> CASE c = x1 -> {"build"}
                            [] c = x2 -> {"list"}
                            [] c = x3 -> {"request", "logout"}]
Other == [c \in Calls |-> {"logout"}]
FirstLogin == [b \in Callbacks |-> i1]
=============================================================================
