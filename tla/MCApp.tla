-------------------------------- MODULE MCApp --------------------------------
EXTENDS AgentRun

CONSTANTS a1, a2, r1, r2, r3, m1, m2, n1, t0, t1

\* r1 and r3 use the fallback of their agent, r2 a model that the fallback
\* contains.
MCAliases == [m \in Models |-> IF m = m1 THEN {n1} ELSE {}]
MCSelector == [t \in Tasks |-> IF t = a1 THEN <<n1, m2>> ELSE <<m2>>]
MCAgentOf == [r \in Runs |-> a1]
\* k0 comes from the configuration, k1 has a toolset and needs a service, k2 has
\* a tool under a name the toolset may use as well, and k3 needs what no service
\* does.
Capability == {"k0", "k1", "k2", "k3"}
MCToolsOf == [c \in Capability |-> IF c = "k2" THEN <<"x2">> ELSE <<>>]
MCToolsetsOf == [c \in Capability |-> IF c = "k1" THEN <<"s1">> ELSE <<>>]
Needs(features) == {[service |-> "memory", features |-> features]}
MCRequires == [c \in Capability |-> CASE c = "k1" -> Needs({"read"}) [] c = "k3" -> Needs({"write"}) [] OTHER -> {}]
MCBindings == [memory |-> {"read"}]
MCWireName == [x1 |-> "find", x2 |-> "find"]
MCDiscoveries == [s1 |-> {<<"x1">>}]
MCDefinitions == {[capabilities |-> <<c>>, toolsets |-> <<>>] : c \in {"k1", "k3"}}
MCConfigured == <<"k0">>
MCExtras == {"k1", "k2", "k3"}

\* r2 is a child of the others' tracker.
MCChain == [t \in Trackers |-> {t, t0}]
MCTrackerOf == [r \in Runs |-> IF r = r2 THEN t1 ELSE t0]
MCMaxRequests == [r \in Runs |-> IF r = r2 THEN 1 ELSE 3]

\* What is explored together, each a choice of the environment: the preparation
\* of two agents, or the first with runs of it, r2 beside r1 or r3; the key
\* rotates beside r1 alone, or r2 and r3.
Together ==
  /\ stage[a2] = "new" \/ \A r \in Runs : stage[r] = "new"
  /\ stage[r1] = "new" \/ stage[r3] = "new"
  /\ key = 0 \/ stage[r1] = "new" \/ stage[r2] = "new"
=============================================================================
