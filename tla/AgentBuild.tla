------------------------------ MODULE AgentBuild ------------------------------
(***************************************************************************)
(* The agent factory: it creates the capabilities of the MCP servers once, *)
(* binds an agent's capabilities to its services, resolves its model and   *)
(* compiles it.  A run that names a model of its own resolves and compiles *)
(* the definition of its agent again.                                      *)
(***************************************************************************)
EXTENDS ModelRouting, AgentExtensions

CONSTANTS AgentOf,       \* the agent of a run
          Definitions,   \* what a caller may prepare
          Configured,    \* the capabilities of the MCP servers
          Bindings,      \* the services of a definition, with their features
          Extras,        \* capabilities a prepared definition may get
          MaxCapabilities   \* bound on extending a definition

ASSUME BuildAssumption ==
  /\ None \notin Tasks
  /\ AgentOf \in [Runs -> Agents]
  /\ Configured \in Seq(DOMAIN Requires) /\ Extras \subseteq DOMAIN Requires
  /\ MaxCapabilities \in Nat
  /\ Definitions \subseteq [capabilities : Seq(DOMAIN Requires), toolsets : Seq(DOMAIN Discoveries)]

VARIABLES
  capabilities,  \* the capabilities of the MCP servers exist
  gathering,     \* the agent whose preparation holds the lock and creates them
  creations,     \* history: how often they were created
  definition,    \* of an agent
  context        \* the descriptors of its capabilities

definitionVars == <<definition, context>>
factoryVars == <<capabilities, gathering, creations, definitionVars>>
buildVars == <<stage, routingVars, factoryVars>>

BuildInit ==
  /\ RoutingInit
  /\ stage = [t \in Tasks |-> "new"]
  /\ capabilities = FALSE /\ gathering = None /\ creations = 0
  /\ definition = [a \in Agents |-> None]
  /\ context = [a \in Agents |-> <<>>]

Prepare(a) ==
  /\ stage[a] = "new"
  /\ \E d \in Definitions : definition' = [definition EXCEPT ![a] = d]
  /\ Become(a, "locking")
  /\ UNCHANGED <<routingVars, capabilities, gathering, creations, context>>

From(source, sequence) == [i \in DOMAIN sequence |-> source]

\* The definition gets the capabilities of the configuration in front of its
\* own, and is bound to its services; then its model is resolved.
Bind(a) ==
  LET own == definition[a].capabilities
      d == [definition[a] EXCEPT !.capabilities = Configured \o own]
  IN /\ definition' = [definition EXCEPT ![a] = d]
     /\ context' = [context EXCEPT ![a] =
          Described(d.capabilities, From("configuration", Configured) \o From("caller", own))]
     /\ IF Satisfied(d, Bindings) THEN Resolve(a) ELSE Become(a, "failed") /\ UNCHANGED routingVars

\* The lock is free.
Enter(a) ==
  /\ stage[a] = "locking" /\ gathering = None
  /\ IF capabilities
       THEN Bind(a) /\ UNCHANGED gathering
       ELSE Become(a, "gathering") /\ gathering' = a /\ UNCHANGED <<routingVars, definitionVars>>
  /\ UNCHANGED <<capabilities, creations>>

\* The credentials of every MCP server are resolved.
Gathered(a) ==
  /\ stage[a] = "gathering"
  /\ capabilities' = TRUE /\ gathering' = None /\ creations' = creations + 1
  /\ Bind(a)

\* A fault to test with: a failure keeps the lock.
GatherFailsFault(a) ==
  /\ stage[a] = "gathering"
  /\ Become(a, "failed")
  /\ UNCHANGED <<routingVars, factoryVars>>

\* A credential is missing or the task is cancelled: the next one tries again.
GatherFails(a) ==
  /\ stage[a] = "gathering"
  /\ gathering' = None
  /\ Become(a, "failed")
  /\ UNCHANGED <<routingVars, capabilities, creations, definitionVars>>

\* extend_prepared: one more capability, bound like the others; when that
\* fails, what has been prepared is kept.
Extend(a) ==
  /\ stage[a] = "resolved"
  /\ Len(context[a]) < MaxCapabilities
  /\ \E c \in Extras :
       LET d == [definition[a] EXCEPT !.capabilities = Append(@, c)]
           sources == [i \in DOMAIN context[a] |-> context[a][i].source]
       IN /\ Satisfied(d, Bindings)
          /\ definition' = [definition EXCEPT ![a] = d]
          /\ context' = [context EXCEPT ![a] = Described(d.capabilities, Append(sources, "caller"))]
  /\ UNCHANGED <<stage, routingVars, capabilities, gathering, creations>>

DefinitionOf(t) == definition[IF t \in Agents THEN t ELSE AgentOf[t]]

\* build_prepared, _runtime_for_model: colliding extensions are refused, and
\* pydantic_ai may refuse the agent.  An agent is then ready, a run starts.
Compile(t) ==
  /\ stage[t] = "resolved"
  /\ \/ ValidIds(DefinitionOf(t)) /\ Become(t, IF t \in Agents THEN "ready" ELSE "selecting")
     \/ Become(t, "failed")
  /\ UNCHANGED <<routingVars, factoryVars>>

\* The task is cancelled while it waits, or the prepared agent is not built.
Abandon(t) ==
  /\ stage[t] \in {"locking", "constructing"} \/ (stage[t] = "resolved" /\ t \in Agents)
  /\ Become(t, "failed")
  /\ UNCHANGED <<routingVars, factoryVars>>

BuildStep(t) ==
  \/ t \in Agents /\ (Enter(t) \/ Gathered(t) \/ GatherFails(t))
  \/ (Constructed(t) \/ ConstructionFails(t)) /\ UNCHANGED factoryVars
  \/ Compile(t)

BuildNext ==
  \/ \E a \in Agents : Prepare(a) \/ Extend(a)
  \/ \E t \in Tasks : BuildStep(t) \/ Abandon(t)
  \/ Rotate /\ UNCHANGED <<stage, factoryVars>>

BuildTypeOK ==
  /\ RoutingTypeOK
  /\ capabilities \in BOOLEAN /\ gathering \in Agents \cup {None}
  /\ creations \in Nat
  /\ \A a \in Agents : definition[a] # None => definition[a].capabilities \in Seq(DOMAIN Requires)
  /\ \A a \in Agents : context[a] \in Seq([id : DOMAIN Requires, source : {"configuration", "caller"}])
=============================================================================
