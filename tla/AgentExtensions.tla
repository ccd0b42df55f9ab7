--------------------------- MODULE AgentExtensions ---------------------------
(***************************************************************************)
(* What an agent is composed of: its capabilities, which contribute tools  *)
(* and toolsets and require services, and toolsets of its own.  A          *)
(* capability, tool or toolset stands for its ID, which is not empty.      *)
(***************************************************************************)
EXTENDS Integers, SequencesExt

CONSTANTS ToolsOf, ToolsetsOf,   \* of a capability, in order
          Requires,              \* of a capability: services with features
          WireName,              \* of a tool: the name the model sees
          Discoveries            \* of a toolset: what it may answer when asked for its tools

\* AgentServices.validate, for every capability of the definition.
Satisfied(definition, bindings) ==
  \A c \in Range(definition.capabilities) : \A q \in Requires[c] :
    q.service \in DOMAIN bindings /\ q.features \subseteq bindings[q.service]

Contributed(of, definition) ==
  FlattenSeq([i \in DOMAIN definition.capabilities |-> of[definition.capabilities[i]]])

\* validate_extension_ids
ValidIds(definition) ==
  /\ IsInjective(definition.capabilities)
  /\ IsInjective(Contributed(ToolsOf, definition))
  /\ IsInjective(Contributed(ToolsetsOf, definition) \o definition.toolsets)

\* build_agent_context: the descriptors of the capabilities.
Described(capabilities, sources) ==
  [i \in DOMAIN capabilities |-> [id |-> capabilities[i], source |-> sources[i]]]

\* diagnostics: the source of a capability is looked up by its ID.
SourceOf(context, id) == context[Max({i \in DOMAIN context : context[i].id = id})].source

Toolsets(definition) == Contributed(ToolsetsOf, definition) \o definition.toolsets

\* The tools a run may be offered, those of the capabilities and of the toolsets.
Offers(definition) ==
  LET toolsets == Toolsets(definition) IN
  {Contributed(ToolsOf, definition) \o FlattenSeq([i \in DOMAIN toolsets |-> found[toolsets[i]]]) :
     found \in {f \in [Range(toolsets) -> UNION {Discoveries[s] : s \in Range(toolsets)}] :
                  \A s \in Range(toolsets) : f[s] \in Discoveries[s]}}

\* _unique_tools, and the check across toolsets of _CollisionCheckedToolset.
UniqueNames(tools) == IsInjective([i \in DOMAIN tools |-> WireName[tools[i]]])
=============================================================================
