------------------------------ MODULE AgentRouting ------------------------------
(***************************************************************************)
(* How a request finds its backend: the agent registry and the two agent   *)
(* backends of src/backend/state.rs, the hook handlers of                  *)
(* src/proxy/hooks.rs, the teammate lookup of src/proxy/router.rs and      *)
(* resolve_backend of src/proxy/pipeline/routing.rs, over BackendState.    *)
(*                                                                         *)
(* Claude Code itself is external: it calls the start and stop hooks, and  *)
(* what it remembers of them is marked, the agents that carry an AC marker *)
(* in their context.                                                       *)
(***************************************************************************)
EXTENDS BackendState

CONSTANTS
    Main,           \* the main conversation, never registered
    Subagents,      \* agent ids of subagents
    Teammates,      \* agent ids of teammates
    Choices         \* what the backend popup offers for agents to come

Agents == {Main} \cup Subagents \cup Teammates

ASSUME AgentsAssumption ==
    /\ Main \notin Subagents \cup Teammates
    /\ Subagents \cap Teammates = {}

ASSUME ChoicesAssumption == Choices \subseteq Option(Backends)

VARIABLES
    subagent_backend,   \* backend of the subagents to come
    teammate_backend,   \* backend of the teammates to come
    registry,           \* AgentRegistry: agent id to birth backend
    marked              \* external: agents whose context holds an AC marker

agentVars == <<subagent_backend, teammate_backend, registry, marked>>

AgentInit ==
    /\ subagent_backend \in Choices
    /\ teammate_backend \in Choices
    /\ registry = [a \in {} |-> NoName]
    /\ marked = {}

Register(id, b) ==
    registry' = [a \in DOMAIN registry \cup {id} |-> IF a = id THEN b ELSE registry[a]]

\* AgentBackendState::set, from the backend popup.  The name is whatever the
\* popup's list held, and agents.* of a configuration read at startup is not
\* validated, so it need not be configured any more.
SetSubagentBackend(b) ==
    /\ subagent_backend' = b
    /\ UNCHANGED <<teammate_backend, registry, marked>>

SetTeammateBackend(b) ==
    /\ teammate_backend' = b
    /\ UNCHANGED <<subagent_backend, registry, marked>>

\* handle_subagent_start: registers the subagent and hands it its marker, or
\* does neither when no subagent backend is chosen.  Claude Code gives every
\* subagent an id of its own, so an id starts once.
SubagentStart(id) ==
    /\ id \notin DOMAIN registry /\ id \notin marked
    /\ IF subagent_backend = NoName
       THEN UNCHANGED <<registry, marked>>
       ELSE /\ Register(id, subagent_backend)
            /\ marked' = marked \cup {id}
    /\ UNCHANGED <<subagent_backend, teammate_backend>>

\* handle_subagent_stop: the id is forgotten, the marker stays where it is.
SubagentStop(id) ==
    /\ registry' = Restrict(registry, DOMAIN registry \ {id})
    /\ UNCHANGED <<subagent_backend, teammate_backend, marked>>

\* Mutant of TeammateStart: the choice is registered without its fallback.
TeammateStartUnresolved(id) ==
    /\ Register(id, teammate_backend)
    /\ UNCHANGED <<subagent_backend, teammate_backend, marked>>

\* handle_teammate_start: the tmux shim registers a teammate it spawns.
TeammateStart(id) ==
    /\ Register(id, IF teammate_backend = NoName THEN active_backend ELSE teammate_backend)
    /\ UNCHANGED <<subagent_backend, teammate_backend, marked>>

-----------------------------------------------------------------------------
(* Reads made on behalf of a request. *)

\* proxy_handler: the override a request on the /teammate route gets, and none
\* on the others.
TeammateOverride(a) ==
    IF a \notin Teammates THEN NoName
    ELSE IF a \in DOMAIN registry THEN registry[a] ELSE teammate_backend

\* The AC marker counts only while somebody is registered.
ConsultsMarker(marker, override) ==
    override = NoName /\ DOMAIN registry # {} /\ marker

\* Mutant of ChosenBackend: a marker stands for the subagent backend of the
\* moment.
FollowsChoice(a, override, marker, asked) ==
    IF override # NoName THEN override
    ELSE IF ConsultsMarker(marker, override) /\ subagent_backend # NoName
    THEN subagent_backend
    ELSE IF HasBackend(config, asked) THEN asked ELSE active_backend

\* resolve_backend up to the choice of a name, for a request of a whose body
\* holds a's marker or not.  A model name may itself name a backend (marker-x,
\* anycode-x or x): asked is that name, or none.  NoName as the result is the
\* error SubagentNotRegistered.
ChosenBackend(a, override, marker, asked) ==
    IF override # NoName THEN override
    ELSE IF ConsultsMarker(marker, override)
    THEN IF a \in DOMAIN registry THEN registry[a] ELSE NoName
    ELSE IF HasBackend(config, asked) THEN asked ELSE active_backend

AgentTypeOK ==
    /\ subagent_backend \in Option(Backends)
    /\ teammate_backend \in Option(Backends)
    /\ registry \in [DOMAIN registry -> Backends]
    /\ DOMAIN registry \subseteq Subagents \cup Teammates
    /\ marked \subseteq Subagents

-----------------------------------------------------------------------------
(* Routing on its own: the backend table and the agents, without requests. *)

routingVars == <<backendVars, agentVars>>

RoutingInit == BackendInit /\ AgentInit

ChooseAgentBackend ==
    \E b \in Choices : SetSubagentBackend(b) \/ SetTeammateBackend(b)

AgentHook ==
    \/ \E id \in Subagents : SubagentStart(id) \/ SubagentStop(id)
    \/ \E id \in Teammates : TeammateStart(id)

RoutingNext ==
    \/ BackendNext /\ UNCHANGED agentVars
    \/ ChooseAgentBackend /\ UNCHANGED backendVars
    \/ AgentHook /\ UNCHANGED backendVars

RoutingSpec == RoutingInit /\ [][RoutingNext]_routingVars

RoutingTypeOK == BackendTypeOK /\ AgentTypeOK

\* Where a request of a would go now, if its model asked for that backend.
Route(a, asked) == ChosenBackend(a, TeammateOverride(a), a \in marked, asked)

LiveSubagents == {id \in marked : id \in DOMAIN registry}

\* Session affinity: from its start hook to its stop hook a marked subagent
\* goes to one backend, whatever its model asks for and however the active
\* backend, the subagent backend and the configuration move meanwhile.
SessionAffinity ==
    [][\A id \in LiveSubagents : id \in DOMAIN registry' =>
         \A asked \in Option(Backends) : Route(id, asked)' = Route(id, NoName)]_routingVars

\* A new choice in the backend popup is for agents to come: it moves neither a
\* registered agent nor the main conversation.  (A teammate that never
\* registered has no birth backend and does follow the choice.)
ChoiceIsForNewAgents ==
    [][ <<subagent_backend, teammate_backend>>' # <<subagent_backend, teammate_backend>> =>
          \A a \in Agents \ (Teammates \ DOMAIN registry) :
              Route(a, NoName)' = Route(a, NoName) ]_routingVars
=============================================================================
