--------------------------- MODULE RequestPipelineProofs ---------------------------
(***************************************************************************)
(* RequestPipeline, proved for every set of backends, profiles, agents,    *)
(* request slots and thinking blocks, with AgentRouting and                *)
(* ThinkingRegistry, which it is composed of: types, affinity, and what    *)
(* becomes of thinking blocks.                                             *)
(***************************************************************************)
EXTENDS RequestPipeline, BackendStateProofs

-----------------------------------------------------------------------------
(* Agent routing alone: the type of its state and session affinity. *)

LEMMA RegisterType ==
    ASSUME AgentTypeOK, NEW id \in Subagents \cup Teammates, NEW b \in Backends,
           Register(id, b)
    PROVE  /\ registry' \in [DOMAIN registry' -> Backends]
           /\ DOMAIN registry' \subseteq Subagents \cup Teammates
           /\ DOMAIN registry' = DOMAIN registry \cup {id}
           /\ \A a \in DOMAIN registry \ {id} : registry'[a] = registry[a]
BY DEF AgentTypeOK, Register

LEMMA AgentInitType == AgentInit => AgentTypeOK
BY ChoicesAssumption DEF AgentInit, AgentTypeOK

LEMMA ChooseAgentBackendType ==
    ASSUME AgentTypeOK, ChooseAgentBackend
    PROVE  AgentTypeOK'
BY ChoicesAssumption
DEF AgentTypeOK, ChooseAgentBackend, SetSubagentBackend, SetTeammateBackend

LEMMA SubagentStartType ==
    ASSUME AgentTypeOK, NEW id \in Subagents, SubagentStart(id)
    PROVE  AgentTypeOK'
<1>1. CASE subagent_backend = NoName
    BY <1>1 DEF AgentTypeOK, SubagentStart
<1>2. CASE subagent_backend # NoName
    <2>1. subagent_backend \in Backends
        BY <1>2 DEF AgentTypeOK, Option
    <2>2. id \in Subagents \cup Teammates /\ Register(id, subagent_backend)
        BY <1>2 DEF SubagentStart
    <2>3. /\ registry' \in [DOMAIN registry' -> Backends]
          /\ DOMAIN registry' \subseteq Subagents \cup Teammates
        BY <2>1, <2>2, RegisterType
    <2> QED
        BY <1>2, <2>1, <2>3 DEF AgentTypeOK, SubagentStart
<1> QED
    BY <1>1, <1>2

LEMMA SubagentStopType ==
    ASSUME AgentTypeOK, NEW id \in Subagents, SubagentStop(id)
    PROVE  AgentTypeOK'
BY DEF AgentTypeOK, SubagentStop, Restrict

LEMMA TeammateStartType ==
    ASSUME BackendTypeOK, AgentTypeOK, NEW id \in Teammates, TeammateStart(id)
    PROVE  AgentTypeOK'
<1> DEFINE b == IF teammate_backend = NoName THEN active_backend ELSE teammate_backend
<1>1. b \in Backends
    BY DEF AgentTypeOK, BackendTypeOK, Option
<1>2. Register(id, b)
    BY DEF TeammateStart
<1> HIDE DEF b
<1> QED
    BY <1>1, <1>2, RegisterType DEF AgentTypeOK, TeammateStart

LEMMA AgentHookType ==
    ASSUME BackendTypeOK, AgentTypeOK, AgentHook
    PROVE  AgentTypeOK'
BY SubagentStartType, SubagentStopType, TeammateStartType DEF AgentHook

\* The override of a request and the name it is routed to.
LEMMA TeammateOverrideType ==
    ASSUME AgentTypeOK, NEW a \in Agents
    PROVE  TeammateOverride(a) \in Option(Backends)
BY DEF AgentTypeOK, TeammateOverride, Option

LEMMA ChosenBackendType ==
    ASSUME BackendTypeOK, AgentTypeOK, NEW a, NEW override \in Option(Backends),
           NEW marker, NEW asked
    PROVE  ChosenBackend(a, override, marker, asked) \in Option(Backends)
<1>1. HasBackend(config, asked) => asked \in Backends
    BY HasBackendType DEF BackendTypeOK
<1> QED
    BY <1>1 DEF AgentTypeOK, BackendTypeOK, ChosenBackend, Option

-----------------------------------------------------------------------------

RoutingInv == BackendInv /\ AgentTypeOK

LEMMA RoutingInductive ==
    /\ RoutingInit => RoutingInv
    /\ RoutingInv /\ [RoutingNext]_routingVars => RoutingInv'
<1>1. RoutingInit => RoutingInv
    BY BackendInitInv, AgentInitType DEF RoutingInit, RoutingInv
<1>2. ASSUME RoutingInv, [RoutingNext]_routingVars
      PROVE  RoutingInv'
    <2>1. CASE BackendNext /\ UNCHANGED agentVars
        <3>1. BackendInv'
            BY <1>2, <2>1, SwitchBackendInv, PutConfigInv DEF RoutingInv, BackendNext
        <3> QED
            BY <1>2, <2>1, <3>1 DEF RoutingInv, AgentTypeOK, agentVars
    <2>2. CASE UNCHANGED backendVars /\ (ChooseAgentBackend \/ AgentHook)
        <3>1. AgentTypeOK'
            BY <1>2, <2>2, ChooseAgentBackendType, AgentHookType DEF RoutingInv, BackendInv
        <3> QED
            BY <1>2, <2>2, <3>1
            DEF RoutingInv, BackendInv, BackendTypeOK, ActiveIsConfigured, HasBackend, backendVars
    <2>3. CASE UNCHANGED routingVars
        BY <1>2, <2>3 DEF RoutingInv, BackendInv, BackendTypeOK, ActiveIsConfigured,
                          HasBackend, AgentTypeOK, routingVars, backendVars, agentVars
    <2> QED
        BY <1>2, <2>1, <2>2, <2>3 DEF RoutingNext
<1> QED
    BY <1>1, <1>2

\* Every name in the routing state is a backend's, and registered and marked
\* agents are the ones the hooks register.
THEOREM RoutingTypeCorrect == RoutingSpec => []RoutingTypeOK
<1> QED
    BY RoutingInductive, PTL DEF RoutingSpec, RoutingInv, BackendInv, RoutingTypeOK

-----------------------------------------------------------------------------

\* A subagent that is marked and registered is routed to its birth backend,
\* whatever else the state and its model name say.
LEMMA RouteOfLiveSubagent ==
    ASSUME AgentTypeOK, NEW id \in LiveSubagents, NEW asked
    PROVE  Route(id, asked) = registry[id]
<1>1. id \in marked /\ id \in DOMAIN registry /\ id \notin Teammates
    BY AgentsAssumption DEF LiveSubagents, AgentTypeOK
<1> QED
    BY <1>1 DEF Route, TeammateOverride, ChosenBackend, ConsultsMarker

\* No step moves the birth backend of a subagent that stays registered, or
\* takes its marker away: ids of subagents start once, and those of teammates
\* are different ids.
LEMMA BirthBackendStays ==
    ASSUME RoutingInv, [RoutingNext]_routingVars,
           NEW id \in LiveSubagents, id \in DOMAIN registry'
    PROVE  id \in LiveSubagents' /\ registry'[id] = registry[id]
<1>1. id \in marked /\ id \in DOMAIN registry /\ id \notin Teammates
    BY AgentsAssumption DEF LiveSubagents, AgentTypeOK, RoutingInv
<1>2. CASE UNCHANGED <<registry, marked>>
    BY <1>1, <1>2 DEF LiveSubagents
<1>3. ASSUME NEW s \in Subagents, SubagentStart(s)
      PROVE  id \in marked' /\ registry'[id] = registry[id]
    BY <1>1, <1>3 DEF SubagentStart, Register
<1>4. ASSUME NEW s \in Subagents, SubagentStop(s)
      PROVE  id \in marked' /\ registry'[id] = registry[id]
    BY <1>1, <1>4 DEF SubagentStop, Restrict
<1>5. ASSUME NEW t \in Teammates, TeammateStart(t)
      PROVE  id \in marked' /\ registry'[id] = registry[id]
    BY <1>1, <1>5 DEF TeammateStart, Register
<1>6. CASE ChooseAgentBackend
    BY <1>2, <1>6 DEF ChooseAgentBackend, SetSubagentBackend, SetTeammateBackend
<1>7. CASE AgentHook
    BY <1>3, <1>4, <1>5, <1>7 DEF AgentHook, LiveSubagents
<1> QED
    BY <1>2, <1>6, <1>7 DEF RoutingNext, routingVars, agentVars

\* Session affinity: from its start hook to its stop hook a marked subagent
\* goes to one backend, whatever its model name asks for and however the active
\* backend, the choices and the configuration move meanwhile.
THEOREM SubagentsKeepTheirBackend == RoutingSpec => SessionAffinity
<1> DEFINE Affine == \A id \in LiveSubagents : id \in DOMAIN registry' =>
                        \A asked \in Option(Backends) : Route(id, asked)' = Route(id, NoName)
<1>1. RoutingInv /\ RoutingInv' /\ [RoutingNext]_routingVars => Affine
    <2> SUFFICES ASSUME RoutingInv, RoutingInv', [RoutingNext]_routingVars,
                        NEW id \in LiveSubagents, id \in DOMAIN registry',
                        NEW asked \in Option(Backends)
                 PROVE  Route(id, asked)' = Route(id, NoName)
        OBVIOUS
    <2>1. id \in LiveSubagents' /\ registry'[id] = registry[id]
        BY BirthBackendStays
    <2>2. Route(id, asked)' = registry'[id]
        <3>1. id \in marked' /\ id \in DOMAIN registry' /\ id \notin Teammates
            BY <2>1, AgentsAssumption DEF LiveSubagents, AgentTypeOK, RoutingInv
        <3> QED
            BY <3>1 DEF Route, TeammateOverride, ChosenBackend, ConsultsMarker
    <2>3. Route(id, NoName) = registry[id]
        BY RouteOfLiveSubagent DEF RoutingInv
    <2> QED
        BY <2>1, <2>2, <2>3
<1>2. RoutingSpec => []RoutingInv
    BY RoutingInductive, PTL DEF RoutingSpec
<1>3. RoutingInv /\ RoutingInv' /\ [RoutingNext]_routingVars => [Affine]_routingVars
    BY <1>1
<1> HIDE DEF Affine
<1>4. RoutingSpec => [][Affine]_routingVars
    BY <1>2, <1>3, PTL DEF RoutingSpec
<1> QED
    BY <1>4 DEF Affine, SessionAffinity

-----------------------------------------------------------------------------
(* The thinking registry. *)

LEMMA RegistryInitType == RegistryInit => RegistryTypeOK
BY DEF RegistryInit, RegistryTypeOK, Option

LEMMA OnBackendSwitchType ==
    ASSUME RegistryTypeOK, NEW b \in Backends, OnBackendSwitch(b)
    PROVE  RegistryTypeOK' /\ SessionAt(b) \in Nat
BY DEF RegistryTypeOK, OnBackendSwitch, SessionAt, Option

LEMMA RegisterBlocksType ==
    ASSUME RegistryTypeOK, NEW S \in SUBSET Blocks, NEW session \in Nat,
           RegisterBlocks(S, session)
    PROVE  RegistryTypeOK'
<1>1. Registered(session) \in BlockInfo
    BY DEF Registered, BlockInfo
<1>2. /\ DOMAIN blocks' = DOMAIN blocks \cup S
      /\ \A x \in DOMAIN blocks' : blocks'[x] \in BlockInfo
    BY <1>1 DEF RegisterBlocks, RegistryTypeOK
<1>3. blocks' \in [DOMAIN blocks' -> BlockInfo]
    BY <1>2 DEF RegisterBlocks
<1> QED
    BY <1>2, <1>3 DEF RegistryTypeOK, RegisterBlocks

\* What the filter holds on to is an entry of the current session, unchanged
\* but for its confirmation.
LEMMA FilterRequestType ==
    ASSUME RegistryTypeOK, NEW S, NEW history, FilterRequest(S, history)
    PROVE  /\ RegistryTypeOK'
           /\ \A x \in DOMAIN blocks' :
                /\ x \in DOMAIN blocks
                /\ blocks'[x].session = blocks[x].session
                /\ blocks'[x].session = current_session
<1>1. DOMAIN blocks' = Survivors(S, history)
    BY DEF FilterRequest
<1>2. ASSUME NEW x \in Survivors(S, history)
      PROVE  /\ x \in DOMAIN blocks
             /\ blocks[x].session = current_session
             /\ blocks'[x] \in BlockInfo
             /\ blocks'[x].session = blocks[x].session
    <2>1. x \in DOMAIN blocks /\ blocks[x].session = current_session
        BY <1>2 DEF Survivors, IsOld
    <2>2. blocks[x] \in BlockInfo
        BY <2>1 DEF RegistryTypeOK
    <2>3. blocks'[x] = Confirmed(x, S)
        BY <1>2 DEF FilterRequest
    <2>4. Confirmed(x, S) \in BlockInfo /\ Confirmed(x, S).session = blocks[x].session
        BY <2>2 DEF Confirmed, BlockInfo
    <2> QED
        BY <2>1, <2>3, <2>4
<1>3. blocks' \in [DOMAIN blocks' -> BlockInfo]
    BY <1>1, <1>2 DEF FilterRequest
<1> QED
    BY <1>1, <1>2, <1>3 DEF RegistryTypeOK, FilterRequest

LEMMA GraceExpiresType ==
    ASSUME RegistryTypeOK, NEW y \in DOMAIN blocks, GraceExpires(y)
    PROVE  /\ RegistryTypeOK'
           /\ DOMAIN blocks' = DOMAIN blocks
           /\ \A x \in DOMAIN blocks : blocks'[x].session = blocks[x].session
BY DEF RegistryTypeOK, GraceExpires, BlockInfo

-----------------------------------------------------------------------------
(* What each step of a request does to it. *)

\* r is the only request that moves.
OnlyMoves(r) ==
    /\ requests' \in [Requests -> RequestType]
    /\ \A q \in Requests \ {r} : requests'[q] = requests[q]

LEMMA Moves ==
    ASSUME requests \in [Requests -> RequestType], NEW r \in Requests,
           NEW req \in RequestType, requests' = [requests EXCEPT ![r] = req]
    PROVE  OnlyMoves(r) /\ requests'[r] = req
BY DEF OnlyMoves

LEMMA IdleType == Idle \in RequestType
BY DEF Idle, RequestType, Phases, Option, Agents

LEMMA DropEffect ==
    ASSUME PipelineTypeOK, NEW r \in Requests, Drop(r)
    PROVE  OnlyMoves(r) /\ requests'[r] = Idle
BY IdleType, Moves DEF PipelineTypeOK, Drop

LEMMA ArriveEffect ==
    ASSUME PipelineTypeOK, NEW r \in Requests, NEW a \in Agents, Arrive(r, a)
    PROVE  /\ OnlyMoves(r)
           /\ requests'[r].phase = "received" /\ requests'[r].session = 0
           /\ requests'[r].agent = a /\ requests'[r].marker = (a \in marked)
           /\ requests'[r].override = TeammateOverride(a)
           /\ requests'[r].body \subseteq known[a]
           /\ requests'[r].body # {} => requests'[r].history
           /\ requests'[r].fresh = {}
<1>1. PICK S \in SUBSET known[a], history \in BOOLEAN, thinking \in BOOLEAN, asked \in Asks :
        /\ S # {} => history
        /\ requests' = [requests EXCEPT ![r] =
              [Idle EXCEPT !.phase = "received", !.agent = a,
                           !.marker = (a \in marked), !.asked = asked,
                           !.override = TeammateOverride(a), !.body = S,
                           !.history = history, !.thinking = thinking]]
    BY DEF Arrive
<1> DEFINE req == [Idle EXCEPT !.phase = "received", !.agent = a,
                               !.marker = (a \in marked), !.asked = asked,
                               !.override = TeammateOverride(a), !.body = S,
                               !.history = history, !.thinking = thinking]
<1>2. /\ TeammateOverride(a) \in Option(Backends)
      /\ asked \in Option(Backends)
      /\ S \in SUBSET Blocks
      /\ (a \in marked) \in BOOLEAN
    BY TeammateOverrideType, RequestAssumption DEF PipelineTypeOK
<1>3. req \in RequestType
    BY <1>2, IdleType DEF RequestType, Phases
<1>4. /\ req.phase = "received" /\ req.session = 0 /\ req.body = S
      /\ req.agent = a /\ req.marker = (a \in marked) /\ req.override = TeammateOverride(a)
      /\ req.history = history /\ req.fresh = {}
    BY DEF Idle
<1>5. requests' = [requests EXCEPT ![r] = req]
    BY <1>1
<1> HIDE DEF req
<1>6. OnlyMoves(r) /\ requests'[r] = req
    BY <1>3, <1>5, Moves DEF PipelineTypeOK
<1> QED
    BY <1>1, <1>4, <1>6

\* ChooseBackend and LookUpConfig leave the request idle, or further on its way
\* with a backend; nothing else about it moves.
LEMMA RouteEffect ==
    ASSUME BackendTypeOK, PipelineTypeOK, RequestsInv, NEW r \in Requests,
           ChooseBackend(r) \/ LookUpConfig(r)
    PROVE  /\ OnlyMoves(r)
           /\ \/ requests'[r] = Idle
              \/ /\ requests'[r].phase \in {"routed", "resolved"}
                 /\ requests'[r].backend \in Backends
                 /\ requests'[r].session = 0 /\ requests[r].session = 0
                 /\ requests'[r].body = requests[r].body
                 /\ requests'[r].history = requests[r].history
                 /\ requests'[r].fresh = requests[r].fresh
<1> DEFINE req == requests[r]
           b   == ChosenBackend(req.agent, req.override, req.marker, req.asked)
<1>1. req \in RequestType
    BY DEF PipelineTypeOK
<1>2. CASE Drop(r)
    BY <1>2, DropEffect
<1>3. CASE /\ req.phase = "received" /\ b # NoName
           /\ requests' = [requests EXCEPT ![r].phase = "routed", ![r].backend = b]
    <2>1. b \in Backends
        BY <1>1, <1>3, ChosenBackendType DEF RequestType, PipelineTypeOK, Option
    <2>2. req.session = 0
        BY <1>3 DEF RequestsInv, HasSession, Late
    <2> HIDE DEF b
    <2>3. requests'[r] = [req EXCEPT !.phase = "routed", !.backend = b]
        BY <1>3 DEF PipelineTypeOK
    <2>4. requests'[r] \in RequestType
        BY <1>1, <2>1, <2>3 DEF RequestType, Phases, Option
    <2>5. OnlyMoves(r)
        BY <1>3, <2>4 DEF OnlyMoves, PipelineTypeOK
    <2> QED
        BY <1>1, <2>1, <2>2, <2>3, <2>5 DEF RequestType
<1>4. CASE /\ req.phase = "routed"
           /\ requests' = [requests EXCEPT ![r].phase = "resolved"]
    <2>1. req.session = 0 /\ req.backend \in Backends
        BY <1>4 DEF RequestsInv, HasSession, Late
    <2>2. requests'[r] = [req EXCEPT !.phase = "resolved"]
        BY <1>4 DEF PipelineTypeOK
    <2>3. requests'[r] \in RequestType
        BY <1>1, <2>2 DEF RequestType, Phases
    <2>4. OnlyMoves(r)
        BY <1>4, <2>3 DEF OnlyMoves, PipelineTypeOK
    <2> QED
        BY <1>1, <2>1, <2>2, <2>4 DEF RequestType
<1> QED
    BY <1>2, <1>3, <1>4 DEF ChooseBackend, LookUpConfig

LEMMA BeginEffect ==
    ASSUME PipelineTypeOK, RequestsInv, NEW r \in Requests, Begin(r)
    PROVE  /\ OnlyMoves(r)
           /\ requests[r].session = 0
           /\ requests[r].backend \in Backends
           /\ requests'[r].phase = "begun"
           /\ requests'[r].backend = requests[r].backend
           /\ requests'[r].body = requests[r].body
           /\ requests'[r].history = requests[r].history
           /\ requests'[r].fresh = requests[r].fresh
           /\ \/ /\ OnBackendSwitch(requests[r].backend)
                 /\ requests'[r].session = SessionAt(requests[r].backend)
              \/ UNCHANGED registryVars /\ requests'[r].session = 0
<1> DEFINE req == requests[r]
<1>1. req \in RequestType /\ req.phase = "resolved"
    BY DEF PipelineTypeOK, Begin
<1>2. req.session = 0 /\ req.backend \in Backends
    BY <1>1 DEF RequestsInv, HasSession, Late
<1>3. CASE /\ OnBackendSwitch(req.backend)
           /\ requests' = [requests EXCEPT ![r].phase = "begun",
                                           ![r].session = SessionAt(req.backend)]
    <2>1. SessionAt(req.backend) \in Nat
        BY <1>2, <1>3, OnBackendSwitchType DEF PipelineTypeOK
    <2>2. requests'[r] = [req EXCEPT !.phase = "begun", !.session = SessionAt(req.backend)]
        BY <1>3 DEF PipelineTypeOK
    <2>3. requests'[r] \in RequestType
        BY <1>1, <2>1, <2>2 DEF RequestType, Phases
    <2>4. OnlyMoves(r)
        BY <1>3, <2>3 DEF OnlyMoves, PipelineTypeOK
    <2>5. /\ requests'[r].phase = "begun"
          /\ requests'[r].session = SessionAt(req.backend)
          /\ requests'[r].backend = req.backend /\ requests'[r].body = req.body
          /\ requests'[r].history = req.history /\ requests'[r].fresh = req.fresh
        BY <1>1, <2>2 DEF RequestType
    <2> QED
        BY <1>2, <1>3, <2>4, <2>5
<1>4. CASE UNCHANGED registryVars /\ requests' = [requests EXCEPT ![r].phase = "begun"]
    <2>1. requests'[r] = [req EXCEPT !.phase = "begun"]
        BY <1>4 DEF PipelineTypeOK
    <2>2. requests'[r] \in RequestType
        BY <1>1, <2>1 DEF RequestType, Phases
    <2>3. OnlyMoves(r)
        BY <1>4, <2>2 DEF OnlyMoves, PipelineTypeOK
    <2> QED
        BY <1>1, <1>2, <1>4, <2>1, <2>3 DEF RequestType
<1> QED
    BY <1>3, <1>4 DEF Begin

\* A step that changes phase, body and thinking only, or goes idle.
LEMMA TransformEffect ==
    ASSUME PipelineTypeOK, NEW r \in Requests, Transform(r)
    PROVE  /\ OnlyMoves(r)
           /\ requests[r].phase = "begun" /\ requests'[r].phase = "sent"
           /\ requests'[r].session = requests[r].session
           /\ requests'[r].backend = requests[r].backend
           /\ requests'[r].history = requests[r].history
           /\ requests'[r].fresh = requests[r].fresh
           /\ requests'[r].body \subseteq requests[r].body
           /\ \/ /\ FilterRequest(requests[r].body, requests[r].history)
                 /\ requests'[r].body \subseteq DOMAIN blocks'
              \/ /\ UNCHANGED registryVars
                 /\ requests[r].session = 0 \/ ~requests[r].history
<1> DEFINE req   == requests[r]
           kept  == Kept(req.body, req.history)
           strip == MustStrip(req, kept)
<1>1. req \in RequestType /\ req.phase = "begun"
    BY DEF PipelineTypeOK, Transform
<1>2. CASE /\ FilterRequest(req.body, req.history)
           /\ requests' = [requests EXCEPT ![r].phase = "sent",
                              ![r].body = IF strip THEN {} ELSE kept,
                              ![r].thinking = @ /\ ~strip]
    <2> DEFINE body     == IF strip THEN {} ELSE kept
               thinking == req.thinking /\ ~strip
    <2>1. body \subseteq req.body /\ body \subseteq DOMAIN blocks'
        BY <1>2 DEF Kept, FilterRequest
    <2>2. body \in SUBSET Blocks
        BY <1>1, <2>1 DEF RequestType
    <2>3. thinking \in BOOLEAN
        OBVIOUS
    <2>4. requests' = [requests EXCEPT ![r].phase = "sent", ![r].body = body,
                                      ![r].thinking = thinking]
        BY <1>2 DEF PipelineTypeOK
    <2> HIDE DEF body, thinking
    <2>5. requests'[r] = [req EXCEPT !.phase = "sent", !.body = body, !.thinking = thinking]
        BY <2>4 DEF PipelineTypeOK
    <2>6. requests'[r] \in RequestType
        BY <1>1, <2>2, <2>3, <2>5 DEF RequestType, Phases
    <2>7. OnlyMoves(r)
        BY <2>4, <2>6 DEF OnlyMoves, PipelineTypeOK
    <2>8. /\ requests'[r].phase = "sent" /\ requests'[r].body = body
          /\ requests'[r].session = req.session /\ requests'[r].backend = req.backend
          /\ requests'[r].history = req.history /\ requests'[r].fresh = req.fresh
        BY <1>1, <2>5 DEF RequestType
    <2> QED
        BY <1>1, <1>2, <2>1, <2>7, <2>8
<1>3. CASE /\ req.session = 0 \/ ~(req.history \/ req.thinking)
           /\ requests' = [requests EXCEPT ![r].phase = "sent"]
           /\ UNCHANGED registryVars
    <2>1. requests'[r] = [req EXCEPT !.phase = "sent"]
        BY <1>3 DEF PipelineTypeOK
    <2>2. requests'[r] \in RequestType
        BY <1>1, <2>1 DEF RequestType, Phases
    <2>3. OnlyMoves(r)
        BY <1>3, <2>2 DEF OnlyMoves, PipelineTypeOK
    <2> QED
        BY <1>1, <1>3, <2>1, <2>3 DEF RequestType
<1> QED
    BY <1>2, <1>3 DEF Transform

LEMMA RetryEffect ==
    ASSUME PipelineTypeOK, NEW r \in Requests, RetryWithoutThinking(r)
    PROVE  /\ OnlyMoves(r)
           /\ requests[r].phase = "sent" /\ requests'[r].phase = "sent"
           /\ requests'[r].session = requests[r].session
           /\ requests'[r].backend = requests[r].backend
           /\ requests'[r].fresh = requests[r].fresh
           /\ requests'[r].body = {}
<1>1. requests[r] \in RequestType /\ requests[r].phase = "sent"
    BY DEF PipelineTypeOK, RetryWithoutThinking
<1>2. requests'[r] = [requests[r] EXCEPT !.body = {}, !.thinking = FALSE]
    BY DEF PipelineTypeOK, RetryWithoutThinking
<1>3. requests'[r] \in RequestType
    BY <1>1, <1>2 DEF RequestType
<1>4. OnlyMoves(r)
    BY <1>3 DEF OnlyMoves, PipelineTypeOK, RetryWithoutThinking
<1> QED
    BY <1>1, <1>2, <1>4 DEF RequestType

\* The backend of r signs the blocks S.
Signs(r, S, phase, fresh) ==
    /\ OnlyMoves(r)
    /\ requests'[r].phase = phase
    /\ requests'[r].session = requests[r].session
    /\ requests'[r].backend = requests[r].backend
    /\ requests'[r].agent = requests[r].agent
    /\ requests'[r].marker = requests[r].marker
    /\ requests'[r].override = requests[r].override
    /\ requests'[r].body = {}
    /\ requests'[r].fresh = fresh
    /\ issued' \in [Blocks -> Issue]
    /\ \A x \in S : issued'[x] = [by |-> requests[r].backend,
                                  session |-> requests[r].session]
    /\ \A x \in Blocks \ S : issued'[x] = issued[x]

\* Stream and Answer: the backend signs the blocks S for r.
LEMMA SignEffect ==
    ASSUME PipelineTypeOK, NEW r \in Requests, NEW S \in SUBSET Unissued, Sign(r, S),
           NEW phase \in {"streaming", "answered"}, NEW fresh \in SUBSET Blocks,
           requests' = [requests EXCEPT ![r].phase = phase, ![r].body = {}, ![r].fresh = fresh]
    PROVE  Signs(r, S, phase, fresh)
<1>1. requests[r] \in RequestType
    BY DEF PipelineTypeOK
<1>2. requests'[r] = [requests[r] EXCEPT !.phase = phase, !.body = {}, !.fresh = fresh]
    BY DEF PipelineTypeOK
<1>3. /\ requests'[r] \in RequestType
      /\ requests'[r].phase = phase /\ requests'[r].body = {} /\ requests'[r].fresh = fresh
      /\ requests'[r].session = requests[r].session
      /\ requests'[r].backend = requests[r].backend
      /\ requests'[r].agent = requests[r].agent
      /\ requests'[r].marker = requests[r].marker
      /\ requests'[r].override = requests[r].override
    <2>1. phase \in Phases
        BY DEF Phases
    <2>2. ASSUME NEW req \in RequestType
          PROVE  [req EXCEPT !.phase = phase, !.body = {}, !.fresh = fresh] \in RequestType
        BY <2>1 DEF RequestType
    <2>3. ASSUME NEW req \in RequestType,
                 NEW new, new = [req EXCEPT !.phase = phase, !.body = {}, !.fresh = fresh]
          PROVE  /\ new.phase = phase /\ new.body = {} /\ new.fresh = fresh
                 /\ new.session = req.session /\ new.backend = req.backend
                 /\ new.agent = req.agent /\ new.marker = req.marker
                 /\ new.override = req.override
        BY <2>3 DEF RequestType
    <2> QED
        BY <1>1, <1>2, <2>2, <2>3
<1>4. OnlyMoves(r)
    BY <1>3 DEF OnlyMoves, PipelineTypeOK
<1>5. [by |-> requests[r].backend, session |-> requests[r].session] \in Issue
    BY <1>1 DEF RequestType, Issue
<1>6. /\ issued' \in [Blocks -> Issue]
      /\ \A x \in S : issued'[x] = [by |-> requests[r].backend,
                                    session |-> requests[r].session]
      /\ \A x \in Blocks \ S : issued'[x] = issued[x]
    BY <1>5 DEF Sign, Unissued, PipelineTypeOK
<1> QED
    BY <1>3, <1>4, <1>6 DEF Signs

-----------------------------------------------------------------------------
(* The type invariant. *)

LEMMA UnchangedTypes ==
    /\ BackendInv /\ UNCHANGED backendVars => BackendInv'
    /\ AgentTypeOK /\ UNCHANGED agentVars => AgentTypeOK'
    /\ RegistryTypeOK /\ UNCHANGED registryVars => RegistryTypeOK'
BY DEF BackendInv, BackendTypeOK, ActiveIsConfigured, HasBackend, backendVars,
       AgentTypeOK, agentVars, RegistryTypeOK, registryVars

LEMMA RegisterForType ==
    ASSUME PipelineTypeOK, NEW r \in Requests, NEW S \in SUBSET Blocks, RegisterFor(r, S)
    PROVE  RegistryTypeOK'
<1>1. requests[r].session \in Nat
    BY DEF PipelineTypeOK, RequestType
<1> QED
    BY <1>1, RegisterBlocksType, UnchangedTypes DEF RegisterFor, PipelineTypeOK

LEMMA KnownGrows ==
    ASSUME PipelineTypeOK, NEW r \in Requests, NEW S \in SUBSET Blocks,
           known' = [known EXCEPT ![requests[r].agent] = @ \cup S]
    PROVE  known' \in [Agents -> SUBSET Blocks]
<1>1. requests[r].agent \in Agents
    BY DEF PipelineTypeOK, RequestType
<1> QED
    BY <1>1 DEF PipelineTypeOK

\* A request's step keeps the type of everything it touches.
LEMMA RequestStepType ==
    ASSUME BackendInv, PipelineTypeOK, RequestsInv, NEW r \in Requests, RequestStep(r)
    PROVE  BackendInv' /\ PipelineTypeOK'
<1>1. BackendTypeOK
    BY DEF BackendInv
<1>2. UNCHANGED <<backendVars, agentVars, notify>>
    BY DEF RequestStep, Arrive, ChooseBackend, LookUpConfig, Begin, Transform,
           RetryWithoutThinking, Stream, EndStream, Answer, Deliver, Abandon
<1>3. BackendInv' /\ AgentTypeOK' /\ notify' \in Option(Backends)
    BY <1>2, UnchangedTypes DEF PipelineTypeOK
<1>4. SUFFICES /\ RegistryTypeOK'
               /\ OnlyMoves(r)
               /\ known' \in [Agents -> SUBSET Blocks]
               /\ issued' \in [Blocks -> Issue]
    BY <1>3, <1>4 DEF PipelineTypeOK, OnlyMoves, BackendInv
<1>5. ASSUME UNCHANGED <<registryVars, known, issued>>
      PROVE  /\ RegistryTypeOK'
             /\ known' \in [Agents -> SUBSET Blocks]
             /\ issued' \in [Blocks -> Issue]
    BY <1>5, UnchangedTypes DEF PipelineTypeOK
<1>6. ASSUME NEW a \in Agents, Arrive(r, a)
      PROVE  UNCHANGED <<registryVars, known, issued>> /\ OnlyMoves(r)
    BY <1>6, ArriveEffect DEF Arrive
<1>7. CASE ChooseBackend(r) \/ LookUpConfig(r)
    BY <1>1, <1>5, <1>7, RouteEffect DEF ChooseBackend, LookUpConfig
<1>8. CASE Begin(r)
    <2>1. RegistryTypeOK' /\ OnlyMoves(r)
        BY <1>8, BeginEffect, OnBackendSwitchType, UnchangedTypes DEF PipelineTypeOK
    <2> QED
        BY <1>8, <2>1 DEF Begin, PipelineTypeOK
<1>9. CASE Transform(r)
    <2>1. RegistryTypeOK' /\ OnlyMoves(r)
        BY <1>9, TransformEffect, FilterRequestType, UnchangedTypes DEF PipelineTypeOK
    <2> QED
        BY <1>9, <2>1 DEF Transform, PipelineTypeOK
<1>10. CASE RetryWithoutThinking(r)
    BY <1>5, <1>10, RetryEffect DEF RetryWithoutThinking
<1>11. CASE Stream(r)
    <2>1. PICK x \in Unissued :
            /\ Sign(r, {x})
            /\ known' = [known EXCEPT ![requests[r].agent] = @ \cup {x}]
            /\ requests' = [requests EXCEPT ![r].phase = "streaming",
                              ![r].body = {}, ![r].fresh = @ \cup {x}]
        BY <1>11 DEF Stream
    <2>2. /\ {x} \in SUBSET Unissued /\ {x} \in SUBSET Blocks
          /\ requests[r].fresh \cup {x} \in SUBSET Blocks
        BY DEF Unissued, PipelineTypeOK, RequestType
    <2>3. requests' = [requests EXCEPT ![r].phase = "streaming", ![r].body = {},
                                      ![r].fresh = requests[r].fresh \cup {x}]
        BY <2>1 DEF PipelineTypeOK
    <2>4. OnlyMoves(r) /\ issued' \in [Blocks -> Issue]
        <3> DEFINE S     == {x}
                   fresh == requests[r].fresh \cup {x}
                   phase == "streaming"
        <3>1. /\ S \in SUBSET Unissued /\ Sign(r, S) /\ fresh \in SUBSET Blocks
              /\ phase \in {"streaming", "answered"}
              /\ requests' = [requests EXCEPT ![r].phase = phase, ![r].body = {},
                                             ![r].fresh = fresh]
            BY <2>1, <2>2, <2>3
        <3> HIDE DEF S, fresh, phase
        <3>2. Signs(r, S, phase, fresh)
            BY <3>1, SignEffect
        <3> QED
            BY <3>2 DEF Signs
    <2>5. known' \in [Agents -> SUBSET Blocks]
        BY <2>1, <2>2, KnownGrows
    <2> QED
        BY <1>11, <2>4, <2>5, UnchangedTypes DEF Stream, PipelineTypeOK
<1>12. CASE EndStream(r)
    <2>1. requests[r].fresh \in SUBSET Blocks
        BY DEF PipelineTypeOK, RequestType
    <2>2. RegistryTypeOK' /\ OnlyMoves(r)
        BY <1>12, <2>1, RegisterForType, DropEffect DEF EndStream
    <2> QED
        BY <1>12, <2>2 DEF EndStream, PipelineTypeOK
<1>13. CASE Answer(r)
    <2>1. PICK S \in SUBSET Unissued :
            /\ Sign(r, S)
            /\ RegisterFor(r, S)
            /\ requests' = [requests EXCEPT ![r].phase = "answered",
                              ![r].body = {}, ![r].fresh = S]
        BY <1>13 DEF Answer
    <2>2. S \in SUBSET Blocks
        BY DEF Unissued
    <2>3. Signs(r, S, "answered", S)
        BY <2>1, <2>2, SignEffect
    <2> QED
        BY <1>13, <2>1, <2>2, <2>3, RegisterForType DEF Answer, PipelineTypeOK, Signs
<1>14. CASE Deliver(r)
    <2>1. requests[r].fresh \in SUBSET Blocks
        BY DEF PipelineTypeOK, RequestType
    <2>2. known' \in [Agents -> SUBSET Blocks] /\ OnlyMoves(r)
        BY <1>14, <2>1, KnownGrows, DropEffect DEF Deliver
    <2> QED
        BY <1>14, <2>2, UnchangedTypes DEF Deliver, PipelineTypeOK
<1>15. CASE Abandon(r)
    BY <1>5, <1>15, DropEffect DEF Abandon
<1> QED
    BY <1>5, <1>6, <1>7, <1>8, <1>9, <1>10, <1>11, <1>12, <1>13, <1>14, <1>15
    DEF RequestStep

-----------------------------------------------------------------------------
(* The thinking invariant: one lemma for each way a step can disturb it. *)

LEMMA PipelineInitInv == PipelineInit => BackendInv /\ PipelineTypeOK /\ ThinkingInv
<1> SUFFICES ASSUME PipelineInit
             PROVE  BackendInv /\ PipelineTypeOK /\ ThinkingInv
    OBVIOUS
<1>1. BackendInv /\ AgentTypeOK /\ RegistryTypeOK
    BY BackendInitInv, AgentInitType, RegistryInitType DEF PipelineInit
<1>2. PipelineTypeOK
    BY <1>1, IdleType DEF PipelineInit, PipelineTypeOK, BackendInv, Option, Issue
<1>3. \A r \in Requests : /\ requests[r].phase = "idle" /\ requests[r].session = 0
                          /\ requests[r].body = {} /\ requests[r].fresh = {}
    BY DEF PipelineInit, Idle
<1>4. DOMAIN blocks = {} /\ (\A x \in Blocks : issued[x].session = 0)
                        /\ (\A a \in Agents : known[a] = {})
    BY DEF PipelineInit, RegistryInit
<1>5. ThinkingInv
    BY <1>3, <1>4
    DEF ThinkingInv, RequestsInv, IssuedInv, Signed, RegisteredInv, RegisteredUnderOwnSession,
        SessionDeterminesBackend, Causality, NoForeignThinking, HasSession
<1> QED
    BY <1>1, <1>2, <1>5

\* A step of r that moves no session and signs no block.
LEMMA QuietStep ==
    ASSUME PipelineTypeOK, ThinkingInv, NEW r \in Requests, OnlyMoves(r),
           UNCHANGED <<current_session, current_backend, issued>>,
           RegisteredInv', \A a \in Agents : Signed(known'[a]),
           requests'[r].phase \notin {"idle", "received"} => requests'[r].backend \in Backends,
           \/ requests'[r].session = 0
           \/ /\ requests'[r].session = requests[r].session
              /\ requests'[r].backend = requests[r].backend
              /\ requests'[r].phase \in Late,
           requests'[r].body # {} => requests'[r].history,
           Signed(requests'[r].body),
           requests'[r].fresh = {},
           requests'[r].phase = "begun" => requests'[r].session = 0,
           requests'[r].phase = "sent" /\ requests'[r].session # 0 =>
               \A x \in requests'[r].body : issued[x].by = requests'[r].backend
    PROVE  ThinkingInv'
<1>1. \A q \in Requests \ {r} : requests'[q] = requests[q]
    BY DEF OnlyMoves
<1>2. RequestsInv'
    BY <1>1 DEF ThinkingInv, RequestsInv, Signed, HasSession, Late
<1>3. IssuedInv'
    BY DEF ThinkingInv, IssuedInv
<1>4. SessionDeterminesBackend'
    BY <1>1 DEF ThinkingInv, SessionDeterminesBackend, HasSession
<1>5. Causality'
    BY <1>1 DEF ThinkingInv, Causality, HasSession
<1>6. NoForeignThinking'
    BY <1>1 DEF ThinkingInv, NoForeignThinking, HasSession
<1>7. \A a \in Agents : Signed(known[a])'
    BY DEF Signed
<1> QED
    BY <1>2, <1>3, <1>4, <1>5, <1>6, <1>7 DEF ThinkingInv

\* A step of r in which its backend signs the blocks S.
LEMMA SignStep ==
    ASSUME PipelineTypeOK, ThinkingInv, NEW r \in Requests,
           NEW S \in SUBSET Unissued, NEW phase \in {"streaming", "answered"},
           NEW fresh \in SUBSET (requests[r].fresh \cup S), Signs(r, S, phase, fresh),
           UNCHANGED <<current_session, current_backend>>,
           requests[r].phase \in {"sent", "streaming"},
           RegisteredInv', \A a \in Agents : known'[a] \subseteq known[a] \cup S
    PROVE  ThinkingInv'
<1> USE DEF Signs
<1>1. \A q \in Requests \ {r} : requests'[q] = requests[q]
    BY DEF OnlyMoves
<1>2. requests[r].backend \in Backends /\ requests[r].backend # NoName
    BY NoNameAssumption DEF ThinkingInv, RequestsInv
<1>3. \A x \in Blocks : x \in S \/ issued'[x] = issued[x]
    OBVIOUS
<1>4. \A x \in S : /\ issued[x].by = NoName
                   /\ issued'[x].by = requests[r].backend
                   /\ issued'[x].session = requests[r].session
    BY DEF Unissued
<1>5. ASSUME NEW B \in SUBSET Blocks, Signed(B)
      PROVE  \A x \in B : issued'[x] = issued[x] /\ issued'[x].by # NoName
    BY <1>3, <1>4, <1>5 DEF Signed
<1>6. ASSUME NEW q \in Requests
      PROVE  /\ requests[q].body \in SUBSET Blocks /\ Signed(requests[q].body)
             /\ requests[q].fresh \in SUBSET Blocks /\ Signed(requests[q].fresh)
    BY DEF ThinkingInv, RequestsInv, Signed, PipelineTypeOK, RequestType
<1>7. \A q \in Requests : \A x \in requests[q].body :
           issued'[x] = issued[x] /\ issued'[x].by # NoName
    BY <1>5, <1>6
<1>8. \A q \in Requests : \A x \in requests[q].fresh :
           issued'[x] = issued[x] /\ issued'[x].by # NoName
    BY <1>5, <1>6
<1>9. RequestsInv'
    <2>1. ASSUME NEW q \in Requests \ {r}
          PROVE  /\ \A x \in requests'[q].body : issued'[x].by # NoName
                 /\ \A x \in requests'[q].fresh :
                       issued'[x].by # NoName /\ issued'[x].session = requests'[q].session
        BY <1>1, <1>7, <1>8 DEF ThinkingInv, RequestsInv
    <2>2. /\ \A x \in requests'[r].body : issued'[x].by # NoName
          /\ \A x \in requests'[r].fresh :
                issued'[x].by # NoName /\ issued'[x].session = requests'[r].session
        BY <1>2, <1>4, <1>8 DEF ThinkingInv, RequestsInv
    <2> QED
        BY <1>1, <1>2, <2>1, <2>2 DEF ThinkingInv, RequestsInv, HasSession, Late, Signed
<1>10. SessionDeterminesBackend'
    BY <1>1, <1>3, <1>4 DEF ThinkingInv, SessionDeterminesBackend, HasSession
<1>11. IssuedInv'
    BY <1>2, <1>3, <1>4
    DEF ThinkingInv, IssuedInv, RequestsInv, SessionDeterminesBackend, HasSession
<1>12. Causality'
    BY <1>1, <1>7 DEF ThinkingInv, Causality, HasSession
<1>13. NoForeignThinking'
    BY <1>1, <1>7 DEF ThinkingInv, NoForeignThinking, HasSession
<1>14. \A a \in Agents : Signed(known[a])'
    <2> SUFFICES ASSUME NEW a \in Agents, NEW x \in known'[a]
                 PROVE  issued'[x].by # NoName
        BY DEF Signed
    <2>1. CASE x \in S
        BY <1>2, <1>4, <2>1
    <2>2. CASE x \in known[a]
        BY <1>5, <2>2 DEF ThinkingInv, PipelineTypeOK
    <2> QED
        BY <2>1, <2>2
<1> QED
    BY <1>9, <1>10, <1>11, <1>12, <1>13, <1>14 DEF ThinkingInv

\* A step in which the registry hears of backend b, from nobody's request or
\* from r's, which then gets the session.
LEMMA SwitchStep ==
    ASSUME PipelineTypeOK, ThinkingInv, NEW b \in Backends, OnBackendSwitch(b),
           UNCHANGED <<known, issued>>,
           \/ UNCHANGED requests
           \/ \E r \in Requests :
                /\ OnlyMoves(r)
                /\ requests[r].session = 0
                /\ requests[r].phase = "resolved"
                /\ requests[r].backend = b
                /\ requests'[r].phase = "begun"
                /\ requests'[r].session = SessionAt(b)
                /\ requests'[r].backend = requests[r].backend
                /\ requests'[r].body = requests[r].body
                /\ requests'[r].history = requests[r].history
                /\ requests'[r].fresh = requests[r].fresh
    PROVE  ThinkingInv'
<1>1. /\ current_session \in Nat /\ current_session' \in Nat
      /\ current_session' = SessionAt(b) /\ current_backend' = b
      /\ \/ current_session' = current_session /\ current_backend' = current_backend
         \/ current_session' = current_session + 1
    BY DEF OnBackendSwitch, SessionAt, PipelineTypeOK, RegistryTypeOK
<1>2. \A q \in Requests : requests[q].session \in Nat
    BY DEF PipelineTypeOK, RequestType
<1>3. \A x \in Blocks : issued[x].session \in Nat
    BY DEF PipelineTypeOK, Issue
<1>4. \A q \in Requests : requests[q].body \subseteq Blocks
    BY DEF PipelineTypeOK, RequestType
<1>5. IssuedInv'
    BY <1>1, <1>3 DEF ThinkingInv, IssuedInv
<1>6. RegisteredInv'
    BY DEF ThinkingInv, RegisteredInv, RegisteredUnderOwnSession, OnBackendSwitch
<1>7. \A a \in Agents : Signed(known[a])'
    BY DEF ThinkingInv, Signed
<1>8. CASE UNCHANGED requests
    <2>1. RequestsInv'
        BY <1>1, <1>2, <1>8 DEF ThinkingInv, RequestsInv, HasSession, Signed
    <2>2. SessionDeterminesBackend'
        BY <1>1, <1>2, <1>8 DEF ThinkingInv, RequestsInv, SessionDeterminesBackend, HasSession
    <2>3. Causality' /\ NoForeignThinking'
        BY <1>8 DEF ThinkingInv, Causality, NoForeignThinking, HasSession
    <2> QED
        BY <1>5, <1>6, <1>7, <2>1, <2>2, <2>3 DEF ThinkingInv
<1>9. ASSUME NEW r \in Requests,
             OnlyMoves(r),
             requests[r].session = 0,
             requests[r].phase = "resolved",
             requests[r].backend = b,
             requests'[r].phase = "begun",
             requests'[r].session = SessionAt(b),
             requests'[r].backend = requests[r].backend,
             requests'[r].body = requests[r].body,
             requests'[r].history = requests[r].history,
             requests'[r].fresh = requests[r].fresh
      PROVE  ThinkingInv'
    <2>1. \A q \in Requests \ {r} : requests'[q] = requests[q]
        BY <1>9 DEF OnlyMoves
    <2>2. RequestsInv'
        BY <1>1, <1>2, <1>9, <2>1 DEF ThinkingInv, RequestsInv, HasSession, Signed, Late
    <2>3. SessionDeterminesBackend'
        <3>1. \A q \in Requests \ {r} : HasSession(q) /\ requests[q].session = SessionAt(b) =>
                    requests[q].backend = b
            BY <1>1, <1>2 DEF ThinkingInv, RequestsInv, SessionDeterminesBackend, HasSession
        <3>2. \A x \in Blocks : issued[x].session # 0 /\ issued[x].session = SessionAt(b) =>
                    issued[x].by = b
            BY <1>1, <1>3 DEF ThinkingInv, IssuedInv
        <3>3. \A q \in Requests \ {r} : HasSession(q) /\ requests[q].session = current_session' =>
                    requests[q].backend = current_backend'
            BY <1>1, <3>1
        <3> QED
            BY <1>1, <1>9, <2>1, <3>1, <3>2, <3>3
            DEF ThinkingInv, SessionDeterminesBackend, HasSession
    <2>4. Causality'
        <3>1. \A x \in requests[r].body : issued[x].session <= current_session'
            BY <1>1, <1>3, <1>4 DEF ThinkingInv, IssuedInv
        <3> QED
            BY <1>1, <1>9, <2>1, <3>1 DEF ThinkingInv, Causality, HasSession
    <2>5. NoForeignThinking'
        BY <1>9, <2>1 DEF ThinkingInv, NoForeignThinking, HasSession
    <2> QED
        BY <1>5, <1>6, <1>7, <2>2, <2>3, <2>4, <2>5 DEF ThinkingInv
<1> QED
    BY <1>8, <1>9

-----------------------------------------------------------------------------
(* The steps of a request keep the thinking invariant. *)

LEMMA SameEntries ==
    ASSUME RegisteredInv, UNCHANGED issued, DOMAIN blocks' \subseteq DOMAIN blocks,
           \A x \in DOMAIN blocks' : blocks'[x].session = blocks[x].session
    PROVE  RegisteredInv'
BY DEF RegisteredInv, RegisteredUnderOwnSession

\* Registering blocks that were signed under the request's session.
LEMMA RegisterForInv ==
    ASSUME PipelineTypeOK, RegisteredInv, NEW r \in Requests, NEW S \in SUBSET Blocks,
           RegisterFor(r, S),
           \A x \in S : issued'[x].session = requests[r].session,
           \A x \in DOMAIN blocks : issued'[x].session = issued[x].session
    PROVE  RegisteredInv'
<1>1. CASE requests[r].session = 0
    BY <1>1 DEF RegisterFor, RegisteredInv, RegisteredUnderOwnSession, registryVars
<1>2. CASE requests[r].session # 0
    <2>1. \A x \in DOMAIN blocks' : x \in S => blocks'[x].session = requests[r].session
        BY <1>2 DEF RegisterFor, RegisterBlocks, Registered
    <2>2. \A x \in DOMAIN blocks' : x \notin S => x \in DOMAIN blocks /\ blocks'[x] = blocks[x]
        BY <1>2 DEF RegisterFor, RegisterBlocks
    <2> QED
        BY <1>2, <2>1, <2>2 DEF RegisteredInv, RegisteredUnderOwnSession
<1> QED
    BY <1>1, <1>2

\* The step NoForeignThinking is about.  What the filter keeps is an entry of
\* the current session; by causality the request's own session is then the
\* current one too, and a session has one backend.
LEMMA TransformInv ==
    ASSUME PipelineTypeOK, ThinkingInv, NEW r \in Requests, Transform(r)
    PROVE  ThinkingInv'
<1>1. /\ OnlyMoves(r)
      /\ requests[r].phase = "begun" /\ requests'[r].phase = "sent"
      /\ requests'[r].session = requests[r].session
      /\ requests'[r].backend = requests[r].backend
      /\ requests'[r].history = requests[r].history
      /\ requests'[r].fresh = requests[r].fresh
      /\ requests'[r].body \subseteq requests[r].body
      /\ \/ /\ FilterRequest(requests[r].body, requests[r].history)
            /\ requests'[r].body \subseteq DOMAIN blocks'
         \/ /\ UNCHANGED registryVars
            /\ requests[r].session = 0 \/ ~requests[r].history
    BY TransformEffect
<1>2. UNCHANGED <<current_session, current_backend, issued, known>>
    BY <1>1 DEF Transform, FilterRequest, registryVars
<1>3. RegistryTypeOK
    BY DEF PipelineTypeOK
<1>4. RegisteredInv'
    <2>1. CASE FilterRequest(requests[r].body, requests[r].history)
        BY <1>2, <1>3, <2>1, FilterRequestType, SameEntries DEF ThinkingInv
    <2>2. CASE UNCHANGED registryVars
        BY <1>2, <2>2, SameEntries DEF ThinkingInv, registryVars
    <2> QED
        BY <1>1, <2>1, <2>2
<1>5. /\ requests'[r].backend \in Backends
      /\ requests'[r].body # {} => requests'[r].history
      /\ Signed(requests'[r].body)
      /\ requests'[r].fresh = {}
    BY <1>1 DEF ThinkingInv, RequestsInv, Signed
<1>6. ASSUME requests'[r].session # 0, NEW x \in requests'[r].body
      PROVE  issued[x].by = requests'[r].backend
    <2>1. requests[r].session # 0 /\ requests[r].history /\ x \in requests[r].body /\ x \in Blocks
        BY <1>1, <1>6 DEF ThinkingInv, RequestsInv, PipelineTypeOK, RequestType
    <2>2. x \in DOMAIN blocks' /\ FilterRequest(requests[r].body, requests[r].history)
        BY <1>1, <1>6, <2>1
    <2>3. /\ x \in DOMAIN blocks
          /\ blocks[x].session = current_session
        BY <1>3, <2>2, FilterRequestType
    <2>4. issued[x].session = current_session
        BY <2>3 DEF ThinkingInv, RegisteredInv, RegisteredUnderOwnSession
    <2>5. /\ current_session \in Nat /\ requests[r].session \in Nat
          /\ current_session <= requests[r].session
        BY <1>1, <2>1, <2>4
        DEF ThinkingInv, Causality, HasSession, PipelineTypeOK, RequestType, RegistryTypeOK
    <2>6. requests[r].session <= current_session
        BY <2>1 DEF ThinkingInv, RequestsInv, HasSession
    <2>7. requests[r].session = issued[x].session
        BY <2>4, <2>5, <2>6
    <2> QED
        BY <1>1, <2>1, <2>7 DEF ThinkingInv, SessionDeterminesBackend, HasSession
<1>7. \A a \in Agents : Signed(known'[a])
    BY <1>2 DEF ThinkingInv
<1>8. requests'[r].phase \in Late /\ requests'[r].phase # "begun"
    BY <1>1 DEF Late
<1> QED
    BY <1>1, <1>2, <1>4, <1>5, <1>6, <1>7, <1>8, QuietStep

LEMMA IdleFacts ==
    /\ Idle.phase = "idle" /\ Idle.session = 0 /\ Idle.body = {} /\ Idle.fresh = {}
BY DEF Idle

\* A request that ends, whatever it registers and delivers on its way out.
LEMMA EndInv ==
    ASSUME PipelineTypeOK, ThinkingInv, NEW r \in Requests, Drop(r),
           UNCHANGED <<current_session, current_backend, issued>>,
           RegisteredInv', \A a \in Agents : Signed(known'[a])
    PROVE  ThinkingInv'
<1>1. OnlyMoves(r) /\ requests'[r] = Idle
    BY DropEffect
<1> QED
    BY <1>1, IdleFacts, QuietStep DEF Signed

LEMMA StreamInv ==
    ASSUME PipelineTypeOK, ThinkingInv, NEW r \in Requests, Stream(r)
    PROVE  ThinkingInv'
<1>1. PICK x \in Unissued :
        /\ Sign(r, {x})
        /\ known' = [known EXCEPT ![requests[r].agent] = @ \cup {x}]
        /\ requests' = [requests EXCEPT ![r].phase = "streaming",
                          ![r].body = {}, ![r].fresh = @ \cup {x}]
    BY DEF Stream
<1> DEFINE S     == {x}
           fresh == requests[r].fresh \cup {x}
           phase == "streaming"
<1>2. /\ S \in SUBSET Unissued /\ Sign(r, S) /\ fresh \in SUBSET Blocks
      /\ phase \in {"streaming", "answered"}
      /\ requests' = [requests EXCEPT ![r].phase = phase, ![r].body = {},
                                     ![r].fresh = fresh]
    BY <1>1 DEF PipelineTypeOK, RequestType, Unissued
<1>3. fresh \in SUBSET (requests[r].fresh \cup S)
    OBVIOUS
<1>4. \A a \in Agents : known'[a] \subseteq known[a] \cup S
    BY <1>1 DEF PipelineTypeOK
<1>5. UNCHANGED registryVars /\ requests[r].phase \in {"sent", "streaming"}
    BY DEF Stream
<1> HIDE DEF S, fresh, phase
<1>6. Signs(r, S, phase, fresh)
    BY <1>2, SignEffect
<1>7. RegisteredInv'
    <2>1. \A y \in DOMAIN blocks : y \in Blocks /\ y \notin S
        BY <1>2
        DEF ThinkingInv, RegisteredInv, RegisteredUnderOwnSession, IssuedInv, Unissued,
            PipelineTypeOK, RegistryTypeOK
    <2> QED
        BY <1>5, <1>6, <2>1
        DEF Signs, ThinkingInv, RegisteredInv, RegisteredUnderOwnSession, registryVars
<1> QED
    BY <1>2, <1>3, <1>4, <1>5, <1>6, <1>7, SignStep DEF registryVars

LEMMA AnswerInv ==
    ASSUME PipelineTypeOK, ThinkingInv, NEW r \in Requests, Answer(r)
    PROVE  ThinkingInv'
<1>1. PICK S \in SUBSET Unissued :
        /\ Sign(r, S)
        /\ RegisterFor(r, S)
        /\ requests' = [requests EXCEPT ![r].phase = "answered",
                          ![r].body = {}, ![r].fresh = S]
    BY DEF Answer
<1> DEFINE phase == "answered"
<1>2. /\ S \in SUBSET Blocks /\ phase \in {"streaming", "answered"}
      /\ requests' = [requests EXCEPT ![r].phase = phase, ![r].body = {}, ![r].fresh = S]
    BY <1>1 DEF Unissued
<1> HIDE DEF phase
<1>3. Signs(r, S, phase, S)
    BY <1>1, <1>2, SignEffect
<1>4. RegisteredInv'
    <2>1. \A y \in DOMAIN blocks : y \in Blocks /\ y \notin S
        BY DEF ThinkingInv, RegisteredInv, RegisteredUnderOwnSession, IssuedInv, Unissued,
               PipelineTypeOK, RegistryTypeOK
    <2>2. \A y \in S : issued'[y].session = requests[r].session
        BY <1>3 DEF Signs
    <2>3. \A y \in DOMAIN blocks : issued'[y].session = issued[y].session
        BY <1>3, <2>1 DEF Signs
    <2> QED
        BY <1>1, <1>2, <2>2, <2>3, RegisterForInv DEF ThinkingInv
<1>5. /\ UNCHANGED <<current_session, current_backend, known>>
      /\ requests[r].phase \in {"sent", "streaming"}
    BY <1>1 DEF Answer, RegisterFor, RegisterBlocks, registryVars
<1>6. \A a \in Agents : known'[a] \subseteq known[a] \cup S
    BY <1>5
<1> QED
    BY <1>1, <1>2, <1>3, <1>4, <1>5, <1>6, SignStep

LEMMA RequestStepInv ==
    ASSUME BackendInv, PipelineTypeOK, ThinkingInv, NEW r \in Requests, RequestStep(r)
    PROVE  ThinkingInv'
<1>1. BackendTypeOK /\ RequestsInv /\ RegisteredInv /\ \A a \in Agents : Signed(known[a])
    BY DEF BackendInv, ThinkingInv
<1>2. ASSUME UNCHANGED <<registryVars, known, issued>>
      PROVE  /\ RegisteredInv' /\ \A a \in Agents : Signed(known'[a])
             /\ UNCHANGED <<current_session, current_backend, issued>>
    BY <1>1, <1>2 DEF RegisteredInv, RegisteredUnderOwnSession, registryVars, Signed
<1>3. ASSUME NEW a \in Agents, Arrive(r, a)
      PROVE  ThinkingInv'
    <2>1. UNCHANGED <<registryVars, known, issued>>
        BY <1>3 DEF Arrive
    <2>2. Signed(requests'[r].body)
        BY <1>1, <1>3, ArriveEffect DEF Signed
    <2> QED
        BY <1>2, <1>3, <2>1, <2>2, ArriveEffect, QuietStep
<1>4. CASE ChooseBackend(r) \/ LookUpConfig(r)
    <2>1. UNCHANGED <<registryVars, known, issued>>
        BY <1>4 DEF ChooseBackend, LookUpConfig
    <2>2. CASE requests'[r] = Idle
        BY <1>1, <1>2, <1>4, <2>1, <2>2, RouteEffect, IdleFacts, QuietStep DEF Signed
    <2>3. CASE requests'[r].phase \in {"routed", "resolved"}
        <3>1. requests[r].fresh = {}
            BY <1>1, <1>4 DEF RequestsInv, ChooseBackend, LookUpConfig
        <3>2. /\ requests'[r].backend \in Backends /\ requests'[r].session = 0
              /\ requests'[r].body # {} => requests'[r].history
              /\ Signed(requests'[r].body) /\ requests'[r].fresh = {}
              /\ OnlyMoves(r)
            BY <1>1, <1>4, <2>3, <3>1, RouteEffect, IdleFacts DEF RequestsInv, Signed
        <3>3. requests'[r].phase # "begun"
            BY <2>3
        <3> QED
            BY <1>2, <2>1, <3>2, <3>3, QuietStep
    <2> QED
        BY <1>1, <1>4, <2>2, <2>3, RouteEffect
<1>5. CASE Begin(r)
    <2>1. UNCHANGED <<known, issued>> /\ requests[r].phase = "resolved"
        BY <1>5 DEF Begin
    <2>2. CASE /\ OnBackendSwitch(requests[r].backend)
               /\ requests'[r].session = SessionAt(requests[r].backend)
        BY <1>1, <1>5, <2>1, <2>2, BeginEffect, SwitchStep
    <2>3. CASE UNCHANGED registryVars /\ requests'[r].session = 0
        <3>1. requests[r].fresh = {}
            BY <1>1, <2>1 DEF RequestsInv
        <3>2. /\ OnlyMoves(r) /\ requests'[r].backend \in Backends
              /\ requests'[r].body # {} => requests'[r].history
              /\ Signed(requests'[r].body) /\ requests'[r].fresh = {}
            BY <1>1, <1>5, <3>1, BeginEffect DEF RequestsInv, Signed
        <3> QED
            BY <1>2, <2>1, <2>3, <3>2, QuietStep
    <2> QED
        BY <1>1, <1>5, <2>2, <2>3, BeginEffect
<1>6. CASE Transform(r)
    BY <1>6, TransformInv
<1>7. CASE RetryWithoutThinking(r)
    <2>1. UNCHANGED <<registryVars, known, issued>>
        BY <1>7 DEF RetryWithoutThinking
    <2>2. /\ OnlyMoves(r) /\ requests'[r].backend \in Backends
          /\ requests'[r].phase \in Late /\ requests'[r].phase # "begun"
          /\ requests'[r].fresh = {} /\ requests'[r].body = {}
          /\ requests'[r].session = requests[r].session
          /\ requests'[r].backend = requests[r].backend
        BY <1>1, <1>7, RetryEffect DEF RequestsInv, Late
    <2> QED
        BY <1>2, <2>1, <2>2, QuietStep DEF Signed
<1>8. CASE Stream(r)
    BY <1>8, StreamInv
<1>9. CASE EndStream(r)
    <2>1. requests[r].fresh \in SUBSET Blocks
        BY DEF PipelineTypeOK, RequestType
    <2>2. RegisteredInv'
        BY <1>1, <1>9, <2>1, RegisterForInv DEF EndStream, RequestsInv
    <2>3. UNCHANGED <<current_session, current_backend, issued, known>>
        BY <1>9 DEF EndStream, RegisterFor, RegisterBlocks, registryVars
    <2> QED
        BY <1>1, <1>9, <2>2, <2>3, EndInv DEF EndStream, Signed
<1>10. CASE Answer(r)
    BY <1>10, AnswerInv
<1>11. CASE Deliver(r)
    <2>1. UNCHANGED <<registryVars, issued>> /\ Drop(r)
        BY <1>11 DEF Deliver
    <2>2. \A a \in Agents : Signed(known'[a])
        BY <1>1, <1>11, <2>1 DEF Deliver, RequestsInv, Signed, PipelineTypeOK
    <2>3. RegisteredInv'
        BY <1>1, <2>1 DEF RegisteredInv, RegisteredUnderOwnSession, registryVars
    <2> QED
        BY <2>1, <2>2, <2>3, EndInv DEF registryVars
<1>12. CASE Abandon(r)
    BY <1>2, <1>12, EndInv DEF Abandon
<1> QED
    BY <1>3, <1>4, <1>5, <1>6, <1>7, <1>8, <1>9, <1>10, <1>11, <1>12 DEF RequestStep

-----------------------------------------------------------------------------
(* Everybody else, and the theorems. *)

PipelineInv == BackendInv /\ PipelineTypeOK /\ ThinkingInv

\* Steps that touch neither a request nor the thinking registry.
LEMMA ElsewhereInv ==
    ASSUME PipelineInv, BackendInv', AgentTypeOK', notify' \in Option(Backends),
           UNCHANGED <<registryVars, requests, known, issued>>
    PROVE  PipelineInv'
<1>1. PipelineTypeOK'
    BY UnchangedTypes DEF PipelineInv, PipelineTypeOK, BackendInv
<1>2. ThinkingInv'
    BY DEF PipelineInv, ThinkingInv, RequestsInv, IssuedInv, Signed, RegisteredInv,
           RegisteredUnderOwnSession, SessionDeterminesBackend, Causality,
           NoForeignThinking, HasSession, registryVars
<1> QED
    BY <1>1, <1>2 DEF PipelineInv

LEMMA PipelineInductive ==
    ASSUME PipelineInv, [PipelineNext]_pipelineVars
    PROVE  PipelineInv'
<1>1. BackendInv /\ BackendTypeOK /\ AgentTypeOK /\ RegistryTypeOK /\ PipelineTypeOK
        /\ ThinkingInv /\ RequestsInv
    BY DEF PipelineInv, PipelineTypeOK, ThinkingInv
<1>2. ASSUME NEW r \in Requests, RequestStep(r)
      PROVE  PipelineInv'
    BY <1>1, <1>2, RequestStepType, RequestStepInv DEF PipelineInv
<1>3. ASSUME NEW b \in Backends, IpcSwitch(b)
      PROVE  PipelineInv'
    <2>1. BackendInv' /\ AgentTypeOK' /\ notify' \in Option(Backends)
        BY <1>1, <1>3, SwitchBackendInv, UnchangedTypes DEF IpcSwitch, Option
    <2> QED
        BY <1>3, <2>1, ElsewhereInv DEF IpcSwitch
<1>4. CASE IpcNotify
    <2>1. notify \in Backends
        BY <1>1, <1>4 DEF IpcNotify, PipelineTypeOK, Option
    <2>2. BackendInv' /\ AgentTypeOK' /\ RegistryTypeOK'
        BY <1>1, <1>4, <2>1, OnBackendSwitchType, UnchangedTypes DEF IpcNotify
    <2>3. PipelineTypeOK'
        BY <1>1, <1>4, <2>2 DEF IpcNotify, PipelineTypeOK, BackendInv, Option
    <2>4. ThinkingInv'
        BY <1>1, <1>4, <2>1, SwitchStep DEF IpcNotify
    <2> QED
        BY <2>2, <2>3, <2>4 DEF PipelineInv
<1>5. CASE WebuiStep
    <2>1. BackendInv' /\ AgentTypeOK' /\ notify' \in Option(Backends)
        BY <1>1, <1>5, SwitchBackendInv, PutConfigInv, UnchangedTypes
        DEF WebuiStep, PipelineTypeOK
    <2> QED
        BY <1>5, <2>1, ElsewhereInv DEF WebuiStep
<1>6. CASE AgentStep
    <2>1. BackendInv' /\ AgentTypeOK' /\ notify' \in Option(Backends)
        BY <1>1, <1>6, ChooseAgentBackendType, AgentHookType, UnchangedTypes
        DEF AgentStep, PipelineTypeOK
    <2> QED
        BY <1>6, <2>1, ElsewhereInv DEF AgentStep
<1>7. CASE TimePasses
    <2>1. PICK y \in DOMAIN blocks : GraceExpires(y)
        BY <1>7 DEF TimePasses
    <2>2. /\ RegistryTypeOK' /\ DOMAIN blocks' = DOMAIN blocks
          /\ \A x \in DOMAIN blocks : blocks'[x].session = blocks[x].session
          /\ UNCHANGED <<current_session, current_backend>>
        BY <1>1, <2>1, GraceExpiresType DEF GraceExpires
    <2>3. BackendInv' /\ PipelineTypeOK'
        BY <1>1, <1>7, <2>2, UnchangedTypes DEF TimePasses, PipelineTypeOK, BackendInv
    <2>4. RegisteredInv'
        BY <1>1, <1>7, <2>2, SameEntries DEF TimePasses, ThinkingInv
    <2>5. ThinkingInv'
        BY <1>1, <1>7, <2>2, <2>4
        DEF TimePasses, ThinkingInv, RequestsInv, IssuedInv, Signed, SessionDeterminesBackend,
            Causality, NoForeignThinking, HasSession
    <2> QED
        BY <2>3, <2>5 DEF PipelineInv
<1>8. CASE UNCHANGED pipelineVars
    <2>1. BackendInv' /\ AgentTypeOK' /\ notify' \in Option(Backends)
        BY <1>1, <1>8, UnchangedTypes DEF pipelineVars, PipelineTypeOK
    <2> QED
        BY <1>8, <2>1, ElsewhereInv DEF pipelineVars
<1> QED
    BY <1>2, <1>3, <1>4, <1>5, <1>6, <1>7, <1>8 DEF PipelineNext

LEMMA PipelineInvariant == PipelineSpec => []PipelineInv
<1>1. PipelineInit => PipelineInv
    BY PipelineInitInv DEF PipelineInv
<1>2. PipelineInv /\ [PipelineNext]_pipelineVars => PipelineInv'
    BY PipelineInductive
<1> QED
    BY <1>1, <1>2, PTL DEF PipelineSpec

\* Every variable of the composed system keeps its type.
THEOREM PipelineTypeCorrect == PipelineSpec => []PipelineTypeOK
<1> QED
    BY PipelineInvariant, PTL DEF PipelineInv

\* However requests, switches of every kind, config updates, hooks and late
\* registrations interleave, transform_body sends a backend no thinking block
\* that another backend signed.
THEOREM NoBackendGetsForeignThinking == PipelineSpec => []NoForeignThinking
<1> QED
    BY PipelineInvariant, PTL DEF PipelineInv, ThinkingInv

\* Everything the registry holds is held under the session of the request that
\* obtained it: register_from_sse and register_from_response never register
\* under a session that a concurrent switch brought.
THEOREM RegistrationIsOnTime == PipelineSpec => []RegisteredUnderOwnSession
<1> QED
    BY PipelineInvariant, PTL DEF PipelineInv, ThinkingInv, RegisteredInv

\* begin_request gives out sessions so that a session never has two backends.
THEOREM OneBackendPerSession == PipelineSpec => []SessionDeterminesBackend
<1> QED
    BY PipelineInvariant, PTL DEF PipelineInv, ThinkingInv

\* The inductive invariant itself, which the run pipeline checks.
THEOREM ThinkingInvariant == PipelineSpec => []ThinkingInv
<1> QED
    BY PipelineInvariant, PTL DEF PipelineInv

-----------------------------------------------------------------------------
(* The pipeline implements ThinkingPromise. *)

LEMMA ExchangesMove ==
    ASSUME NEW r \in Requests, OnlyMoves(r)
    PROVE  Exchanges' = [Exchanges EXCEPT ![r] = AtBackend(r)']
<1>1. \A q \in Requests \ {r} : AtBackend(q)' = AtBackend(q)
    BY DEF OnlyMoves, AtBackend, HasSession
<1> QED
    BY <1>1 DEF Exchanges

LEMMA SameSigners == issued' = issued => Signers' = Signers
BY DEF Signers

Outside == {"idle", "received", "routed", "resolved", "begun", "answered"}

\* A step of a request that no backend has, before or after.
LEMMA OutsideStep ==
    ASSUME NEW r \in Requests, OnlyMoves(r), issued' = issued,
           requests[r].phase \in Outside, requests'[r].phase \in Outside
    PROVE  UNCHANGED Promise!promiseVars
<1>1. AtBackend(r)' = AtBackend(r)
    BY DEF AtBackend, Outside, HasSession
<1>2. Exchanges' = Exchanges
    BY <1>1, ExchangesMove DEF Exchanges
<1> QED
    BY <1>2, SameSigners DEF Promise!promiseVars

\* A request with its backend signs S, and goes on there without blocks or ends.
LEMMA AnswerStep ==
    ASSUME PipelineTypeOK, NEW r \in Requests, OnlyMoves(r),
           requests[r].phase \in {"sent", "streaming"}, requests[r].backend \in Backends,
           NEW S \in SUBSET Unissued,
           \A x \in S : issued'[x].by = requests[r].backend,
           \A x \in Blocks \ S : issued'[x] = issued[x],
           \/ requests'[r].phase \in Outside
           \/ /\ requests'[r].phase = "streaming" /\ requests'[r].body = {}
              /\ requests'[r].backend = requests[r].backend
    PROVE  Promise!PromiseNext
<1>1. Exchanges[r].to = requests[r].backend /\ Exchanges[r] # Promise!None
    BY NoNameAssumption DEF Exchanges, AtBackend, HasSession, Promise!None, Promise!Exchange
<1>2. S \in SUBSET Promise!SignedBy(NoName)
    BY DEF Unissued, Promise!SignedBy, Signers
<1>3. Signers' = [x \in Blocks |-> IF x \in S THEN Exchanges[r].to ELSE Signers[x]]
    BY <1>1 DEF Signers
<1>4. \/ AtBackend(r)' = Promise!None
      \/ AtBackend(r)' = Promise!Exchange(Exchanges[r].to, {})
    BY <1>1 DEF AtBackend, Outside, HasSession, Promise!None, Promise!Exchange
<1>5. Promise!Answer(r)
    BY <1>1, <1>2, <1>3, <1>4, ExchangesMove DEF Promise!Answer, Promise!Becomes
<1> QED
    BY <1>5 DEF Promise!PromiseNext

\* transform_body sends r.
LEMMA SendStep ==
    ASSUME PipelineTypeOK, RequestsInv, NoForeignThinking', NEW r \in Requests, Transform(r)
    PROVE  Promise!PromiseNext
<1>1. /\ OnlyMoves(r) /\ issued' = issued
      /\ requests[r].phase = "begun" /\ requests'[r].phase = "sent"
      /\ requests'[r].backend = requests[r].backend
      /\ requests'[r] \in RequestType
    <2>1. issued' = issued
        BY DEF Transform
    <2>2. OnlyMoves(r) /\ requests'[r] \in RequestType
        BY TransformEffect DEF OnlyMoves
    <2> QED
        BY <2>1, <2>2, TransformEffect
<1>2. requests'[r].backend \in Backends
    BY <1>1 DEF RequestsInv
<1>3. Exchanges[r] = Promise!None
    BY <1>1 DEF Exchanges, AtBackend, HasSession, Promise!None, Promise!Exchange
<1> DEFINE S == IF requests'[r].session # 0 THEN requests'[r].body ELSE {}
<1>4. AtBackend(r)' = Promise!Exchange(requests'[r].backend, S)
    BY <1>1 DEF AtBackend, HasSession, Promise!Exchange
<1>5. S \subseteq Promise!SignedBy(requests'[r].backend)
    <2>1. S \subseteq Blocks
        BY <1>1 DEF RequestType
    <2>2. \A x \in S : issued[x].by = requests'[r].backend
        BY <1>1 DEF NoForeignThinking, HasSession
    <2> QED
        BY <2>1, <2>2 DEF Promise!SignedBy, Signers
<1>6. Exchanges'[r] = AtBackend(r)'
    BY DEF Exchanges
<1> HIDE DEF S
<1>7. Exchanges'[r].to = requests'[r].backend /\ Exchanges'[r].blocks = S
    BY <1>4, <1>6 DEF Promise!Exchange
<1>8. Promise!Becomes(r, Promise!Exchange(requests'[r].backend, S))
    BY <1>1, <1>4, ExchangesMove DEF Promise!Becomes
<1>9. Promise!Send(r)
    BY <1>1, <1>2, <1>3, <1>5, <1>7, <1>8, SameSigners DEF Promise!Send
<1> QED
    BY <1>9 DEF Promise!PromiseNext

\* backend_400_auto_retry sends r once more, without blocks.
LEMMA SendAgainStep ==
    ASSUME PipelineTypeOK, RequestsInv, NEW r \in Requests, RetryWithoutThinking(r)
    PROVE  Promise!PromiseNext
<1>1. /\ OnlyMoves(r) /\ issued' = issued
      /\ requests[r].phase = "sent" /\ requests'[r].phase = "sent"
      /\ requests'[r].backend = requests[r].backend /\ requests'[r].body = {}
      /\ requests[r].backend \in Backends
    BY RetryEffect DEF RetryWithoutThinking, RequestsInv
<1>2. Exchanges[r].to = requests[r].backend /\ Exchanges[r] # Promise!None
    BY <1>1, NoNameAssumption
    DEF Exchanges, AtBackend, HasSession, Promise!None, Promise!Exchange
<1>3. AtBackend(r)' = Promise!Exchange(requests[r].backend, {})
    BY <1>1 DEF AtBackend, HasSession, Promise!Exchange
<1>4. Exchanges'[r].blocks = {}
    BY <1>3 DEF Exchanges, Promise!Exchange
<1>5. Promise!SendAgain(r)
    BY <1>1, <1>2, <1>3, <1>4, ExchangesMove, SameSigners
    DEF Promise!SendAgain, Promise!Becomes
<1> QED
    BY <1>5 DEF Promise!PromiseNext

\* Each step of a request is one of the promise, or none.
LEMMA RequestStepPromise ==
    ASSUME PipelineInv, PipelineInv', NEW r \in Requests, RequestStep(r)
    PROVE  [Promise!PromiseNext]_(Promise!promiseVars)
<1>1. /\ BackendTypeOK /\ PipelineTypeOK /\ RequestsInv /\ NoForeignThinking'
      /\ {} \in SUBSET Unissued
    BY DEF PipelineInv, BackendInv, ThinkingInv
<1>2. ASSUME NEW a \in Agents, Arrive(r, a)
      PROVE  UNCHANGED Promise!promiseVars
    BY <1>1, <1>2, ArriveEffect, OutsideStep DEF Arrive, Outside
<1>3. CASE ChooseBackend(r) \/ LookUpConfig(r)
    <2>1. /\ issued' = issued /\ OnlyMoves(r)
          /\ requests[r].phase \in Outside /\ requests'[r].phase \in Outside
        BY <1>1, <1>3, RouteEffect, IdleFacts DEF ChooseBackend, LookUpConfig, Outside
    <2> QED
        BY <2>1, OutsideStep
<1>4. CASE Begin(r)
    <2>1. /\ issued' = issued /\ OnlyMoves(r)
          /\ requests[r].phase \in Outside /\ requests'[r].phase \in Outside
        BY <1>1, <1>4, BeginEffect DEF Begin, Outside
    <2> QED
        BY <2>1, OutsideStep
<1>5. CASE Transform(r)
    BY <1>1, <1>5, SendStep
<1>6. CASE RetryWithoutThinking(r)
    BY <1>1, <1>6, SendAgainStep
<1>7. CASE Stream(r)
    <2>1. PICK x \in Unissued :
            /\ Sign(r, {x})
            /\ requests' = [requests EXCEPT ![r].phase = "streaming",
                              ![r].body = {}, ![r].fresh = @ \cup {x}]
        BY <1>7 DEF Stream
    <2> DEFINE fresh == requests[r].fresh \cup {x}
    <2>2. /\ fresh \in SUBSET Blocks /\ {x} \in SUBSET Unissued
          /\ requests' = [requests EXCEPT ![r].phase = "streaming", ![r].body = {},
                                         ![r].fresh = fresh]
        BY <1>1, <2>1 DEF PipelineTypeOK, RequestType, Unissued
    <2> HIDE DEF fresh
    <2>3. Signs(r, {x}, "streaming", fresh)
        BY <1>1, <2>1, <2>2, SignEffect
    <2>4. requests[r].phase \in {"sent", "streaming"} /\ requests[r].backend \in Backends
        BY <1>1, <1>7 DEF Stream, RequestsInv
    <2>5. \A y \in {x} : issued'[y].by = requests[r].backend
        BY <2>3 DEF Signs
    <2> QED
        BY <1>1, <2>2, <2>3, <2>4, <2>5, AnswerStep DEF Signs
<1>8. CASE Answer(r)
    <2>1. PICK S \in SUBSET Unissued :
            /\ Sign(r, S)
            /\ requests' = [requests EXCEPT ![r].phase = "answered",
                              ![r].body = {}, ![r].fresh = S]
        BY <1>8 DEF Answer
    <2>2. Signs(r, S, "answered", S)
        BY <1>1, <2>1, SignEffect DEF Unissued
    <2>3. requests[r].phase \in {"sent", "streaming"} /\ requests[r].backend \in Backends
        BY <1>1, <1>8 DEF Answer, RequestsInv
    <2>4. \A y \in S : issued'[y].by = requests[r].backend
        BY <2>2 DEF Signs
    <2>5. requests'[r].phase \in Outside
        BY <2>2 DEF Signs, Outside
    <2> QED
        BY <1>1, <2>2, <2>3, <2>4, <2>5, AnswerStep DEF Signs
<1>9. CASE EndStream(r) \/ Deliver(r) \/ Abandon(r)
    <2>1. OnlyMoves(r) /\ requests'[r].phase \in Outside /\ issued' = issued
        BY <1>1, <1>9, DropEffect, IdleFacts DEF EndStream, Deliver, Abandon, Outside
    <2>2. CASE requests[r].phase \in Outside
        BY <2>1, <2>2, OutsideStep
    <2>3. CASE requests[r].phase \in {"sent", "streaming"}
        <3>1. requests[r].backend \in Backends
            BY <1>1, <2>3 DEF RequestsInv
        <3> QED
            BY <1>1, <2>1, <2>3, <3>1, AnswerStep
    <2>4. requests[r].phase \in Phases
        BY <1>1 DEF PipelineTypeOK, RequestType
    <2> QED
        BY <2>2, <2>3, <2>4 DEF Phases, Outside
<1> QED
    BY <1>2, <1>3, <1>4, <1>5, <1>6, <1>7, <1>8, <1>9 DEF RequestStep

\* For every number of requests, agents, blocks and backends, whatever switches,
\* hooks and updates interleave: what the pipeline does to blocks and backends
\* is what ThinkingPromise allows.
THEOREM PipelineKeepsPromise == PipelineSpec => KeepsThinkingPromise
<1>1. PipelineInit => Promise!PromiseInit
    <2> SUFFICES ASSUME PipelineInit PROVE Promise!PromiseInit
        OBVIOUS
    <2>1. \A r \in Requests : AtBackend(r) = Promise!None
        BY DEF PipelineInit, Idle, AtBackend, HasSession, Promise!None, Promise!Exchange
    <2>2. Signers = [x \in Blocks |-> NoName]
        BY DEF PipelineInit, Signers
    <2> QED
        BY <2>1, <2>2 DEF Promise!PromiseInit, Exchanges
<1>2. PipelineInv /\ PipelineInv' /\ [PipelineNext]_pipelineVars
        => [Promise!PromiseNext]_(Promise!promiseVars)
    <2> SUFFICES ASSUME PipelineInv, PipelineInv', [PipelineNext]_pipelineVars
                 PROVE  [Promise!PromiseNext]_(Promise!promiseVars)
        OBVIOUS
    <2>1. CASE \E r \in Requests : RequestStep(r)
        BY <2>1, RequestStepPromise
    <2>2. CASE UNCHANGED <<requests, issued>>
        <3>1. Exchanges' = Exchanges
            BY <2>2 DEF Exchanges, AtBackend, HasSession
        <3> QED
            BY <2>2, <3>1, SameSigners DEF Promise!promiseVars
    <2> QED
        BY <2>1, <2>2
        DEF PipelineNext, IpcSwitch, IpcNotify, WebuiStep, AgentStep, TimePasses, pipelineVars
<1> QED
    BY <1>1, <1>2, PipelineInvariant, PTL
    DEF PipelineSpec, KeepsThinkingPromise, Promise!PromiseSpec

-----------------------------------------------------------------------------
(* Affinity of requests in flight.                                         *)

\* A request with a marker has it from its own agent, a subagent that was handed
\* one, and so no override; past resolve_backend it is on its birth backend.
MarkedInv(req) ==
    req.marker =>
        /\ req.agent \in marked /\ req.override = NoName
        /\ req.phase \in {"routed", "resolved"} \cup Late /\ req.agent \in DOMAIN registry
              => req.backend = registry[req.agent]

AffinityInv == \A r \in Requests : MarkedInv(requests[r])

\* The birth backend of a marked agent does not move while it is registered, and
\* once forgotten it is not registered again.
LEMMA MarkedStay ==
    ASSUME AgentTypeOK, AgentStep \/ UNCHANGED agentVars,
           NEW a \in marked, a \in DOMAIN registry'
    PROVE  a \in marked' /\ a \in DOMAIN registry /\ registry'[a] = registry[a]
<1>1. a \in Subagents /\ a \notin Teammates
    BY AgentsAssumption DEF AgentTypeOK
<1>2. CASE UNCHANGED <<registry, marked>>
    BY <1>2
<1>3. CASE \E id \in Subagents : SubagentStart(id)
    BY <1>3 DEF SubagentStart, Register
<1>4. CASE \E id \in Subagents : SubagentStop(id)
    BY <1>4 DEF SubagentStop, Restrict
<1>5. CASE \E id \in Teammates : TeammateStart(id)
    BY <1>1, <1>5 DEF TeammateStart, Register
<1> QED
    BY <1>2, <1>3, <1>4, <1>5
    DEF AgentStep, AgentHook, ChooseAgentBackend, SetSubagentBackend, SetTeammateBackend,
        agentVars

\* What a step after resolve_backend may do to a request: end it, or move it on
\* with its routing as it is.
KeepsRouting(r) ==
    \/ requests'[r] = Idle
    \/ /\ requests[r].phase \in {"routed", "resolved"} \cup Late
       /\ requests'[r].agent = requests[r].agent
       /\ requests'[r].marker = requests[r].marker
       /\ requests'[r].override = requests[r].override
       /\ requests'[r].backend = requests[r].backend

LEMMA LaterStepsKeepRouting ==
    ASSUME PipelineTypeOK, NEW r \in Requests,
           \/ LookUpConfig(r) \/ Begin(r) \/ Transform(r) \/ RetryWithoutThinking(r)
           \/ Stream(r) \/ EndStream(r) \/ Answer(r) \/ Deliver(r) \/ Abandon(r)
    PROVE  /\ KeepsRouting(r)
           /\ \A q \in Requests \ {r} : requests'[q] = requests[q]
<1>0. requests[r] \in RequestType /\ requests \in [Requests -> RequestType]
    BY DEF PipelineTypeOK
<1>1. CASE Drop(r)
    BY <1>0, <1>1 DEF Drop, KeepsRouting
<1>2. CASE LookUpConfig(r)
    BY <1>0, <1>1, <1>2 DEF LookUpConfig, KeepsRouting, RequestType
<1>3. CASE Begin(r)
    BY <1>0, <1>3 DEF Begin, KeepsRouting, RequestType
<1>4. CASE Transform(r)
    <2> DEFINE kept  == Kept(requests[r].body, requests[r].history)
               strip == MustStrip(requests[r], kept)
    <2>1. requests[r].phase \in Late
        BY <1>4 DEF Transform, Late
    <2> HIDE DEF kept, strip
    <2>2. CASE requests' = [requests EXCEPT ![r].phase = "sent",
                                ![r].body = IF strip THEN {} ELSE kept,
                                ![r].thinking = @ /\ ~strip]
        BY <1>0, <2>1, <2>2 DEF KeepsRouting, RequestType
    <2>3. CASE requests' = [requests EXCEPT ![r].phase = "sent"]
        BY <1>0, <2>1, <2>3 DEF KeepsRouting, RequestType
    <2> QED
        BY <1>4, <2>2, <2>3 DEF Transform, kept, strip
<1>5. CASE RetryWithoutThinking(r)
    BY <1>0, <1>5 DEF RetryWithoutThinking, KeepsRouting, RequestType, Late
<1>6. ASSUME NEW S, NEW phase, NEW fresh, Signs(r, S, phase, fresh),
             requests[r].phase \in Late
      PROVE  /\ KeepsRouting(r)
             /\ \A q \in Requests \ {r} : requests'[q] = requests[q]
    BY <1>6 DEF Signs, OnlyMoves, KeepsRouting
<1>7. CASE Stream(r)
    <2>1. PICK x \in Unissued :
            /\ Sign(r, {x})
            /\ requests' = [requests EXCEPT ![r].phase = "streaming",
                              ![r].body = {}, ![r].fresh = @ \cup {x}]
        BY <1>7 DEF Stream
    <2> DEFINE fresh == requests[r].fresh \cup {x}
    <2>2. /\ fresh \in SUBSET Blocks /\ {x} \in SUBSET Unissued
          /\ requests' = [requests EXCEPT ![r].phase = "streaming", ![r].body = {},
                                         ![r].fresh = fresh]
        BY <1>0, <2>1 DEF RequestType, Unissued
    <2> HIDE DEF fresh
    <2>3. Signs(r, {x}, "streaming", fresh)
        BY <2>1, <2>2, SignEffect
    <2>4. requests[r].phase \in Late
        BY <1>7 DEF Stream, Late
    <2> QED
        BY <1>6, <2>3, <2>4
<1>8. CASE Answer(r)
    <2>1. PICK S \in SUBSET Unissued :
            /\ Sign(r, S)
            /\ requests' = [requests EXCEPT ![r].phase = "answered",
                              ![r].body = {}, ![r].fresh = S]
        BY <1>8 DEF Answer
    <2>2. Signs(r, S, "answered", S)
        BY <2>1, SignEffect DEF Unissued
    <2>3. requests[r].phase \in Late
        BY <1>8 DEF Answer, Late
    <2> QED
        BY <1>6, <2>2, <2>3
<1> QED
    BY <1>1, <1>2, <1>3, <1>4, <1>5, <1>7, <1>8 DEF EndStream, Deliver, Abandon

\* A request's own steps; the agents do not move meanwhile.
LEMMA RequestStepAffinity ==
    ASSUME PipelineTypeOK, AffinityInv, NEW r \in Requests, RequestStep(r)
    PROVE  AffinityInv'
<1>1. UNCHANGED <<backendVars, agentVars, notify>>
    BY DEF RequestStep, Arrive, ChooseBackend, LookUpConfig, Begin, Transform,
           RetryWithoutThinking, Stream, EndStream, Answer, Deliver, Abandon
<1>2. SUFFICES MarkedInv(requests'[r]) /\ \A q \in Requests \ {r} : requests'[q] = requests[q]
    BY <1>1 DEF AffinityInv, MarkedInv, agentVars
<1>3. requests[r] \in RequestType /\ requests \in [Requests -> RequestType]
    BY DEF PipelineTypeOK
<1>4. MarkedInv(requests[r])
    BY DEF AffinityInv
<1>5. MarkedInv(Idle)
    BY DEF MarkedInv, Idle
<1>6. CASE \E a \in Agents : Arrive(r, a)
    <2>1. PICK a \in Agents : Arrive(r, a)
        BY <1>6
    <2>2. OnlyMoves(r) /\ requests'[r].agent = a /\ requests'[r].phase = "received"
        BY <2>1, ArriveEffect
    <2>3. requests'[r].marker = (a \in marked) /\ requests'[r].override = TeammateOverride(a)
        BY <2>1, ArriveEffect
    <2>4. a \in marked => TeammateOverride(a) = NoName
        BY AgentsAssumption DEF PipelineTypeOK, AgentTypeOK, TeammateOverride
    <2>5. MarkedInv(requests'[r])
        BY <2>2, <2>3, <2>4 DEF MarkedInv, Late
    <2> QED
        BY <2>2, <2>5 DEF OnlyMoves
<1>7. CASE ChooseBackend(r)
    <2> DEFINE b == ChosenBackend(requests[r].agent, requests[r].override,
                                  requests[r].marker, requests[r].asked)
    <2>1. CASE Drop(r)
        BY <1>3, <1>5, <2>1 DEF Drop
    <2>2. CASE requests' = [requests EXCEPT ![r].phase = "routed", ![r].backend = b]
        <3>1. requests[r].marker /\ requests[r].override = NoName
              /\ requests[r].agent \in DOMAIN registry => b = registry[requests[r].agent]
            BY DEF ChosenBackend, ConsultsMarker
        <3> HIDE DEF b
        <3>2. /\ requests'[r].agent = requests[r].agent
              /\ requests'[r].marker = requests[r].marker
              /\ requests'[r].override = requests[r].override
              /\ requests'[r].backend = b
            BY <1>3, <2>2 DEF RequestType
        <3>3. MarkedInv(requests'[r])
            BY <1>4, <3>1, <3>2 DEF MarkedInv
        <3> QED
            BY <1>3, <2>2, <3>3
    <2> QED
        BY <1>7, <2>1, <2>2 DEF ChooseBackend
<1>8. CASE \/ LookUpConfig(r) \/ Begin(r) \/ Transform(r) \/ RetryWithoutThinking(r)
           \/ Stream(r) \/ EndStream(r) \/ Answer(r) \/ Deliver(r) \/ Abandon(r)
    <2>1. KeepsRouting(r) /\ \A q \in Requests \ {r} : requests'[q] = requests[q]
        BY <1>8, LaterStepsKeepRouting
    <2>2. CASE requests'[r] = Idle
        BY <1>5, <2>1, <2>2
    <2>3. CASE /\ requests[r].phase \in {"routed", "resolved"} \cup Late
               /\ requests'[r].agent = requests[r].agent
               /\ requests'[r].marker = requests[r].marker
               /\ requests'[r].override = requests[r].override
               /\ requests'[r].backend = requests[r].backend
        BY <1>4, <2>1, <2>3 DEF MarkedInv
    <2> QED
        BY <2>1, <2>2, <2>3 DEF KeepsRouting
<1> QED
    BY <1>6, <1>7, <1>8 DEF RequestStep

\* For any number of requests, agents, hooks, switches and updates between its
\* steps: a marked request in flight is on the backend its subagent was born
\* with, as long as the subagent is registered.
THEOREM RequestsKeepAffinity == PipelineSpec => []AffinityInFlight
<1>1. PipelineInit => AffinityInv
    BY DEF PipelineInit, AffinityInv, MarkedInv, Idle
<1>2. PipelineTypeOK /\ AffinityInv /\ [PipelineNext]_pipelineVars => AffinityInv'
    <2> SUFFICES ASSUME PipelineTypeOK, AffinityInv, [PipelineNext]_pipelineVars
                 PROVE  AffinityInv'
        OBVIOUS
    <2>1. CASE \E r \in Requests : RequestStep(r)
        BY <2>1, RequestStepAffinity
    <2>2. CASE UNCHANGED requests /\ (AgentStep \/ UNCHANGED agentVars)
        <3> SUFFICES ASSUME NEW r \in Requests PROVE MarkedInv(requests[r])'
            BY DEF AffinityInv
        <3>1. MarkedInv(requests[r]) /\ requests'[r] = requests[r]
            BY <2>2 DEF AffinityInv
        <3>2. \A a \in marked : /\ a \in marked'
                                /\ a \in DOMAIN registry' =>
                                      a \in DOMAIN registry /\ registry'[a] = registry[a]
            <4>1. marked \subseteq marked'
                BY <2>2 DEF AgentStep, AgentHook, ChooseAgentBackend, SetSubagentBackend,
                    SetTeammateBackend, SubagentStart, SubagentStop, TeammateStart, agentVars
            <4> QED
                BY <2>2, <4>1, MarkedStay DEF PipelineTypeOK
        <3> QED
            BY <3>1, <3>2 DEF MarkedInv
    <2> QED
        BY <2>1, <2>2
        DEF PipelineNext, IpcSwitch, IpcNotify, WebuiStep, AgentStep, TimePasses, pipelineVars
<1>3. AffinityInv => AffinityInFlight
    BY DEF AffinityInv, MarkedInv, AffinityInFlight
<1> QED
    BY <1>1, <1>2, <1>3, PipelineTypeCorrect, PTL DEF PipelineSpec

-----------------------------------------------------------------------------
(* What the filter leaves of a history.                                    *)

\* A filtered request by its session, what its body becomes and whether it goes
\* on asking for thinking.
LEMMA FilteredBody ==
    ASSUME PipelineTypeOK, RequestsInv, NEW r \in Requests, RequestStep(r), Filters(r)
    PROVE  \/ /\ requests'[r].body = {} /\ requests'[r].thinking = FALSE
              /\ MustStrip(requests[r], Kept(requests[r].body, requests[r].history))
           \/ /\ requests'[r].body = requests[r].body
              /\ requests'[r].thinking = requests[r].thinking
              /\ requests[r].history => requests[r].body # {}
<1> DEFINE req   == requests[r]
           kept  == Kept(req.body, req.history)
           strip == MustStrip(req, kept)
<1>1. req \in RequestType /\ requests \in [Requests -> RequestType]
    BY DEF PipelineTypeOK
<1>2. Transform(r)
    BY <1>1 DEF RequestStep, Filters, Arrive, ChooseBackend, LookUpConfig, Begin,
        RetryWithoutThinking, Stream, EndStream, Answer, Deliver, Abandon, Drop, Idle
<1>3. kept \subseteq req.body /\ (req.body # {} => req.history)
    BY DEF Kept, RequestsInv
<1>4. CASE requests' = [requests EXCEPT ![r].phase = "sent",
                           ![r].body = IF strip THEN {} ELSE kept,
                           ![r].thinking = @ /\ ~strip]
    <2> DEFINE body     == IF strip THEN {} ELSE kept
               thinking == req.thinking /\ ~strip
    <2>1. requests' = [requests EXCEPT ![r].phase = "sent", ![r].body = body,
                                      ![r].thinking = thinking]
        BY <1>1, <1>4
    <2>2. body = (IF strip THEN {} ELSE kept) /\ thinking = (req.thinking /\ ~strip)
        OBVIOUS
    <2> HIDE DEF body, thinking
    <2>3. requests'[r].body = body /\ requests'[r].thinking = thinking
        BY <1>1, <2>1 DEF RequestType
    <2>4. strip <=> (req.history /\ (kept # req.body \/ kept = {}))
        BY DEF MustStrip
    <2>5. CASE strip
        BY <2>2, <2>3, <2>5
    <2>6. CASE ~strip
        <3>1. kept = req.body /\ (req.history => req.body # {})
            BY <1>3, <2>4, <2>6
        <3>2. requests'[r].body = req.body
            BY <2>2, <2>3, <2>6, <3>1
        <3>3. req.thinking \in BOOLEAN
            BY <1>1 DEF RequestType
        <3>4. requests'[r].thinking = req.thinking
            BY <2>2, <2>3, <2>6, <3>3
        <3> QED
            BY <3>1, <3>2, <3>4
    <2> QED
        BY <2>5, <2>6
<1>5. CASE /\ req.session = 0 \/ ~(req.history \/ req.thinking)
           /\ requests' = [requests EXCEPT ![r].phase = "sent"]
    <2>1. req.session # 0
        BY DEF Filters, HasSession
    <2> QED
        BY <1>1, <1>5, <2>1 DEF RequestType
<1> QED
    BY <1>2, <1>4, <1>5 DEF Transform

\* Only a step of its own filters a request.
LEMMA FiltersItself ==
    ASSUME PipelineTypeOK, PipelineNext, NEW r \in Requests, Filters(r)
    PROVE  RequestStep(r)
<1>1. ASSUME NEW q \in Requests, RequestStep(q), q # r
      PROVE  FALSE
    <2>1. \A p \in Requests \ {q} : requests'[p] = requests[p]
        <3>1. CASE \E a \in Agents : Arrive(q, a)
            BY <3>1, ArriveEffect DEF OnlyMoves
        <3>2. CASE ChooseBackend(q)
            BY <3>2 DEF ChooseBackend, Drop, PipelineTypeOK
        <3>3. CASE \/ LookUpConfig(q) \/ Begin(q) \/ Transform(q) \/ RetryWithoutThinking(q)
                   \/ Stream(q) \/ EndStream(q) \/ Answer(q) \/ Deliver(q) \/ Abandon(q)
            BY <3>3, LaterStepsKeepRouting
        <3> QED
            BY <1>1, <3>1, <3>2, <3>3 DEF RequestStep
    <2> QED
        BY <1>1, <2>1 DEF Filters
<1>2. requests' # requests
    BY DEF Filters
<1> QED
    BY <1>1, <1>2 DEF PipelineNext, IpcSwitch, IpcNotify, WebuiStep, AgentStep, TimePasses

\* A filtered history goes out whole or not at all, whatever was registered,
\* confirmed, dropped or switched before, see transform_body.
THEOREM HistoryAlwaysWholeOrNone == PipelineSpec => WholeHistoryOrNone
<1>1. PipelineInv /\ [PipelineNext]_pipelineVars =>
        [\A r \in Requests : Filters(r) =>
            /\ requests'[r].body \in {requests[r].body, {}}
            /\ requests[r].history /\ requests'[r].thinking => requests'[r].body # {}
        ]_pipelineVars
    BY FilteredBody, FiltersItself DEF PipelineInv, ThinkingInv
<1> QED
    BY <1>1, PipelineInvariant, PTL DEF PipelineSpec, WholeHistoryOrNone

-----------------------------------------------------------------------------
(* An agent that waits and repeats its history keeps it.  There is one      *)
(* agent: with a second one the cleanup rules take the blocks that the      *)
(* other's request does not hold.                                           *)

OneAgentWaits == Polite /\ Agents = {Main}

Unfiltered == {"received", "routed", "resolved", "begun"}

\* The session of x goes on.
Lives(x) == issued[x].session # 0 /\ issued[x].session = current_session

\* One request at a time holds the whole history or none, and what the agent
\* knows of the session that goes on is registered, or will be when the stream
\* that brought it ends.
PoliteInv ==
    /\ \A r, q \in Requests : requests[r].phase # "idle" /\ requests[q].phase # "idle" => r = q
    /\ \A r \in Requests :
          requests[r].phase \in Unfiltered => requests[r].body \in {{}, known[Main]}
    /\ \A x \in known[Main] : Lives(x) =>
          \/ x \in DOMAIN blocks
          \/ \E r \in Requests : requests[r].phase = "streaming" /\ x \in requests[r].fresh
    /\ \A r \in Requests : requests[r].phase = "answered" =>
          \A x \in requests[r].fresh : Lives(x) => x \in DOMAIN blocks

LEMMA PoliteInit == PipelineInit => PoliteInv
BY DEF PipelineInit, PoliteInv, Idle, Unfiltered, Agents

\* What is known is registered or still streams to the request in flight.
LEMMA KnownIsHeld ==
    ASSUME PoliteInv, NEW r \in Requests, requests[r].phase # "idle",
           NEW x \in known[Main], Lives(x)
    PROVE  x \in DOMAIN blocks \/ (requests[r].phase = "streaming" /\ x \in requests[r].fresh)
BY DEF PoliteInv

\* What is left to show of a step of the request in flight.
LEMMA PoliteStep ==
    ASSUME PoliteInv, NEW r \in Requests, requests[r].phase # "idle", OnlyMoves(r),
           requests'[r].phase \in Unfiltered => requests'[r].body \in {{}, known'[Main]},
           \A x \in known'[Main] : Lives(x)' =>
               \/ x \in DOMAIN blocks'
               \/ requests'[r].phase = "streaming" /\ x \in requests'[r].fresh,
           requests'[r].phase = "answered" =>
               \A x \in requests'[r].fresh : Lives(x)' => x \in DOMAIN blocks'
    PROVE  PoliteInv'
<1>1. \A q \in Requests \ {r} : requests'[q] = requests[q] /\ requests[q].phase = "idle"
    BY DEF PoliteInv, OnlyMoves
<1>2. \A p, q \in Requests : requests'[p].phase # "idle" /\ requests'[q].phase # "idle" => p = q
    BY <1>1
<1>3. \A q \in Requests :
        requests'[q].phase \in Unfiltered => requests'[q].body \in {{}, known'[Main]}
    BY <1>1 DEF Unfiltered
<1>4. \A q \in Requests : requests'[q].phase = "answered" =>
        \A x \in requests'[q].fresh : Lives(x)' => x \in DOMAIN blocks'
    BY <1>1
<1> QED
    BY <1>2, <1>3, <1>4 DEF PoliteInv

\* A switch of the registry ends the session of every block, or none.
LEMMA SwitchEndsLives ==
    ASSUME PipelineTypeOK, IssuedInv, NEW b, OnBackendSwitch(b), UNCHANGED issued,
           NEW x \in Blocks, Lives(x)'
    PROVE  Lives(x)
<1>1. /\ current_session' \in {current_session, current_session + 1}
      /\ current_session \in Nat /\ issued[x].session \in Nat
    BY DEF OnBackendSwitch, SessionAt, PipelineTypeOK, RegistryTypeOK, Issue
<1>2. issued[x].session # 0 /\ issued[x].session = current_session'
    BY DEF Lives
<1>3. issued[x].session <= current_session
    BY <1>2 DEF IssuedInv
<1> QED
    BY <1>1, <1>2, <1>3 DEF Lives

LEMMA SwitchPolite ==
    ASSUME PipelineTypeOK, IssuedInv, PoliteInv, NEW b, OnBackendSwitch(b),
           UNCHANGED <<requests, known, issued>>
    PROVE  PoliteInv'
<1>1. \A x \in known[Main] : Lives(x)' => Lives(x)
    BY SwitchEndsLives DEF PipelineTypeOK, Agents
<1>2. \A r \in Requests : \A x \in requests[r].fresh : Lives(x)' => Lives(x)
    BY SwitchEndsLives DEF PipelineTypeOK, RequestType
<1> QED
    BY <1>1, <1>2 DEF PoliteInv, OnBackendSwitch

LEMMA ArrivePolite ==
    ASSUME OneAgentWaits, PipelineTypeOK, PoliteInv, NEW r \in Requests, Arrive(r, Main)
    PROVE  PoliteInv'
<1>1. PICK S \in SUBSET known[Main], history \in BOOLEAN, thinking \in BOOLEAN, asked \in Asks :
        /\ MaySend(Main, S)
        /\ requests' = [requests EXCEPT ![r] =
              [Idle EXCEPT !.phase = "received", !.agent = Main,
                           !.marker = (Main \in marked), !.asked = asked,
                           !.override = TeammateOverride(Main), !.body = S,
                           !.history = history, !.thinking = thinking]]
    BY DEF Arrive
<1>2. \A q \in Requests : requests[q].phase = "idle"
    BY <1>1 DEF MaySend, OneAgentWaits, PipelineTypeOK, RequestType
<1>3. S \in {{}, known[Main]}
    BY <1>1 DEF MaySend, OneAgentWaits
<1> DEFINE req == [Idle EXCEPT !.phase = "received", !.agent = Main,
                               !.marker = (Main \in marked), !.asked = asked,
                               !.override = TeammateOverride(Main), !.body = S,
                               !.history = history, !.thinking = thinking]
<1>4. req.phase = "received" /\ req.body = S
    BY DEF Idle
<1>5. requests' = [requests EXCEPT ![r] = req]
    BY <1>1
<1> HIDE DEF req
<1>6. requests'[r] = req /\ \A q \in Requests \ {r} : requests'[q] = requests[q]
    BY <1>5 DEF PipelineTypeOK
<1>7. UNCHANGED <<known, blocks, issued, current_session>>
    BY DEF Arrive, registryVars
<1>8. \A x \in known'[Main] : Lives(x)' => x \in DOMAIN blocks'
    BY <1>2, <1>7 DEF PoliteInv, Lives
<1> QED
    BY <1>2, <1>3, <1>4, <1>6, <1>7, <1>8 DEF PoliteInv, Unfiltered

\* The filter takes nothing from the history that the request repeats, and
\* without blocks in the request it takes nothing of the session that goes on.
LEMMA FilterKeepsKnown ==
    ASSUME RegisteredInv, NEW S, NEW history, NEW x \in DOMAIN blocks, Lives(x),
           FilterRequest(S, history), S = {} \/ x \in S
    PROVE  x \in DOMAIN blocks' /\ (x \in S => x \in Kept(S, history))
<1>1. ~IsOld(x)
    BY DEF RegisteredInv, RegisteredUnderOwnSession, Lives, IsOld
<1>2. x \in Survivors(S, history)
    BY <1>1 DEF Survivors, IsUnused, IsOrphan
<1> QED
    BY <1>2 DEF FilterRequest, Kept

LEMMA TransformPolite ==
    ASSUME PipelineTypeOK, RegisteredInv, PoliteInv, NEW r \in Requests, Transform(r)
    PROVE  PoliteInv'
<1>1. /\ OnlyMoves(r) /\ requests[r].phase = "begun" /\ requests'[r].phase = "sent"
      /\ \/ FilterRequest(requests[r].body, requests[r].history)
         \/ UNCHANGED registryVars
    BY TransformEffect
<1>2. UNCHANGED <<known, issued, current_session>>
    BY DEF Transform, FilterRequest, registryVars
<1>3. requests[r].body \in {{}, known[Main]}
    BY <1>1 DEF PoliteInv, Unfiltered
<1>4. ASSUME NEW x \in known'[Main], Lives(x)'
      PROVE  x \in DOMAIN blocks'
    <2>1. x \in known[Main] /\ Lives(x)
        BY <1>2, <1>4 DEF Lives
    <2>2. x \in DOMAIN blocks
        BY <1>1, <2>1, KnownIsHeld
    <2>3. CASE FilterRequest(requests[r].body, requests[r].history)
        BY <1>3, <2>1, <2>2, <2>3, FilterKeepsKnown
    <2>4. CASE UNCHANGED registryVars
        BY <2>2, <2>4 DEF registryVars
    <2> QED
        BY <1>1, <2>3, <2>4
<1> QED
    BY <1>1, <1>4, PoliteStep DEF Unfiltered

\* A step of the request in flight that touches nothing else.
LEMMA QuietPolite ==
    ASSUME PoliteInv, NEW r \in Requests, OnlyMoves(r),
           requests[r].phase \notin {"idle", "streaming"},
           requests'[r].phase # "answered",
           requests'[r].phase \in Unfiltered => requests'[r].body \in {{}, known[Main]},
           UNCHANGED <<blocks, current_session, known, issued>>
    PROVE  PoliteInv'
<1>1. \A x \in known'[Main] : Lives(x)' => x \in DOMAIN blocks'
    BY KnownIsHeld DEF Lives
<1> QED
    BY <1>1, PoliteStep

LEMMA BeginPolite ==
    ASSUME PipelineTypeOK, RequestsInv, IssuedInv, PoliteInv, NEW r \in Requests, Begin(r)
    PROVE  PoliteInv'
<1>1. /\ OnlyMoves(r) /\ requests[r].phase = "resolved" /\ requests'[r].phase = "begun"
      /\ requests'[r].body = requests[r].body
      /\ OnBackendSwitch(requests[r].backend) \/ UNCHANGED registryVars
    BY BeginEffect DEF Begin
<1>2. UNCHANGED <<blocks, known, issued>>
    BY <1>1 DEF Begin, OnBackendSwitch, registryVars
<1>3. requests[r].body \in {{}, known[Main]}
    BY <1>1 DEF PoliteInv, Unfiltered
<1>4. \A x \in known[Main] : Lives(x)' => Lives(x)
    BY <1>1, <1>2, SwitchEndsLives DEF PipelineTypeOK, Agents, Lives, registryVars
<1>5. \A x \in known'[Main] : Lives(x)' => x \in DOMAIN blocks'
    BY <1>1, <1>2, <1>4, KnownIsHeld
<1> QED
    BY <1>1, <1>2, <1>3, <1>5, PoliteStep

\* What is signed now was known to nobody.
LEMMA SignsNothingKnown ==
    ASSUME PipelineTypeOK, \A a \in Agents : Signed(known[a]), UNCHANGED current_session,
           NEW r \in Requests, NEW S \in SUBSET Unissued, NEW phase, NEW fresh,
           Signs(r, S, phase, fresh), NEW x \in known[Main]
    PROVE  Lives(x)' <=> Lives(x)
<1>1. x \in Blocks /\ issued[x].by # NoName
    BY DEF PipelineTypeOK, Agents, Signed
<1>2. x \notin S
    BY <1>1 DEF Unissued
<1> QED
    BY <1>1, <1>2 DEF Signs, Lives

LEMMA StreamPolite ==
    ASSUME OneAgentWaits, PipelineTypeOK, \A a \in Agents : Signed(known[a]), PoliteInv,
           NEW r \in Requests, Stream(r)
    PROVE  PoliteInv'
<1>1. PICK x \in Unissued :
        /\ Sign(r, {x})
        /\ known' = [known EXCEPT ![requests[r].agent] = @ \cup {x}]
        /\ requests' = [requests EXCEPT ![r].phase = "streaming",
                          ![r].body = {}, ![r].fresh = @ \cup {x}]
    BY DEF Stream
<1> DEFINE fresh == requests[r].fresh \cup {x}
<1>2. /\ fresh \in SUBSET Blocks /\ {x} \in SUBSET Unissued
      /\ requests' = [requests EXCEPT ![r].phase = "streaming", ![r].body = {},
                                     ![r].fresh = fresh]
    BY <1>1 DEF PipelineTypeOK, RequestType, Unissued
<1>3. requests[r].fresh \subseteq fresh /\ x \in fresh
    OBVIOUS
<1> HIDE DEF fresh
<1>4. Signs(r, {x}, "streaming", fresh)
    BY <1>1, <1>2, SignEffect
<1>5. /\ OnlyMoves(r) /\ requests'[r].phase = "streaming" /\ requests'[r].fresh = fresh
      /\ requests[r].phase \in {"sent", "streaming"}
      /\ UNCHANGED <<blocks, current_session>>
    BY <1>4 DEF Signs, Stream, registryVars
<1>6. known'[Main] = known[Main] \cup {x}
    BY <1>1 DEF OneAgentWaits, PipelineTypeOK, RequestType
<1>7. \A y \in known[Main] : Lives(y)' => y \in DOMAIN blocks' \/ y \in fresh
    BY <1>2, <1>3, <1>4, <1>5, SignsNothingKnown, KnownIsHeld
<1> QED
    BY <1>3, <1>5, <1>6, <1>7, PoliteStep DEF Unfiltered

\* The end of a stream registers what it brought, unless it has no session, and
\* then nothing of it lives.
LEMMA EndStreamPolite ==
    ASSUME PipelineTypeOK, RequestsInv, PoliteInv, NEW r \in Requests, EndStream(r)
    PROVE  PoliteInv'
<1>1. /\ OnlyMoves(r) /\ requests'[r] = Idle /\ requests[r].phase = "streaming"
      /\ UNCHANGED <<known, issued>> /\ RegisterFor(r, requests[r].fresh)
    BY DropEffect DEF EndStream
<1>2. UNCHANGED current_session /\ DOMAIN blocks \subseteq DOMAIN blocks'
    BY <1>1 DEF RegisterFor, RegisterBlocks, registryVars
<1>3. \A x \in requests[r].fresh : Lives(x) => x \in DOMAIN blocks'
    BY <1>1 DEF RequestsInv, Lives, RegisterFor, RegisterBlocks
<1>4. \A x \in known'[Main] : Lives(x)' => x \in DOMAIN blocks'
    BY <1>1, <1>2, <1>3, KnownIsHeld DEF Lives
<1> QED
    BY <1>1, <1>4, PoliteStep, IdleFacts DEF Unfiltered

LEMMA AnswerPolite ==
    ASSUME PipelineTypeOK, \A a \in Agents : Signed(known[a]), PoliteInv,
           NEW r \in Requests, Answer(r)
    PROVE  PoliteInv'
<1>1. PICK S \in SUBSET Unissued :
        /\ Sign(r, S)
        /\ RegisterFor(r, S)
        /\ requests' = [requests EXCEPT ![r].phase = "answered",
                          ![r].body = {}, ![r].fresh = S]
    BY DEF Answer
<1>2. Signs(r, S, "answered", S)
    BY <1>1, SignEffect DEF Unissued
<1>3. /\ OnlyMoves(r) /\ requests'[r].phase = "answered" /\ requests'[r].fresh = S
      /\ requests[r].phase = "sent" /\ UNCHANGED known
    BY <1>2 DEF Signs, Answer
<1>4. UNCHANGED current_session /\ DOMAIN blocks \subseteq DOMAIN blocks'
    BY <1>1 DEF RegisterFor, RegisterBlocks, registryVars
<1>5. \A x \in known'[Main] : Lives(x)' => x \in DOMAIN blocks'
    BY <1>2, <1>3, <1>4, SignsNothingKnown, KnownIsHeld
<1>6. \A x \in S : Lives(x)' => x \in DOMAIN blocks'
    BY <1>1, <1>2 DEF Signs, Lives, RegisterFor, RegisterBlocks
<1> QED
    BY <1>3, <1>5, <1>6, PoliteStep DEF Unfiltered

LEMMA DeliverPolite ==
    ASSUME OneAgentWaits, PipelineTypeOK, PoliteInv, NEW r \in Requests, Deliver(r)
    PROVE  PoliteInv'
<1>1. /\ OnlyMoves(r) /\ requests'[r] = Idle /\ requests[r].phase = "answered"
      /\ UNCHANGED <<blocks, current_session, issued>>
      /\ known' = [known EXCEPT ![requests[r].agent] = @ \cup requests[r].fresh]
    BY DropEffect DEF Deliver, registryVars
<1>2. known'[Main] = known[Main] \cup requests[r].fresh
    BY <1>1 DEF OneAgentWaits, PipelineTypeOK, RequestType
<1>3. \A x \in requests[r].fresh : Lives(x) => x \in DOMAIN blocks
    BY <1>1 DEF PoliteInv
<1>4. \A x \in known[Main] : Lives(x) => x \in DOMAIN blocks
    BY <1>1, KnownIsHeld
<1>5. \A x \in known'[Main] : Lives(x)' => x \in DOMAIN blocks'
    BY <1>1, <1>2, <1>3, <1>4 DEF Lives
<1> QED
    BY <1>1, <1>5, PoliteStep, IdleFacts DEF Unfiltered

LEMMA RequestStepPolite ==
    ASSUME OneAgentWaits, PipelineInv, PoliteInv, NEW r \in Requests, RequestStep(r)
    PROVE  PoliteInv'
<1>1. /\ PipelineTypeOK /\ BackendTypeOK /\ RequestsInv /\ IssuedInv /\ RegisteredInv
      /\ \A a \in Agents : Signed(known[a])
    BY DEF PipelineInv, ThinkingInv, PipelineTypeOK
<1>2. ASSUME NEW a \in Agents, Arrive(r, a)
      PROVE  PoliteInv'
    BY <1>1, <1>2, ArrivePolite DEF OneAgentWaits
<1>3. CASE ChooseBackend(r) \/ LookUpConfig(r)
    <2>1. /\ requests[r].phase \in {"received", "routed"}
          /\ UNCHANGED <<blocks, current_session, known, issued>>
        BY <1>3 DEF ChooseBackend, LookUpConfig, registryVars
    <2>2. requests[r].body \in {{}, known[Main]}
        BY <2>1 DEF PoliteInv, Unfiltered
    <2>3. /\ OnlyMoves(r) /\ requests'[r].phase # "answered"
          /\ requests'[r].body \in {{}, requests[r].body}
        BY <1>1, <1>3, RouteEffect, IdleFacts
    <2> QED
        BY <2>1, <2>2, <2>3, QuietPolite
<1>4. CASE Begin(r)
    BY <1>1, <1>4, BeginPolite
<1>5. CASE Transform(r)
    BY <1>1, <1>5, TransformPolite
<1>6. CASE RetryWithoutThinking(r)
    <2>1. UNCHANGED <<blocks, current_session, known, issued>>
        BY <1>6 DEF RetryWithoutThinking, registryVars
    <2> QED
        BY <1>1, <1>6, <2>1, RetryEffect, QuietPolite
<1>7. CASE Stream(r)
    BY <1>1, <1>7, StreamPolite
<1>8. CASE EndStream(r)
    BY <1>1, <1>8, EndStreamPolite
<1>9. CASE Answer(r)
    BY <1>1, <1>9, AnswerPolite
<1>10. CASE Deliver(r)
    BY <1>1, <1>10, DeliverPolite
<1>11. CASE Abandon(r)
    <2>1. /\ requests[r].phase \notin {"idle", "streaming"} /\ Drop(r)
          /\ UNCHANGED <<blocks, current_session, known, issued>>
        BY <1>11 DEF Abandon, registryVars
    <2> QED
        BY <1>1, <2>1, DropEffect, IdleFacts, QuietPolite
<1> QED
    BY <1>2, <1>3, <1>4, <1>5, <1>6, <1>7, <1>8, <1>9, <1>10, <1>11 DEF RequestStep

LEMMA PoliteInductive ==
    ASSUME OneAgentWaits, PipelineInv, PoliteInv, [PipelineNext]_pipelineVars
    PROVE  PoliteInv'
<1>1. PipelineTypeOK /\ IssuedInv
    BY DEF PipelineInv, ThinkingInv
<1>2. ASSUME NEW r \in Requests, RequestStep(r)
      PROVE  PoliteInv'
    BY <1>2, RequestStepPolite
<1>3. CASE IpcNotify
    BY <1>1, <1>3, SwitchPolite DEF IpcNotify
<1>4. CASE UNCHANGED <<registryVars, requests, known, issued>>
    BY <1>4 DEF PoliteInv, Lives, registryVars
<1>5. CASE TimePasses
    <2>1. /\ DOMAIN blocks' = DOMAIN blocks
          /\ UNCHANGED <<current_session, requests, known, issued>>
        BY <1>5 DEF TimePasses, GraceExpires
    <2> QED
        BY <2>1 DEF PoliteInv, Lives
<1>6. CASE (\E b \in Backends : IpcSwitch(b)) \/ WebuiStep \/ AgentStep \/ UNCHANGED pipelineVars
    <2>1. UNCHANGED <<registryVars, requests, known, issued>>
        BY <1>6 DEF IpcSwitch, WebuiStep, AgentStep, pipelineVars
    <2> QED
        BY <1>4, <2>1
<1> QED
    BY <1>2, <1>3, <1>5, <1>6 DEF PipelineNext

\* A filtered history of the session it runs in is kept.
LEMMA PoliteFilterKeeps ==
    ASSUME PipelineInv, PoliteInv, NEW r \in Requests, RequestStep(r), Filters(r),
           requests[r].body # {}, OfCurrentSession(requests[r].body)
    PROVE  /\ requests'[r].body = requests[r].body
           /\ requests'[r].thinking = requests[r].thinking
<1> DEFINE req == requests[r]
<1>1. PipelineTypeOK /\ RequestsInv /\ RegisteredInv
    BY DEF PipelineInv, ThinkingInv
<1>2. req \in RequestType /\ requests \in [Requests -> RequestType]
    BY <1>1 DEF PipelineTypeOK
<1>3. Transform(r)
    BY <1>2 DEF RequestStep, Filters, Arrive, ChooseBackend, LookUpConfig, Begin,
        RetryWithoutThinking, Stream, EndStream, Answer, Deliver, Abandon, Drop, Idle
<1>4. req.phase = "begun" /\ req.session # 0 /\ req.history
    BY <1>1 DEF Filters, HasSession, RequestsInv
<1>5. FilterRequest(req.body, req.history)
    BY <1>3, <1>4 DEF Transform
<1>6. req.body = known[Main]
    BY <1>4 DEF PoliteInv, Unfiltered
<1>7. current_session # 0
    <2>1. req.session \in Nat /\ current_session \in Nat /\ req.session <= current_session
        BY <1>1, <1>2, <1>4 DEF PipelineTypeOK, RegistryTypeOK, RequestType, RequestsInv, HasSession
    <2> QED
        BY <1>4, <2>1
<1>8. ASSUME NEW x \in req.body
      PROVE  x \in Kept(req.body, req.history)
    <2>1. Lives(x)
        BY <1>7 DEF OfCurrentSession, Lives
    <2>2. x \in DOMAIN blocks
        BY <1>4, <1>6, <2>1, KnownIsHeld
    <2> QED
        BY <1>1, <1>5, <2>1, <2>2, FilterKeepsKnown
<1>9. Kept(req.body, req.history) = req.body
    BY <1>8 DEF Kept
<1>10. ~MustStrip(req, Kept(req.body, req.history))
    BY <1>9 DEF MustStrip
<1> QED
    BY <1>1, <1>10, FilteredBody

\* An agent that waits for its answers and repeats its history loses none of it,
\* nor its thinking, to confirm, cleanup and filter, however its streams end and
\* whatever switches meanwhile: what it received of the session that goes on was
\* registered before it could be sent back, and no cleanup saw a request that
\* held blocks without it.  The hypothesis is about the client, and the model has
\* it as a constant and as the set of agents.
THEOREM PoliteHistoryAlwaysKept == OneAgentWaits => (PipelineSpec => ValidHistoryKept)
<1> SUFFICES ASSUME OneAgentWaits
             PROVE  PipelineSpec => ValidHistoryKept
    OBVIOUS
<1>1. PipelineInit => PoliteInv
    BY PoliteInit
<1>2. PipelineInv /\ PoliteInv /\ [PipelineNext]_pipelineVars => PoliteInv'
    BY PoliteInductive
<1>3. PipelineInv /\ PoliteInv /\ [PipelineNext]_pipelineVars =>
        [\A r \in Requests :
           Filters(r) /\ requests[r].body # {} /\ OfCurrentSession(requests[r].body) =>
              /\ requests'[r].body = requests[r].body
              /\ requests'[r].thinking = requests[r].thinking
        ]_pipelineVars
    BY PoliteFilterKeeps, FiltersItself DEF PipelineInv
<1> QED
    BY <1>1, <1>2, <1>3, PipelineInvariant, PTL DEF PipelineSpec, ValidHistoryKept
=============================================================================
