---------------------------- MODULE RequestPipeline ----------------------------
(***************************************************************************)
(* Requests on their way through src/proxy/pipeline, with the state they   *)
(* share: the backend table, the agent registry and the thinking registry. *)
(* A request is a task of its own; another task may run between any two    *)
(* of its lock acquisitions, so each acquisition is a step.  It passes     *)
(*                                                                         *)
(*   received -> routed -> resolved -> begun -> sent -> streaming          *)
(*                                              sent -> answered           *)
(*                                                                         *)
(* and its slot is idle again when it is over.                             *)
(*                                                                         *)
(* Claude Code and the backends are external.  A request carries thinking  *)
(* blocks its agent has received before; a backend produces new blocks     *)
(* (nobody has produced the same content before) when thinking is on.      *)
(***************************************************************************)
EXTENDS AgentRouting, ThinkingRegistry

CONSTANTS
    Requests,       \* slots of requests in flight
    Asks,           \* the backends a model name may ask for, NoName for none
    Polite,         \* agents send one request at a time, with all or nothing
                    \* of their thinking history
    MaxSession      \* bound on current_session, for model checking only

ASSUME RequestAssumption ==
    /\ Asks \subseteq Option(Backends)
    /\ Polite \in BOOLEAN
    /\ MaxSession \in Nat

VARIABLES
    requests,       \* slot to request
    notify,         \* IPC server: a switch it has yet to tell the registry
    known,          \* external: agent to the blocks in its conversation
    issued          \* external: block to the backend that signed it, and the
                    \* thinking session of the request that obtained it

pipelineVars ==
    <<backendVars, agentVars, registryVars, requests, notify, known, issued>>

Phases == {"idle", "received", "routed", "resolved", "begun", "sent",
           "streaming", "answered"}

RequestType ==
    [ phase    : Phases,
      agent    : Agents,
      marker   : BOOLEAN,           \* its body carries its agent's AC marker
      asked    : Option(Backends),  \* backend its model name asks for
      override : Option(Backends),  \* backend_override of a teammate request
      backend  : Option(Backends),  \* the backend it was routed to
      session  : Nat,               \* its ThinkingSession, 0 when it has none
      body     : SUBSET Blocks,     \* the thinking blocks in its messages
      history  : BOOLEAN,           \* it has assistant messages
      thinking : BOOLEAN,           \* it has the top-level thinking field
      fresh    : SUBSET Blocks ]    \* the blocks of its response so far

Idle ==
    [ phase |-> "idle", agent |-> Main, marker |-> FALSE, asked |-> NoName,
      override |-> NoName, backend |-> NoName, session |-> 0, body |-> {},
      history |-> FALSE, thinking |-> FALSE, fresh |-> {} ]

Issue == [by : Option(Backends), session : Nat]

Unissued == {x \in Blocks : issued[x].by = NoName}

PipelineInit ==
    /\ BackendInit /\ AgentInit /\ RegistryInit
    /\ requests = [r \in Requests |-> Idle]
    /\ notify = NoName
    /\ known = [a \in Agents |-> {}]
    /\ issued = [x \in Blocks |-> [by |-> NoName, session |-> 0]]

-----------------------------------------------------------------------------
(* A request's own steps. *)

\* What an agent may put in a request.
MaySend(a, S) ==
    IF Polite
    THEN /\ \A r \in Requests : requests[r].phase # "idle" => requests[r].agent # a
         /\ S \in {{}, known[a]}
    ELSE S \subseteq known[a]

\* proxy_handler and extract_request: the override of a teammate is looked up
\* before the body is awaited.
Arrive(r, a) ==
    /\ requests[r].phase = "idle"
    /\ \E S \in SUBSET known[a], history, thinking \in BOOLEAN, asked \in Asks :
         /\ MaySend(a, S)
         /\ S # {} => history
         /\ requests' = [requests EXCEPT ![r] =
              [Idle EXCEPT !.phase = "received", !.agent = a,
                           !.marker = (a \in marked), !.asked = asked,
                           !.override = TeammateOverride(a), !.body = S,
                           !.history = history, !.thinking = thinking]]
    /\ UNCHANGED <<backendVars, agentVars, registryVars, notify, known, issued>>

\* The request ends here: an error, or a client that went away.
Drop(r) == requests' = [requests EXCEPT ![r] = Idle]

\* resolve_backend chooses a name,
ChooseBackend(r) ==
    /\ requests[r].phase = "received"
    /\ LET req == requests[r]
           b   == ChosenBackend(req.agent, req.override, req.marker, req.asked)
       IN  IF b = NoName THEN Drop(r)
           ELSE requests' = [requests EXCEPT ![r].phase = "routed", ![r].backend = b]
    /\ UNCHANGED <<backendVars, agentVars, registryVars, notify, known, issued>>

\* and then looks its configuration up.
LookUpConfig(r) ==
    /\ requests[r].phase = "routed"
    /\ IF HasBackend(config, requests[r].backend)
       THEN requests' = [requests EXCEPT ![r].phase = "resolved"]
       ELSE Drop(r)
    /\ UNCHANGED <<backendVars, agentVars, registryVars, notify, known, issued>>

\* create_thinking, which a request with an override skips.
Begin(r) ==
    /\ requests[r].phase = "resolved"
    /\ IF requests[r].override = NoName
       THEN /\ OnBackendSwitch(requests[r].backend)
            /\ requests' = [requests EXCEPT ![r].phase = "begun",
                              ![r].session = SessionAt(requests[r].backend)]
       ELSE /\ requests' = [requests EXCEPT ![r].phase = "begun"]
            /\ UNCHANGED registryVars
    /\ UNCHANGED <<backendVars, agentVars, notify, known, issued>>

\* Mutant of MustStrip: what is left of a history is sent.
StripWhenEmpty(req, kept) == req.history /\ kept = {}

\* A request with assistant messages that lost a block, or has none left, loses
\* every block and the thinking field.
MustStrip(req, kept) == req.history /\ (kept # req.body \/ kept = {})

\* transform_body: a request with a ThinkingSession is filtered, and stripped if
\* it must be.  A body that is not JSON is forwarded untouched.
Transform(r) ==
    LET req   == requests[r]
        kept  == Kept(req.body, req.history)
        strip == MustStrip(req, kept)
    IN  /\ req.phase = "begun"
        /\ \/ /\ req.session # 0
              /\ FilterRequest(req.body, req.history)
              /\ requests' = [requests EXCEPT ![r].phase = "sent",
                                ![r].body = IF strip THEN {} ELSE kept,
                                ![r].thinking = @ /\ ~strip]
           \/ /\ req.session = 0 \/ ~(req.history \/ req.thinking)
              /\ requests' = [requests EXCEPT ![r].phase = "sent"]
              /\ UNCHANGED registryVars
        /\ UNCHANGED <<backendVars, agentVars, notify, known, issued>>

\* backend_400_auto_retry, third case: the backend misses thinking blocks, so
\* the request is sent again without any and without the thinking field.
RetryWithoutThinking(r) ==
    /\ requests[r].phase = "sent"
    /\ requests[r].thinking \/ requests[r].body # {}
    /\ requests' = [requests EXCEPT ![r].body = {}, ![r].thinking = FALSE]
    /\ UNCHANGED <<backendVars, agentVars, registryVars, notify, known, issued>>

\* The backend signs new blocks S for request r.
Sign(r, S) ==
    /\ S \subseteq Unissued
    /\ S # {} => requests[r].thinking
    /\ issued' = [x \in Blocks |->
          IF x \in S THEN [by |-> requests[r].backend, session |-> requests[r].session]
          ELSE issued[x]]

\* A chunk of an SSE response: the client has the block before the registry.
Stream(r) ==
    /\ requests[r].phase \in {"sent", "streaming"}
    /\ \E x \in Unissued :
         /\ Sign(r, {x})
         /\ known' = [known EXCEPT ![requests[r].agent] = @ \cup {x}]
         /\ requests' = [requests EXCEPT ![r].phase = "streaming",
                           ![r].body = {}, ![r].fresh = @ \cup {x}]
    /\ UNCHANGED <<backendVars, agentVars, registryVars, notify>>

\* Mutant of RegisterFor: under the session of the moment.
RegisterForPresent(r, S) ==
    IF requests[r].session = 0 THEN UNCHANGED registryVars
    ELSE RegisterBlocks(S, current_session)

\* register_from_sse and register_from_response, under the captured session.
RegisterFor(r, S) ==
    IF requests[r].session = 0 THEN UNCHANGED registryVars
    ELSE RegisterBlocks(S, requests[r].session)

\* ObservedStream::finish: at the end of the stream, on an upstream error, on
\* the idle timeout or when the client drops the body.
EndStream(r) ==
    /\ requests[r].phase = "streaming"
    /\ RegisterFor(r, requests[r].fresh)
    /\ Drop(r)
    /\ UNCHANGED <<backendVars, agentVars, notify, known, issued>>

\* handle_response on a body that is not a stream: register, then answer.
Answer(r) ==
    /\ requests[r].phase = "sent"
    /\ \E S \in SUBSET Unissued :
         /\ Sign(r, S)
         /\ RegisterFor(r, S)
         /\ requests' = [requests EXCEPT ![r].phase = "answered",
                           ![r].body = {}, ![r].fresh = S]
    /\ UNCHANGED <<backendVars, agentVars, notify, known>>

Deliver(r) ==
    /\ requests[r].phase = "answered"
    /\ known' = [known EXCEPT ![requests[r].agent] = @ \cup requests[r].fresh]
    /\ Drop(r)
    /\ UNCHANGED <<backendVars, agentVars, registryVars, notify, issued>>

\* An error of any stage, or a client that disconnects before the response.
Abandon(r) ==
    /\ requests[r].phase \notin {"idle", "streaming"}
    /\ Drop(r)
    /\ UNCHANGED <<backendVars, agentVars, registryVars, notify, known, issued>>

RequestStep(r) ==
    \/ \E a \in Agents : Arrive(r, a)
    \/ ChooseBackend(r) \/ LookUpConfig(r) \/ Begin(r) \/ Transform(r)
    \/ RetryWithoutThinking(r)
    \/ Stream(r) \/ EndStream(r)
    \/ Answer(r) \/ Deliver(r)
    \/ Abandon(r)

-----------------------------------------------------------------------------
(* Everybody else. *)

\* IpcCommand::SwitchBackend: the server switches the backend table and, when
\* that worked, goes on to notify the thinking registry.
IpcSwitch(b) ==
    /\ notify = NoName
    /\ SwitchBackend(b)
    /\ notify' = IF HasBackend(config, b) THEN b ELSE NoName
    /\ UNCHANGED <<agentVars, registryVars, requests, known, issued>>

IpcNotify ==
    /\ notify # NoName
    /\ OnBackendSwitch(notify)
    /\ notify' = NoName
    /\ UNCHANGED <<backendVars, agentVars, requests, known, issued>>

\* The web UI changes the backend table and leaves the registry to the next
\* request.
WebuiStep ==
    /\ \/ \E b \in Backends : SwitchBackend(b)
       \/ \E profile \in Profiles : PutConfig(profile)
    /\ UNCHANGED <<agentVars, registryVars, requests, notify, known, issued>>

AgentStep ==
    /\ ChooseAgentBackend \/ AgentHook
    /\ UNCHANGED <<backendVars, registryVars, requests, notify, known, issued>>

TimePasses ==
    /\ \E x \in DOMAIN blocks : GraceExpires(x)
    /\ UNCHANGED <<backendVars, agentVars, requests, notify, known, issued>>

PipelineNext ==
    /\ \/ \E r \in Requests : RequestStep(r)
       \/ \E b \in Backends : IpcSwitch(b)
       \/ IpcNotify \/ WebuiStep \/ AgentStep \/ TimePasses
    /\ LogBounded
    /\ current_session' <= MaxSession

PipelineSpec == PipelineInit /\ [][PipelineNext]_pipelineVars

-----------------------------------------------------------------------------
(* What must hold. *)

PipelineTypeOK ==
    /\ BackendTypeOK /\ AgentTypeOK /\ RegistryTypeOK
    /\ requests \in [Requests -> RequestType]
    /\ notify \in Option(Backends)
    /\ known \in [Agents -> SUBSET Blocks]
    /\ issued \in [Blocks -> Issue]

HasSession(r) == requests[r].session # 0

\* The phases past create_thinking.
Late == {"begun", "sent", "streaming", "answered"}

\* README.md:224: a backend never receives a thinking block another backend
\* signed, however requests, switches of every kind and late registrations
\* interleave.  (Requests of teammates with an override are not filtered.)
NoForeignThinking ==
    \A r \in Requests : requests[r].phase = "sent" /\ HasSession(r) =>
        \A x \in requests[r].body : issued[x].by = requests[r].backend

\* src/proxy/thinking/mod.rs:84: a response is registered under the session its
\* request captured, however late it ends and whatever switched meanwhile.
RegisteredUnderOwnSession ==
    \A x \in DOMAIN blocks : blocks[x].session = issued[x].session

\* A session belongs to one backend: two requests, or a request and a block,
\* of the same session have the same backend, and the registry's own backend is
\* that of its session.
SessionDeterminesBackend ==
    /\ \A r, q \in Requests : HasSession(r) /\ requests[r].session = requests[q].session =>
            requests[r].backend = requests[q].backend
    /\ \A r \in Requests : HasSession(r) => \A x \in Blocks :
            issued[x].session = requests[r].session => issued[x].by = requests[r].backend
    /\ \A r \in Requests : HasSession(r) /\ requests[r].session = current_session =>
            requests[r].backend = current_backend

\* A request in flight with its agent's marker runs on the backend its agent was
\* born with for as long as the agent is registered, whatever its model name
\* asks for and however long ago it was routed.
AffinityInFlight ==
    \A r \in Requests :
        /\ requests[r].phase \in {"routed", "resolved"} \cup Late
        /\ requests[r].marker /\ requests[r].agent \in DOMAIN registry
        => requests[r].backend = registry[requests[r].agent]

\* The step that filters r.
Filters(r) == requests[r].phase = "begun" /\ requests'[r].phase = "sent" /\ HasSession(r)

\* src/proxy/pipeline/transform.rs:109: a filtered history goes out whole or not
\* at all, and one that goes out without blocks does not ask for thinking.
WholeHistoryOrNone ==
    [][\A r \in Requests : Filters(r) =>
         /\ requests'[r].body \in {requests[r].body, {}}
         /\ requests[r].history /\ requests'[r].thinking => requests'[r].body # {}
      ]_pipelineVars

OfCurrentSession(S) == \A x \in S : issued[x].session = current_session

\* An agent that waits for its answers and repeats its whole history keeps it:
\* a request whose blocks all come from the session it runs in loses none of
\* them, nor its thinking, to the cleanup rules.
ValidHistoryKept ==
    [][\A r \in Requests :
         Filters(r) /\ requests[r].body # {} /\ OfCurrentSession(requests[r].body) =>
            /\ requests'[r].body = requests[r].body
            /\ requests'[r].thinking = requests[r].thinking
      ]_pipelineVars

\* docs/design/thinking-pipeline-isolation.md:60: a teammate's backend never
\* changes, so its requests, which are not filtered, hold no block of another.
\* The code does not keep this, and no run checks it.
TeammatesSeeOwnThinking ==
    \A r \in Requests : requests[r].phase = "sent" /\ requests[r].override # NoName =>
        \A x \in requests[r].body : issued[x].by = requests[r].backend

-----------------------------------------------------------------------------
(* The pipeline implements ThinkingPromise: a backend has a request from    *)
(* the moment it is sent until its answer ends.  A request without a        *)
(* ThinkingSession is promised nothing, so its blocks are not looked at.    *)

AtBackend(r) ==
    IF requests[r].phase \in {"sent", "streaming"}
    THEN [to     |-> requests[r].backend,
          blocks |-> IF HasSession(r) THEN requests[r].body ELSE {}]
    ELSE [to |-> NoName, blocks |-> {}]

Exchanges == [r \in Requests |-> AtBackend(r)]

Signers == [x \in Blocks |-> issued[x].by]

Promise == INSTANCE ThinkingPromise WITH signer <- Signers, exchange <- Exchanges

\* README.md:224, as a specification: what passes between requests, registry
\* and backends is sending own blocks, sending fewer again, signing and ending.
KeepsThinkingPromise == Promise!PromiseSpec

-----------------------------------------------------------------------------
(* Why NoForeignThinking holds.  A block is signed once, under the session  *)
(* of the request that obtained it, and a session never has two backends.   *)
(* The filter compares with the session of the moment, which may be later   *)
(* than the request's own, so what makes it safe is causality: a request    *)
(* that has begun holds no block signed under a session later than its own. *)

Signed(S) == \A x \in S : issued[x].by # NoName

RequestsInv ==
    \A r \in Requests :
        /\ requests[r].phase \notin {"idle", "received"} => requests[r].backend \in Backends
        /\ HasSession(r) => /\ requests[r].phase \in Late
                            /\ requests[r].session <= current_session
        /\ requests[r].body # {} => requests[r].history
        /\ Signed(requests[r].body)
        /\ requests[r].fresh # {} => requests[r].phase \in {"streaming", "answered"}
        /\ \A x \in requests[r].fresh :
               issued[x].by # NoName /\ issued[x].session = requests[r].session

IssuedInv ==
    \A x \in Blocks : issued[x].session # 0 =>
        /\ issued[x].by # NoName
        /\ issued[x].session <= current_session
        /\ issued[x].session = current_session => issued[x].by = current_backend

RegisteredInv ==
    RegisteredUnderOwnSession /\ \A x \in DOMAIN blocks : blocks[x].session # 0

Causality ==
    \A r \in Requests : requests[r].phase = "begun" /\ HasSession(r) =>
        \A x \in requests[r].body : issued[x].session <= requests[r].session

\* The inductive invariant behind NoForeignThinking.
ThinkingInv ==
    /\ RequestsInv
    /\ IssuedInv
    /\ \A a \in Agents : Signed(known[a])
    /\ RegisteredInv
    /\ SessionDeterminesBackend
    /\ Causality
    /\ NoForeignThinking
=============================================================================
