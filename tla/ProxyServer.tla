------------------------------ MODULE ProxyServer ------------------------------
(***************************************************************************)
(* What becomes of a request in src/proxy: the connection that brings it   *)
(* (connection.rs), the stages of the pipeline as far as they end it       *)
(* (pipeline/mod.rs, forward.rs, response.rs), the stream that carries the *)
(* answer (metrics/stream.rs), the record it leaves in the hub, and the    *)
(* shutdown of the server under all of them (shutdown.rs, server.rs and    *)
(* the end of ui/runtime.rs).  Which backend is chosen and what the body   *)
(* becomes is RequestPipeline's matter: here Target says it.               *)
(***************************************************************************)
EXTENDS Observability

CONSTANTS
    Active,         \* the active backend, to which a span is born
    Target,         \* the backend routing finds for a request
    UpstreamStatus, \* what an upstream may answer
    MaxRetries      \* of connection errors and timeouts

ASSUME RequestsAssumption == IsFiniteSet(Requests)
ASSUME ActiveAssumption == Active \in Backends
ASSUME TargetAssumption == Target \in [Requests -> Backends]
ASSUME StatusAssumption == UpstreamStatus \subseteq 100 .. 999
ASSUME RetriesAssumption == MaxRetries \in Nat

VARIABLES
    requests,           \* where a request stands, and its span
    connections,        \* the connection of every request
    active_connections, \* the counter of ShutdownManager
    shutdown,           \* its flag
    waiter,             \* wait_for_shutdown, a task of the server
    server,             \* ProxyServer::run
    quit                \* the end of ui::run

serverVars == <<shutdown, waiter, server, quit>>
vars == <<hubVars, requests, connections, active_connections, serverVars>>

NoStatus == 0

\* A request before it is called.
Fresh == [phase |-> "none", backend |-> Active, attempt |-> 0,
          status |-> NoStatus, timed_out |-> FALSE, finalized |-> FALSE,
          after |-> "none", answer |-> NoStatus]

\* What the hub keeps of a span.
RecordOf(r) == [id |-> r, backend |-> requests[r].backend,
                status |-> requests[r].status, timed_out |-> requests[r].timed_out]

\* The handler waits: if its connection or the runtime goes, it is dropped here.
Awaiting == {"calling", "received", "sending", "backing_off", "bad_request", "resending", "reading"}

\* finish_request runs to its end on its thread.
Finishing == {"counting", "pushing"}

InFlight == Awaiting \cup Finishing \cup {"routed", "responding", "failing", "streaming"}

Counted(r) ==
    \/ requests[r].phase \in {"pushing", "answered"}
    \/ requests[r].phase = "failing" /\ requests[r].finalized

ProxyInit ==
    /\ HubInit
    /\ requests = [r \in Requests |-> Fresh]
    /\ connections = [r \in Requests |-> "none"]
    /\ active_connections = 0
    /\ shutdown = FALSE
    /\ waiter = "starting"
    /\ server = "serving"
    /\ quit = "running"

-----------------------------------------------------------------------------
(* Steps of one request. *)

Step(r, from, to) ==
    /\ requests[r].phase = from
    /\ requests' = [requests EXCEPT ![r] = to]

At(r, phase) == [requests[r] EXCEPT !.phase = phase]

\* finish_request is called; the request goes on with the phase named by next.
Finish(r, status, timed_out, next) ==
    [requests[r] EXCEPT !.phase = "counting", !.status = status,
                        !.timed_out = timed_out, !.finalized = TRUE, !.after = next]

\* finish_error of a late stage, and the error it returns.
FailLate(r, status, timed_out) ==
    [Finish(r, status, timed_out, "failing") EXCEPT !.answer = status]

\* An error of stages 1 to 5, or one that did not finish the span.
FailEarly(r, status) == [At(r, "failing") EXCEPT !.answer = status]

\* extract_request: the body arrives, or reading it fails.
Receive(r) ==
    \/ Step(r, "received", At(r, "routed"))
    \/ Step(r, "received", FailEarly(r, 400))

\* resolve_backend to forward_with_retry's check: the backend is not found
\* (502) or the subagent is not registered (500) and the span keeps the active
\* one; it is found but has no key; or the first attempt is made.
Resolve(r) ==
    \/ \E status \in {500, 502} : Step(r, "routed", FailEarly(r, status))
    \/ Step(r, "routed", [FailLate(r, 502, FALSE) EXCEPT !.backend = Target[r]])
    \/ Step(r, "routed", [At(r, "sending") EXCEPT !.backend = Target[r]])

\* Mutant of Forward: an error of the last attempt leaves span_finalized unset.
ForwardUnfinalized(r) ==
    \/ \E status \in UpstreamStatus :
           Step(r, "sending", [At(r, IF status = 400 THEN "bad_request" ELSE "responding")
                                 EXCEPT !.status = status])
    \/ /\ requests[r].attempt < MaxRetries
       /\ Step(r, "sending", At(r, "backing_off"))
    \/ /\ requests[r].attempt = MaxRetries
       /\ Step(r, "sending", [FailLate(r, 504, TRUE) EXCEPT !.finalized = FALSE])
    \/ /\ Step(r, "sending", [FailLate(r, 502, FALSE) EXCEPT !.finalized = FALSE])

\* The body of forward_with_retry's loop: headers come; a connection error or
\* a timeout (of the connection alone, if a stream was asked for) is retried
\* after a pause; the last one or any other error ends the request.
Forward(r) ==
    \/ \E status \in UpstreamStatus :
           Step(r, "sending", [At(r, IF status = 400 THEN "bad_request" ELSE "responding")
                                 EXCEPT !.status = status])
    \/ /\ requests[r].attempt < MaxRetries
       /\ Step(r, "sending", At(r, "backing_off"))
    \/ /\ requests[r].attempt = MaxRetries
       /\ Step(r, "sending", FailLate(r, 504, TRUE))
    \/ Step(r, "sending", FailLate(r, 502, FALSE))

Retry(r) ==
    Step(r, "backing_off", [At(r, "sending") EXCEPT !.attempt = @ + 1])

\* backend_400_auto_retry: the body of a 400 is read; one that a rewritten
\* request may help is sent again, once, and any failure of that puts the 400
\* back.
RetryBadRequest(r) ==
    \/ Step(r, "bad_request", At(r, "responding"))
    \/ Step(r, "bad_request", At(r, "resending"))
    \/ \E status \in UpstreamStatus :
           Step(r, "resending", [At(r, "responding") EXCEPT !.status = status])
    \/ Step(r, "resending", At(r, "responding"))

\* handle_response: the status is the client's; an event stream is wrapped and
\* handed over, any other body is read first.  (A 400 is an error in JSON.)
Respond(r) ==
    \/ /\ requests[r].status # 400
       /\ Step(r, "responding", [At(r, "streaming") EXCEPT !.answer = requests[r].status])
    \/ Step(r, "responding", At(r, "reading"))

\* The rest of handle_response: the body is whole, or reading it fails, be it
\* that the request's timeout ran out.
ReadBody(r) ==
    \/ Step(r, "reading", [Finish(r, requests[r].status, FALSE, "answered")
                             EXCEPT !.answer = requests[r].status])
    \/ Step(r, "reading", FailLate(r, 500, FALSE))

\* ObservedStream: the upstream ends or breaks, or is silent for too long.
EndOfStream(r) ==
    \E timed_out \in BOOLEAN :
        Step(r, "streaming", Finish(r, requests[r].status, timed_out, "answered"))

\* execute_pipeline: an error that no late stage finished is finished here.
CloseError(r) ==
    /\ requests[r].phase = "failing"
    /\ requests' = [requests EXCEPT ![r] =
           IF @.finalized THEN At(r, "answered")
           ELSE Finish(r, requests[r].answer, FALSE, "answered")]

Handle(r) ==
    /\ \/ Receive(r) \/ Resolve(r) \/ Forward(r) \/ Retry(r) \/ RetryBadRequest(r)
       \/ Respond(r) \/ ReadBody(r) \/ EndOfStream(r) \/ CloseError(r)
    /\ UNCHANGED <<hubVars, connections, active_connections, serverVars>>

\* Mutant of KeepRecord: the ring is filled before the aggregates.
PushFirst(r) ==
    /\ \/ /\ Step(r, "counting", At(r, "pushing"))
          /\ Push(RecordOf(r))
       \/ /\ Step(r, "pushing", At(r, requests[r].after))
          /\ UpdateAggregates(RecordOf(r))
    /\ UNCHANGED <<connections, active_connections, serverVars>>

\* finish_request: the aggregates first, then the ring.
KeepRecord(r) ==
    /\ \/ /\ Step(r, "counting", At(r, "pushing"))
          /\ UpdateAggregates(RecordOf(r))
       \/ /\ Step(r, "pushing", At(r, requests[r].after))
          /\ Push(RecordOf(r))
    /\ UNCHANGED <<connections, active_connections, serverVars>>

-----------------------------------------------------------------------------
(* Connections.  hyper keeps one service per connection and clones it for a *)
(* request until its handler is called.                                     *)

\* The accept loop: ConnectionCounter::call counts the connection.
Accept(r) ==
    /\ connections[r] = "none" /\ server = "serving"
    /\ connections' = [connections EXCEPT ![r] = "open"]
    /\ active_connections' = active_connections + 1
    /\ UNCHANGED <<hubVars, requests, serverVars>>

\* Mutant of CallService: a clone of the guard is not counted.
CallServiceUncounted(r) ==
    /\ connections[r] = "open"
    /\ Step(r, "none", At(r, "calling"))
    /\ UNCHANGED <<hubVars, connections, active_connections, serverVars>>

\* A request on the connection: ConnectionGuard::clone counts once more,
CallService(r) ==
    /\ connections[r] = "open"
    /\ Step(r, "none", At(r, "calling"))
    /\ active_connections' = active_connections + 1
    /\ UNCHANGED <<hubVars, connections, serverVars>>

\* and dropping the clone, once the handler is called, takes that back.
\* start_request gives the span the active backend.
StartRequest(r) ==
    /\ Step(r, "calling", At(r, "received"))
    /\ active_connections' = active_connections - 1
    /\ UNCHANGED <<hubVars, connections, serverVars>>

\* The guards a connection and its request hold.
Guards(r) == OneIf(connections[r] = "open") + OneIf(requests[r].phase = "calling")

\* Mutant of Dropped: a dropped stream is not finished.
DroppedUnfinished(r) ==
    IF requests[r].phase \in Awaiting \cup {"streaming"} THEN At(r, "gone") ELSE requests[r]

\* What is left of a request whose task is dropped: a handler that waits is
\* gone with its span; a stream finishes its span in its own drop.
Dropped(r) ==
    CASE requests[r].phase \in Awaiting -> At(r, "gone")
      [] requests[r].phase = "streaming" ->
           Finish(r, requests[r].status, FALSE, "answered")
      [] OTHER -> requests[r]

\* The task of a connection ends, and with it the request,
EndTask(r, phases) ==
    /\ connections[r] = "open"
    /\ requests[r].phase \in phases
    /\ connections' = [connections EXCEPT ![r] = "closed"]
    /\ active_connections' = active_connections - Guards(r)
    /\ requests' = [requests EXCEPT ![r] = Dropped(r)]
    /\ UNCHANGED <<hubVars, serverVars>>

\* between two polls,
DropConnection(r) == EndTask(r, Awaiting \cup {"streaming", "none", "answered"})

\* or in a panic of handle_response: it cuts the body of an error answer for
\* the log at its thousandth byte, which may be inside a character.
PanicInLog(r) ==
    /\ requests[r].status \notin 200 .. 299
    /\ EndTask(r, {"reading"})

\* The client may go at any time; a server that drains closes what is idle.
ClientLeaves(r) == DropConnection(r)

CloseIdle(r) ==
    /\ server = "draining"
    /\ requests[r].phase \in {"none", "answered"}
    /\ DropConnection(r)

-----------------------------------------------------------------------------
(* Shutdown. *)

\* wait_for_shutdown: the flag first; then it subscribes to the signals and to
\* the Notify, and what is notified in between is lost.  A signal of the
\* system wakes it, too.
WaitForShutdown ==
    /\ \/ /\ waiter = "starting"
          /\ waiter' = IF shutdown THEN "done" ELSE "subscribing"
          /\ UNCHANGED shutdown
       \/ /\ waiter = "subscribing"
          /\ waiter' = "waiting"
          /\ UNCHANGED shutdown
       \/ /\ waiter = "waiting"
          /\ waiter' = "done"
          /\ shutdown' = TRUE
    /\ server # "killed"
    /\ UNCHANGED <<hubVars, requests, connections, active_connections, server, quit>>

\* Mutant of Drain: the requests on their way are not waited for.
DrainAtOnce ==
    /\ \/ /\ server = "serving" /\ waiter = "done"
          /\ server' = "draining"
       \/ /\ server = "draining"
          /\ server' = "waiting"
       \/ /\ server = "waiting"
          /\ server' = "stopped"
    /\ UNCHANGED <<hubVars, requests, connections, active_connections, shutdown, waiter, quit>>

\* ProxyServer::run: axum stops accepting and waits for every connection, then
\* wait_for_connections waits for the counter or for its ten seconds.
Drain ==
    /\ \/ /\ server = "serving" /\ waiter = "done"
          /\ server' = "draining"
       \/ /\ server = "draining"
          /\ \A r \in Requests : connections[r] # "open"
          /\ server' = "waiting"
       \/ /\ server = "waiting"
          /\ server' = "stopped"
    /\ UNCHANGED <<hubVars, requests, connections, active_connections, shutdown, waiter, quit>>

\* The end of ui::run: ProxyHandle::shutdown stores the flag
Quit ==
    /\ quit = "running"
    /\ quit' = "notifying"
    /\ shutdown' = TRUE
    /\ UNCHANGED <<hubVars, requests, connections, active_connections, waiter, server>>

\* and wakes the waiter if it waits; the PTY session is dropped,
NotifyWaiters ==
    /\ quit = "notifying"
    /\ quit' = "killing"
    /\ waiter' = IF waiter = "waiting" THEN "done" ELSE waiter
    /\ UNCHANGED <<hubVars, requests, connections, active_connections, shutdown, server>>

\* Mutant of KillServer: the runtime is let run until the server has stopped.
AwaitServer == FALSE

\* and shutdown_timeout drops every task of the runtime where it waits: the
\* server's,
KillServer ==
    /\ quit = "killing" /\ server \notin {"stopped", "killed"}
    /\ server' = "killed"
    /\ UNCHANGED <<hubVars, requests, connections, active_connections, shutdown, waiter, quit>>

\* and those of the connections.
KillConnection(r) == quit = "killing" /\ DropConnection(r)

Complete ==
    /\ quit = "killing"
    /\ server \in {"stopped", "killed"}
    /\ \A r \in Requests : connections[r] # "open" /\ requests[r].phase \notin InFlight
    /\ quit' = "complete"
    /\ UNCHANGED <<hubVars, requests, connections, active_connections, shutdown, waiter, server>>

TakeSnapshot ==
    /\ Snapshot
    /\ UNCHANGED <<requests, connections, active_connections, serverVars>>

ProxyNext ==
    /\ quit # "complete"
    /\ \/ \E r \in Requests :
             \/ Accept(r) \/ CallService(r) \/ StartRequest(r) \/ Handle(r) \/ KeepRecord(r)
             \/ PanicInLog(r) \/ ClientLeaves(r) \/ CloseIdle(r) \/ KillConnection(r)
       \/ WaitForShutdown \/ Drain \/ Quit \/ NotifyWaiters \/ KillServer \/ Complete
       \/ TakeSnapshot

ProxySpec == ProxyInit /\ [][ProxyNext]_vars

\* A handler that runs goes on.
Runs(r) == requests[r].phase \notin Awaiting \cup {"streaming"} /\ (Handle(r) \/ KeepRecord(r))

\* The end of ui::run, which drops what waits.
Ends == NotifyWaiters \/ KillServer \/ (\E r \in Requests : KillConnection(r)) \/ Complete

\* Nothing is assumed of clients, of upstreams or of the user.
ProxyFairness == (\A r \in Requests : WF_vars(Runs(r))) /\ WF_vars(Ends)

ProxyFairSpec == ProxySpec /\ ProxyFairness

-----------------------------------------------------------------------------
ProxyTypeOK ==
    /\ aggregates \in [Backends -> [DOMAIN Nothing -> Nat]]
    /\ ring \in Seq(Record) /\ Len(ring) <= Capacity
    /\ snapshot.taking \in BOOLEAN /\ snapshot.recent \in Seq(Record)
    /\ \A r \in Requests :
          /\ RecordOf(r) \in Record
          /\ requests[r].phase \in InFlight \cup {"none", "answered", "gone"}
          /\ requests[r].attempt \in 0 .. MaxRetries
          /\ requests[r].phase \in Finishing => requests[r].status # NoStatus
    /\ connections \in [Requests -> {"none", "open", "closed"}]
    /\ active_connections \in Nat
    /\ shutdown \in BOOLEAN
    /\ waiter \in {"starting", "subscribing", "waiting", "done"}
    /\ server \in {"serving", "draining", "waiting", "stopped", "killed"}
    /\ quit \in {"running", "notifying", "killing", "complete"}

\* The counted requests on backend b that satisfy P's status.
CountedOn(b, statuses) ==
    {r \in Requests : Counted(r) /\ requests[r].backend = b /\ requests[r].status \in statuses}

\* The aggregates say what was answered: each request whose span was finished
\* counts once, with its backend and its status, whichever of the stages, the
\* stream or execute_pipeline finished it, and one dropped on its way does not.
AggregatesCountAnswers ==
    \A b \in Backends :
        /\ aggregates[b].total = Cardinality(CountedOn(b, Nat))
        /\ aggregates[b].success_2xx = Cardinality(CountedOn(b, 200 .. 299))
        /\ aggregates[b].client_error_4xx = Cardinality(CountedOn(b, 400 .. 499))
        /\ aggregates[b].server_error_5xx = Cardinality(CountedOn(b, 500 .. 599))
        /\ aggregates[b].timeouts =
              Cardinality(CountedOn(b, {504}) \cup {r \in CountedOn(b, Nat) : requests[r].timed_out})

\* A client that was given an answer, if only its head, is counted once its
\* request is over: no end of a stream, not even the end of the program, leaves
\* a span behind.
AnsweredIsCounted ==
    \A r \in Requests :
        requests[r].answer # NoStatus /\ requests[r].phase \notin InFlight => Counted(r)

\* The counter of ShutdownManager is the number of guards, through clones and
\* drops at whatever point.
ConnectionsCounted ==
    active_connections = Cardinality({r \in Requests : connections[r] = "open"})
                         + Cardinality({r \in Requests : requests[r].phase = "calling"})

\* When axum has drained, no connection is counted any more: the forced end of
\* wait_for_connections is never taken.
DrainedMeansNobodyLeft == server \in {"waiting", "stopped"} => active_connections = 0

\* A quit ends the program, although the server may have missed the
\* notification and upstreams may be silent.
QuitCompletes == []<>(quit \in {"running", "complete"})
=============================================================================
