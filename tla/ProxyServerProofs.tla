--------------------------- MODULE ProxyServerProofs ---------------------------
(***************************************************************************)
(* ProxyServer for any number of requests, any upstreams, and clients that *)
(* leave at any time: every invariant its run checks.  All rest on         *)
(* RequestInv, what a request in each phase has been through: in           *)
(* particular that span_finalized is set only while its record is being    *)
(* kept or has been.  From there each argument needs one thing of a step:  *)
(* the counter of connections, whether a request begins or stops being     *)
(* called (Quiet); the aggregates, whether one begins to count (Kept); the *)
(* ring, that a record is of a request counted before and not yet pushed.  *)
(***************************************************************************)
EXTENDS ProxyServer, FiniteSetTheorems, SequenceTheorems, TLAPS

Phases == InFlight \cup {"none", "answered", "gone"}

\* Nothing has been answered yet, and the span is open.
Unanswered == Awaiting \cup {"none", "routed", "responding", "gone"}

RequestType ==
    [ phase : Phases, backend : Backends, attempt : 0 .. MaxRetries, status : Nat,
      timed_out : BOOLEAN, finalized : BOOLEAN,
      after : {"none", "failing", "answered"}, answer : Nat ]

\* What is known of a request in each of its phases.
RequestInv(q) ==
    /\ q \in RequestType
    /\ q.phase \in Unanswered => q.answer = NoStatus
    /\ q.phase \in Unanswered \cup {"streaming"} => ~q.finalized
    /\ q.phase \in Finishing => q.finalized /\ q.after # "none"
    /\ q.phase = "failing" \/ (q.phase \in Finishing /\ q.after = "failing") => q.answer # NoStatus
    /\ q.phase = "backing_off" => q.attempt < MaxRetries
    /\ q.phase \in Finishing \cup {"responding", "bad_request", "resending", "reading", "streaming"}
          => q.status # NoStatus

RequestsInv ==
    /\ requests \in [Requests -> RequestType]
    /\ \A r \in Requests : RequestInv(requests[r])

IsCounted(q) ==
    \/ q.phase \in {"pushing", "answered"}
    \/ q.phase = "failing" /\ q.finalized

\* A state a request may take on its way to being counted.
Uncounted(q) == RequestInv(q) /\ q.phase # "calling" /\ ~IsCounted(q)

\* A request counts afterwards if and only if it did, for the same; it waits for
\* the ring only if it did.
Kept(q, to) ==
    /\ RequestInv(to)
    /\ IsCounted(q) <=> IsCounted(to)
    /\ to.phase = "pushing" => q.phase = "pushing"
    /\ IsCounted(q) => /\ to.backend = q.backend /\ to.status = q.status
                       /\ to.timed_out = q.timed_out

\* And neither begins to be called nor stops being called.
Quiet(q, to) == Kept(q, to) /\ q.phase # "calling" /\ to.phase # "calling"

QuietStep(r) ==
    \E to \in RequestType : Quiet(requests[r], to) /\ requests' = [requests EXCEPT ![r] = to]


\* finish_request is called with a status; its caller may yet set the answer or
\* have set the backend.
LEMMA FinishIsUncounted ==
    ASSUME RequestsInv, NEW r \in Requests, NEW status \in Nat \ {NoStatus}, NEW timed_out \in BOOLEAN
    PROVE  /\ Uncounted(Finish(r, status, timed_out, "answered"))
           /\ Uncounted([Finish(r, status, timed_out, "answered") EXCEPT !.answer = status])
<1>1. requests[r] \in RequestType /\ RequestInv(requests[r])
  BY DEF RequestsInv
<1>2. Uncounted(Finish(r, status, timed_out, "answered"))
  BY <1>1 DEF Finish, RequestInv, RequestType, IsCounted, Uncounted, Phases,
              InFlight, Awaiting, Finishing, Unanswered
<1>3. Uncounted([Finish(r, status, timed_out, "answered") EXCEPT !.answer = status])
  BY <1>1 DEF Finish, RequestInv, RequestType, IsCounted, Uncounted, Phases,
              InFlight, Awaiting, Finishing, Unanswered
<1> QED
  BY <1>2, <1>3

\* An error of a late stage is finished and returned; that of a missing key
\* has set the backend.
LEMMA FailLateIsUncounted ==
    ASSUME RequestsInv, NEW r \in Requests, NEW status \in Nat \ {NoStatus}, NEW timed_out \in BOOLEAN,
           NEW b \in Backends
    PROVE  /\ Uncounted(FailLate(r, status, timed_out))
           /\ Uncounted([FailLate(r, status, timed_out) EXCEPT !.backend = b])
<1>1. requests[r] \in RequestType
  BY DEF RequestsInv
<1>2. Uncounted(FailLate(r, status, timed_out))
  BY <1>1 DEF Finish, FailLate, RequestInv, RequestType, IsCounted, Uncounted, Phases,
              InFlight, Awaiting, Finishing, Unanswered
<1>3. Uncounted([FailLate(r, status, timed_out) EXCEPT !.backend = b])
  BY <1>1 DEF Finish, FailLate, RequestInv, RequestType, IsCounted, Uncounted, Phases,
              InFlight, Awaiting, Finishing, Unanswered
<1> QED
  BY <1>2, <1>3

\* An error of an early stage is returned and not finished.
LEMMA FailEarlyIsUncounted ==
    ASSUME RequestsInv, NEW r \in Requests, NEW status \in Nat \ {NoStatus}, ~requests[r].finalized
    PROVE  Uncounted(FailEarly(r, status))
<1>1. requests[r] \in RequestType
  BY DEF RequestsInv
<1> QED
  BY <1>1 DEF At, FailEarly, RequestInv, RequestType, IsCounted, Uncounted, Phases,
              InFlight, Awaiting, Finishing, Unanswered

\* A step of a request to a state that is quiet after the present one.
LEMMA StepIsQuiet ==
    ASSUME NEW r \in Requests, Uncounted(requests[r]), NEW from, NEW to, Step(r, from, to),
           Uncounted(to)
    PROVE  QuietStep(r)
BY DEF Step, QuietStep, Quiet, Kept, IsCounted, Uncounted, RequestInv

\* Every step of the pipeline keeps RequestInv, and none of them counts.
LEMMA HandleIsQuiet ==
    ASSUME RequestsInv, NEW r \in Requests, Handle(r)
    PROVE  QuietStep(r)
<1> DEFINE q == requests[r]
<1>1. q \in RequestType /\ RequestInv(q)
  BY DEF RequestsInv
<1>2. 400 \in Nat \ {NoStatus} /\ 500 \in Nat \ {NoStatus} /\ 502 \in Nat \ {NoStatus}
      /\ 504 \in Nat \ {NoStatus} /\ TRUE \in BOOLEAN /\ FALSE \in BOOLEAN
  BY DEF NoStatus
<1>l. ASSUME NEW status \in Nat \ {NoStatus}, NEW timed_out \in BOOLEAN
      PROVE  Uncounted(FailLate(r, status, timed_out))
  BY ActiveAssumption, FailLateIsUncounted, Zenon
<1>f. Uncounted(FailLate(r, 500, FALSE)) /\ Uncounted(FailLate(r, 502, FALSE)) /\ Uncounted(FailLate(r, 504, TRUE))
  <2> DEFINE broken  == 500
             gateway == 502
             late    == 504
  <2>1. {broken, gateway, late} \subseteq Nat \ {NoStatus} /\ {TRUE, FALSE} \subseteq BOOLEAN
    BY <1>2
  <2> HIDE DEF broken, gateway, late
  <2>2. /\ Uncounted(FailLate(r, broken, FALSE)) /\ Uncounted(FailLate(r, gateway, FALSE))
        /\ Uncounted(FailLate(r, late, TRUE))
    BY <1>l, <2>1, Zenon
  <2> QED
    BY <2>2 DEF broken, gateway, late
<1>e. ASSUME NEW status \in Nat \ {NoStatus}, ~q.finalized
      PROVE  Uncounted(FailEarly(r, status))
  BY <1>e, FailEarlyIsUncounted, Zenon
<1>3. ASSUME Receive(r) PROVE QuietStep(r)
  <2>1. q.phase = "received" /\ ~q.finalized
    BY <1>1, <1>3 DEF Receive, Step, RequestInv, Unanswered, Awaiting
  <2>u. Uncounted(q)
    BY <1>1, <2>1 DEF Uncounted, IsCounted
  <2>2. Uncounted(At(r, "routed"))
    BY <1>1, <2>1 DEF At, RequestInv, RequestType, IsCounted, Uncounted, Phases, InFlight, Awaiting, Finishing,
                      Unanswered
  <2>3. Uncounted(FailEarly(r, 400))
    BY <1>2, <1>e, <2>1
  <2> QED
    BY <1>3, <2>2, <2>3, <2>u, StepIsQuiet DEF Receive
<1>4. ASSUME Resolve(r) PROVE QuietStep(r)
  <2>1. q.phase = "routed" /\ ~q.finalized
    BY ZenonT(60), <1>1, <1>4 DEF Resolve, Step, RequestInv, Unanswered
  <2>u. Uncounted(q)
    BY <1>1, <2>1 DEF Uncounted, IsCounted
  <2>2. ASSUME NEW status \in {500, 502} PROVE Uncounted(FailEarly(r, status))
    <3>1. status \in Nat \ {NoStatus}
      BY <1>2, <2>2
    <3> QED
      BY <1>e, <2>1, <3>1, Zenon
  <2>3. Uncounted([FailLate(r, 502, FALSE) EXCEPT !.backend = Target[r]])
    <3>1. Target[r] \in Backends
      BY TargetAssumption
    <3>2. PICK status : status = 502
      OBVIOUS
    <3>3. status \in Nat \ {NoStatus} /\ FALSE \in BOOLEAN
      BY <1>2, <3>2
    <3>4. Uncounted([FailLate(r, status, FALSE) EXCEPT !.backend = Target[r]])
      BY <3>1, <3>3, FailLateIsUncounted, Zenon
    <3> QED
      BY <3>2, <3>4
  <2>4. Uncounted([At(r, "sending") EXCEPT !.backend = Target[r]])
    BY <1>1, <2>1, TargetAssumption DEF At, RequestInv, RequestType, IsCounted, Uncounted, Phases, InFlight,
                                        Awaiting, Finishing, Unanswered
  <2> QED
    BY <1>4, <2>2, <2>3, <2>4, <2>u, StepIsQuiet DEF Resolve
<1>5. ASSUME Forward(r) PROVE QuietStep(r)
  <2>1. q.phase = "sending" /\ ~q.finalized /\ q.answer = NoStatus
    BY <1>1, <1>5 DEF Forward, Step, RequestInv, Unanswered, Awaiting
  <2>u. Uncounted(q)
    BY <1>1, <2>1 DEF Uncounted, IsCounted
  <2>2. ASSUME NEW status \in UpstreamStatus
        PROVE  Uncounted([At(r, IF status = 400 THEN "bad_request" ELSE "responding")
                       EXCEPT !.status = status])
    <3>1. status \in Nat /\ status # NoStatus
      BY StatusAssumption DEF NoStatus
    <3>2. CASE status = 400
      <4>1. Uncounted([At(r, "bad_request") EXCEPT !.status = status])
        BY <1>1, <2>1, <3>1, <3>1 DEF At, RequestInv, RequestType, IsCounted, Uncounted, Phases, InFlight,
                                 Awaiting, Finishing, Unanswered
      <4> QED
        BY <3>2, <4>1
    <3>3. CASE status # 400
      BY <1>1, <2>1, <3>1, <3>3 DEF At, RequestInv, RequestType, IsCounted, Uncounted, Phases, InFlight,
                                    Awaiting, Finishing, Unanswered
    <3> QED
      BY <3>2, <3>3
  <2>3. q.attempt < MaxRetries => Uncounted(At(r, "backing_off"))
    BY <1>1, <2>1 DEF At, RequestInv, RequestType, IsCounted, Uncounted, Phases, InFlight, Awaiting, Finishing,
                      Unanswered
  <2>4. Uncounted(FailLate(r, 504, TRUE))
    BY <1>f
  <2>5. Uncounted(FailLate(r, 502, FALSE))
    BY <1>f
  <2>6. ASSUME NEW to, Step(r, "sending", to), Uncounted(to) PROVE QuietStep(r)
    BY <2>u, <2>6, StepIsQuiet
  <2> QED
    BY <1>5, <2>2, <2>3, <2>4, <2>5, <2>6, ZenonT(60) DEF Forward
<1>6. ASSUME Retry(r) PROVE QuietStep(r)
  <2>1. q.phase = "backing_off" /\ ~q.finalized /\ q.answer = NoStatus /\ q.attempt < MaxRetries
    BY <1>1, <1>6 DEF Retry, Step, RequestInv, Unanswered, Awaiting
  <2>u. Uncounted(q)
    BY <1>1, <2>1 DEF Uncounted, IsCounted
  <2>2. q.attempt + 1 \in 0 .. MaxRetries
    BY <1>1, <2>1, RetriesAssumption DEF RequestType
  <2>3. Uncounted([At(r, "sending") EXCEPT !.attempt = @ + 1])
    BY <1>1, <2>1, <2>2 DEF At, RequestInv, RequestType, IsCounted, Uncounted, Phases, InFlight, Awaiting,
                            Finishing, Unanswered
  <2> QED
    BY <1>6, <2>3, <2>u, StepIsQuiet DEF Retry
<1>7. ASSUME RetryBadRequest(r) PROVE QuietStep(r)
  <2>1. /\ q.phase \in {"bad_request", "resending"} /\ q.status # NoStatus
        /\ ~q.finalized /\ q.answer = NoStatus
    BY <1>1, <1>7 DEF RetryBadRequest, Step, RequestInv, Unanswered, Awaiting
  <2>u. Uncounted(q)
    BY <1>1, <2>1 DEF Uncounted, IsCounted
  <2>2. Uncounted(At(r, "responding")) /\ Uncounted(At(r, "resending"))
    BY <1>1, <2>1 DEF At, RequestInv, RequestType, IsCounted, Uncounted, Phases, InFlight, Awaiting, Finishing,
                      Unanswered
  <2>3. ASSUME NEW status \in UpstreamStatus
        PROVE  Uncounted([At(r, "responding") EXCEPT !.status = status])
    <3>1. status \in Nat /\ status # NoStatus
      BY StatusAssumption DEF NoStatus
    <3> QED
      BY <1>1, <2>1, <3>1 DEF At, RequestInv, RequestType, IsCounted, Uncounted, Phases, InFlight, Awaiting,
                              Finishing, Unanswered
  <2> QED
    BY <1>7, <2>2, <2>3, <2>u, StepIsQuiet DEF RetryBadRequest
<1>8. ASSUME Respond(r) PROVE QuietStep(r)
  <2>1. q.phase = "responding" /\ q.status # NoStatus /\ ~q.finalized /\ q.answer = NoStatus
    BY <1>1, <1>8 DEF Respond, Step, RequestInv, Unanswered
  <2>u. Uncounted(q)
    BY <1>1, <2>1 DEF Uncounted, IsCounted
  <2>2. Uncounted(At(r, "reading")) /\ Uncounted([At(r, "streaming") EXCEPT !.answer = q.status])
    BY <1>1, <2>1 DEF At, RequestInv, RequestType, IsCounted, Uncounted, Phases, InFlight, Awaiting, Finishing,
                      Unanswered
  <2> QED
    BY <1>8, <2>2, <2>u, StepIsQuiet DEF Respond
<1>9. ASSUME ReadBody(r) PROVE QuietStep(r)
  <2>1. q.phase = "reading" /\ q.status \in Nat \ {NoStatus}
    BY <1>1, <1>9 DEF ReadBody, Step, RequestInv, RequestType
  <2>u. Uncounted(q)
    BY <1>1, <2>1 DEF Uncounted, IsCounted
  <2>2. Uncounted([Finish(r, q.status, FALSE, "answered") EXCEPT !.answer = q.status])
    BY <2>1, FinishIsUncounted, Zenon
  <2>3. Uncounted(FailLate(r, 500, FALSE))
    BY <1>f
  <2> QED
    BY <1>9, <2>2, <2>3, <2>u, StepIsQuiet DEF ReadBody
<1>10. ASSUME EndOfStream(r) PROVE QuietStep(r)
  <2>1. q.phase = "streaming" /\ q.status \in Nat \ {NoStatus}
    BY <1>1, <1>10 DEF EndOfStream, Step, RequestInv, RequestType
  <2>u. Uncounted(q)
    BY <1>1, <2>1 DEF Uncounted, IsCounted
  <2>2. ASSUME NEW timed_out \in BOOLEAN PROVE Uncounted(Finish(r, q.status, timed_out, "answered"))
    BY <2>1, FinishIsUncounted, Zenon
  <2> QED
    BY <1>10, <2>2, <2>u, StepIsQuiet DEF EndOfStream
<1>11. ASSUME CloseError(r) PROVE QuietStep(r)
  <2>1. q.phase = "failing" /\ q.answer \in Nat \ {NoStatus}
    BY <1>1, <1>11 DEF CloseError, RequestInv, RequestType
  <2>2. CASE q.finalized
    <3>1. requests' = [requests EXCEPT ![r] = At(r, "answered")]
      BY <1>11, <2>2 DEF CloseError, RequestsInv
    <3>2. Quiet(q, At(r, "answered"))
      BY <1>1, <2>1, <2>2 DEF Quiet, Kept, At, RequestInv, RequestType, IsCounted, Phases, InFlight, Awaiting,
                              Finishing, Unanswered
    <3> QED
      BY <3>1, <3>2 DEF QuietStep, Quiet, Kept, RequestInv
  <2>3. CASE ~q.finalized
    <3>1. requests' = [requests EXCEPT ![r] = Finish(r, q.answer, FALSE, "answered")]
      BY <1>11, <2>3 DEF CloseError, RequestsInv
    <3>2. Uncounted(Finish(r, q.answer, FALSE, "answered"))
      BY <2>1, FinishIsUncounted, Zenon
    <3> QED
      BY <2>1, <2>3, <3>1, <3>2 DEF QuietStep, Quiet, Kept, Uncounted, RequestInv, IsCounted
  <2> QED
    BY <2>2, <2>3
<1> QED
  BY <1>3, <1>4, <1>5, <1>6, <1>7, <1>8, <1>9, <1>10, <1>11 DEF Handle

-----------------------------------------------------------------------------
(* RequestInv is kept by every step.                                        *)

\* A step of a request after which it counts as it did before.
KeptStep(r) ==
    \E to \in RequestType : Kept(requests[r], to) /\ requests' = [requests EXCEPT ![r] = to]

\* finish_request's first lock.
CountingStep(r) == Step(r, "counting", At(r, "pushing")) /\ UpdateAggregates(RecordOf(r))

\* Beginning to be called, and the call, change nothing of what is counted.
LEMMA CallIsKept ==
    ASSUME RequestsInv, NEW r \in Requests, CallService(r) \/ StartRequest(r)
    PROVE  KeptStep(r)
<1> DEFINE q == requests[r]
<1>1. q \in RequestType /\ RequestInv(q)
  BY DEF RequestsInv
<1>2. ASSUME NEW from \in {"none", "calling"}, NEW next \in {"calling", "received"},
             Step(r, from, At(r, next))
      PROVE  KeptStep(r)
  <2>1. q.phase \in {"none", "calling"} /\ q.answer = NoStatus /\ ~q.finalized
    BY <1>1, <1>2 DEF Step, RequestInv, Unanswered, Awaiting
  <2>2. Kept(q, At(r, next))
    BY <1>1, <2>1 DEF Kept, At, RequestInv, RequestType, IsCounted, Phases, InFlight, Awaiting, Finishing,
                      Unanswered
  <2> QED
    BY <1>2, <2>2 DEF KeptStep, Kept, RequestInv, Step
<1> QED
  BY <1>2 DEF CallService, StartRequest

\* So does the end of a task: what waits is gone uncounted, and a stream
\* begins to be counted.
LEMMA EndTaskIsKept ==
    ASSUME RequestsInv, NEW r \in Requests, NEW phases, EndTask(r, phases)
    PROVE  KeptStep(r)
<1> DEFINE q == requests[r]
<1>1. q \in RequestType /\ RequestInv(q)
  BY DEF RequestsInv
<1>2. requests' = [requests EXCEPT ![r] = Dropped(r)]
  BY DEF EndTask
<1>3. Kept(q, Dropped(r))
  <2>1. CASE q.phase \in Awaiting
    <3>1. Dropped(r) = At(r, "gone")
      <4>1. q.phase # "streaming"
        BY <2>1 DEF Awaiting
      <4> QED
        BY <2>1, <4>1 DEF Dropped
    <3>2. Kept(q, At(r, "gone"))
      BY <1>1, <2>1 DEF Kept, At, RequestInv, RequestType, IsCounted, Phases, InFlight, Awaiting, Finishing,
                        Unanswered
    <3> QED
      BY <3>1, <3>2
  <2>2. CASE q.phase = "streaming"
    <3>1. Dropped(r) = Finish(r, q.status, FALSE, "answered")
      BY <2>2 DEF Dropped, Awaiting
    <3>2. q.status \in Nat \ {NoStatus}
      BY <1>1, <2>2 DEF RequestInv, RequestType
    <3>3. Uncounted(Finish(r, q.status, FALSE, "answered"))
      BY <3>2, FinishIsUncounted, Zenon
    <3> QED
      BY <2>2, <3>1, <3>3 DEF Kept, Uncounted, IsCounted
  <2>3. CASE q.phase \notin Awaiting \cup {"streaming"}
    <3>1. Dropped(r) = q
      BY <2>3 DEF Dropped
    <3> QED
      BY <1>1, <3>1 DEF Kept
  <2> QED
    BY <2>1, <2>2, <2>3
<1> QED
  BY <1>2, <1>3 DEF KeptStep, Kept, RequestInv

\* finish_request's second lock: the record is in the ring, and its request
\* stays counted.
LEMMA PushIsQuiet ==
    ASSUME RequestsInv, NEW r \in Requests, Step(r, "pushing", At(r, requests[r].after))
    PROVE  QuietStep(r)
<1> DEFINE q == requests[r]
<1>1. q \in RequestType /\ RequestInv(q) /\ q.phase = "pushing"
  BY DEF RequestsInv, Step
<1>2. q.after \in {"failing", "answered"} /\ q.finalized
  BY <1>1 DEF RequestInv, RequestType, Finishing
<1>3. Quiet(q, At(r, q.after))
  BY <1>1, <1>2 DEF Quiet, Kept, At, RequestInv, RequestType, IsCounted, Phases, InFlight, Awaiting, Finishing,
                    Unanswered
<1> QED
  BY <1>3 DEF QuietStep, Quiet, Kept, RequestInv, Step

\* Every step is one of three: no request moves; one moves and counts as it
\* did; or one is counted.
LEMMA Moves ==
    ASSUME RequestsInv, [ProxyNext]_vars
    PROVE  \/ UNCHANGED <<requests, aggregates>>
           \/ UNCHANGED aggregates /\ \E r \in Requests : KeptStep(r)
           \/ \E r \in Requests : CountingStep(r)
<1> DEFINE Goal == \/ UNCHANGED <<requests, aggregates>>
                   \/ UNCHANGED aggregates /\ \E r \in Requests : KeptStep(r)
                   \/ \E r \in Requests : CountingStep(r)
<1>1. ASSUME NEW r \in Requests, Accept(r) PROVE Goal
  BY <1>1 DEF Accept, hubVars
<1>2. ASSUME NEW r \in Requests, CallService(r) \/ StartRequest(r) PROVE Goal
  <2>1. KeptStep(r)
    BY <1>2, CallIsKept
  <2> QED
    BY <1>2, <2>1 DEF CallService, StartRequest, hubVars
<1>3. ASSUME NEW r \in Requests, QuietStep(r), UNCHANGED aggregates PROVE Goal
  BY <1>3 DEF QuietStep, KeptStep, Quiet
<1>4. ASSUME NEW r \in Requests, Handle(r) PROVE Goal
  <2>1. QuietStep(r)
    BY <1>4, HandleIsQuiet
  <2> QED
    BY <1>3, <1>4, <2>1 DEF Handle, hubVars
<1>5. ASSUME NEW r \in Requests, KeepRecord(r) PROVE Goal
  <2>1. CASE Step(r, "counting", At(r, "pushing")) /\ UpdateAggregates(RecordOf(r))
    BY <2>1 DEF CountingStep
  <2>2. CASE Step(r, "pushing", At(r, requests[r].after)) /\ Push(RecordOf(r))
    <3>1. QuietStep(r)
      BY <2>2, PushIsQuiet
    <3> QED
      BY <1>3, <2>2, <3>1 DEF Push
  <2> QED
    BY <1>5, <2>1, <2>2 DEF KeepRecord
<1>6. ASSUME NEW r \in Requests, NEW phases, EndTask(r, phases) PROVE Goal
  <2>1. KeptStep(r)
    BY <1>6, EndTaskIsKept
  <2> QED
    BY <1>6, <2>1 DEF EndTask, hubVars
<1>7. ASSUME NEW r \in Requests, PanicInLog(r) \/ ClientLeaves(r) \/ CloseIdle(r) \/ KillConnection(r)
      PROVE  Goal
  <2>1. \E phases : EndTask(r, phases)
    BY <1>7 DEF PanicInLog, ClientLeaves, CloseIdle, KillConnection, DropConnection
  <2> QED
    BY <1>6, <2>1
<1>8. CASE WaitForShutdown \/ Drain \/ Quit \/ NotifyWaiters \/ KillServer \/ Complete
  BY <1>8 DEF WaitForShutdown, Drain, Quit, NotifyWaiters, KillServer, Complete, hubVars
<1>9. CASE TakeSnapshot
  BY <1>9 DEF TakeSnapshot, Snapshot, BeginSnapshot, EndSnapshot
<1>10. CASE UNCHANGED vars
  BY <1>10 DEF vars, hubVars
<1> QED
  BY <1>1, <1>2, <1>4, <1>5, <1>7, <1>8, <1>9, <1>10 DEF ProxyNext

\* A counted request is in a phase of its own.
LEMMA CountingType ==
    ASSUME RequestsInv, NEW r \in Requests, Step(r, "counting", At(r, "pushing"))
    PROVE  RequestInv(At(r, "pushing"))
<1>1. requests[r] \in RequestType /\ RequestInv(requests[r]) /\ requests[r].phase = "counting"
  BY DEF RequestsInv, Step
<1> QED
  BY <1>1 DEF At, RequestInv, RequestType, Phases, InFlight, Awaiting, Finishing, Unanswered

LEMMA RequestsInvStep ==
    ASSUME RequestsInv, [ProxyNext]_vars
    PROVE  RequestsInv'
<1>1. ASSUME NEW r \in Requests, NEW to, RequestInv(to), requests' = [requests EXCEPT ![r] = to]
      PROVE  RequestsInv'
  <2>1. to \in RequestType
    BY <1>1 DEF RequestInv
  <2> QED
    BY <1>1, <2>1 DEF RequestsInv
<1>2. CASE UNCHANGED requests
  BY <1>2 DEF RequestsInv
<1>3. ASSUME NEW r \in Requests, KeptStep(r) PROVE RequestsInv'
  BY <1>1, <1>3 DEF KeptStep, Kept
<1>4. ASSUME NEW r \in Requests, CountingStep(r) PROVE RequestsInv'
  BY <1>1, <1>4, CountingType DEF CountingStep, Step
<1> QED
  BY <1>2, <1>3, <1>4, Moves

LEMMA RequestsInvInit == ProxyInit => RequestsInv
BY ActiveAssumption, RetriesAssumption
   DEF ProxyInit, RequestsInv, RequestInv, RequestType, Fresh, NoStatus, Phases, InFlight, Awaiting,
       Finishing, Unanswered

LEMMA RequestsAlways == ProxySpec => []RequestsInv
BY RequestsInvInit, RequestsInvStep, PTL DEF ProxySpec

\* A client that was given an answer, if only its head, is counted once its
\* request is over, whether the stream or the pipeline ended it, or its task
\* was dropped.
THEOREM AnsweredAlwaysCounted == ProxySpec => []AnsweredIsCounted
<1>1. RequestsInv => AnsweredIsCounted
  BY DEF RequestsInv, RequestInv, RequestType, AnsweredIsCounted, Counted, Phases, Unanswered
<1> QED
  BY <1>1, RequestsAlways, PTL

-----------------------------------------------------------------------------
(* The counter of connections.                                              *)

OpenConnections == {r \in Requests : connections[r] = "open"}
Calling == {r \in Requests : requests[r].phase = "calling"}

\* A service is cloned on an open connection only, and a server that has
\* drained has none.
ConnectionsInv ==
    /\ RequestsInv
    /\ connections \in [Requests -> {"none", "open", "closed"}]
    /\ Calling \subseteq OpenConnections
    /\ server \in {"waiting", "stopped"} => OpenConnections = {}
    /\ active_connections = Cardinality(OpenConnections) + Cardinality(Calling)

\* What is counted is finite.
LEMMA CountedSets ==
    ASSUME NEW S, S \subseteq Requests
    PROVE  /\ Cardinality(S) \in Nat /\ IsFiniteSet(S)
           /\ \A r : Cardinality(S \cup {r}) = IF r \in S THEN Cardinality(S) ELSE Cardinality(S) + 1
           /\ \A r : Cardinality(S \ {r}) = IF r \in S THEN Cardinality(S) - 1 ELSE Cardinality(S)
<1>1. IsFiniteSet(S)
  BY RequestsAssumption, FS_Subset
<1> QED
  BY <1>1, FS_CardinalityType, FS_AddElement, FS_RemoveElement

\* What a request's move to another phase does to Calling.
LEMMA CallingMoves ==
    ASSUME RequestsInv, NEW r \in Requests, NEW to, requests' = [requests EXCEPT ![r] = to]
    PROVE  Calling' = IF to.phase = "calling" THEN Calling \cup {r} ELSE Calling \ {r}
<1>1. requests'[r] = to /\ \A x \in Requests \ {r} : requests'[x] = requests[x]
  BY DEF RequestsInv
<1> QED
  BY <1>1 DEF Calling

\* A quiet step, or a count, leaves Calling as it is.
LEMMA CallingStays ==
    ASSUME RequestsInv, NEW r \in Requests, QuietStep(r) \/ Step(r, "counting", At(r, "pushing"))
    PROVE  Calling' = Calling
<1>1. \E to : requests' = [requests EXCEPT ![r] = to] /\ to.phase # "calling"
  <2>1. requests[r] \in RequestType
    BY DEF RequestsInv
  <2>2. At(r, "pushing").phase = "pushing"
    BY <2>1 DEF At, RequestType
  <2> QED
    BY <2>2 DEF QuietStep, Quiet, Step
<1>2. requests[r].phase # "calling"
  BY DEF QuietStep, Quiet, Step
<1>3. r \notin Calling
  BY <1>2 DEF Calling
<1>4. Calling' = Calling \ {r}
  <2>1. PICK to : requests' = [requests EXCEPT ![r] = to] /\ to.phase # "calling"
    BY <1>1
  <2> QED
    BY <2>1, CallingMoves
<1> QED
  BY <1>3, <1>4

\* The end of a task gives back the guards it held.
LEMMA EndTaskCounts ==
    ASSUME ConnectionsInv, NEW r \in Requests, NEW phases, EndTask(r, phases)
    PROVE  ConnectionsInv'
<1>1. RequestsInv'
  <2>1. KeptStep(r)
    BY EndTaskIsKept DEF ConnectionsInv
  <2> QED
    BY <2>1 DEF ConnectionsInv, KeptStep, Kept, RequestsInv
<1>2. /\ connections' = [connections EXCEPT ![r] = "closed"]
      /\ requests' = [requests EXCEPT ![r] = Dropped(r)]
      /\ active_connections' = active_connections - Guards(r)
      /\ server' = server /\ r \in OpenConnections
  BY DEF EndTask, OpenConnections, serverVars
<1>3. OpenConnections' = OpenConnections \ {r}
  BY <1>2 DEF OpenConnections, ConnectionsInv
<1>4. Calling' = Calling \ {r}
  <2>1. Dropped(r).phase # "calling"
    <3>1. requests[r] \in RequestType
      BY DEF ConnectionsInv, RequestsInv
    <3> QED
      BY <3>1 DEF Dropped, At, Finish, RequestType, Awaiting
  <2> QED
    BY <1>2, <2>1, CallingMoves DEF ConnectionsInv
<1>5. Guards(r) = 1 + (IF r \in Calling THEN 1 ELSE 0)
  BY <1>2 DEF Guards, OneIf, OpenConnections, Calling
<1>6. active_connections' = Cardinality(OpenConnections') + Cardinality(Calling')
  <2>1. /\ Cardinality(OpenConnections \ {r}) = Cardinality(OpenConnections) - 1
        /\ Cardinality(OpenConnections) \in Nat
    BY <1>2, CountedSets DEF OpenConnections
  <2>2. /\ Cardinality(Calling \ {r}) = Cardinality(Calling) - (IF r \in Calling THEN 1 ELSE 0)
        /\ Cardinality(Calling) \in Nat
    BY CountedSets DEF Calling
  <2>3. active_connections = Cardinality(OpenConnections) + Cardinality(Calling)
    BY DEF ConnectionsInv
  <2> QED
    BY <1>2, <1>3, <1>4, <1>5, <2>1, <2>2, <2>3
<1> QED
  BY <1>1, <1>2, <1>3, <1>4, <1>6 DEF ConnectionsInv

LEMMA ConnectionsInvStep ==
    ASSUME ConnectionsInv, [ProxyNext]_vars
    PROVE  ConnectionsInv'
<1>1. RequestsInv /\ RequestsInv'
  BY RequestsInvStep DEF ConnectionsInv
<1>2. ASSUME UNCHANGED <<connections, active_connections>>, Calling' = Calling,
             server' \in {"waiting", "stopped"} => OpenConnections = {}
      PROVE  ConnectionsInv'
  <2>1. OpenConnections' = OpenConnections
    BY <1>2 DEF OpenConnections
  <2> QED
    BY <1>1, <1>2, <2>1 DEF ConnectionsInv
<1>3. ASSUME UNCHANGED <<connections, active_connections, server>>, Calling' = Calling
      PROVE  ConnectionsInv'
  BY <1>2, <1>3 DEF ConnectionsInv
<1>4. UNCHANGED requests => Calling' = Calling
  BY DEF Calling
<1>5. ASSUME NEW r \in Requests, Accept(r) PROVE ConnectionsInv'
  <2>1. /\ connections' = [connections EXCEPT ![r] = "open"]
        /\ active_connections' = active_connections + 1
        /\ server' = "serving" /\ server = "serving" /\ r \notin OpenConnections
        /\ Calling' = Calling
    BY <1>4, <1>5 DEF Accept, OpenConnections, serverVars
  <2>2. OpenConnections' = OpenConnections \cup {r}
    BY <2>1 DEF OpenConnections, ConnectionsInv
  <2>3. Cardinality(OpenConnections \cup {r}) = Cardinality(OpenConnections) + 1
    BY <2>1, CountedSets DEF OpenConnections
  <2>4. Cardinality(OpenConnections) \in Nat /\ Cardinality(Calling) \in Nat
    BY CountedSets DEF OpenConnections, Calling
  <2>5. active_connections' = Cardinality(OpenConnections') + Cardinality(Calling')
    BY <2>1, <2>2, <2>3, <2>4 DEF ConnectionsInv
  <2>6. connections' \in [Requests -> {"none", "open", "closed"}] /\ Calling' \subseteq OpenConnections'
    BY <2>1, <2>2 DEF ConnectionsInv
  <2> QED
    BY <1>1, <2>1, <2>5, <2>6 DEF ConnectionsInv
<1>6. ASSUME NEW r \in Requests, CallService(r) PROVE ConnectionsInv'
  <2>1. /\ requests' = [requests EXCEPT ![r] = At(r, "calling")]
        /\ active_connections' = active_connections + 1
        /\ UNCHANGED <<connections, server>> /\ r \in OpenConnections /\ r \notin Calling
    BY <1>6 DEF CallService, Step, OpenConnections, Calling, serverVars
  <2>2. Calling' = Calling \cup {r}
    <3>1. At(r, "calling").phase = "calling"
      BY <1>1 DEF At, RequestsInv, RequestType
    <3> QED
      BY <1>1, <2>1, <3>1, CallingMoves
  <2>3. Cardinality(Calling \cup {r}) = Cardinality(Calling) + 1
    BY <2>1, CountedSets DEF Calling
  <2>4. Cardinality(OpenConnections) \in Nat /\ Cardinality(Calling) \in Nat
    BY CountedSets DEF OpenConnections, Calling
  <2>5. OpenConnections' = OpenConnections
    BY <2>1 DEF OpenConnections
  <2> QED
    BY <1>1, <2>1, <2>2, <2>3, <2>4, <2>5 DEF ConnectionsInv
<1>7. ASSUME NEW r \in Requests, StartRequest(r) PROVE ConnectionsInv'
  <2>1. /\ requests' = [requests EXCEPT ![r] = At(r, "received")]
        /\ active_connections' = active_connections - 1
        /\ UNCHANGED <<connections, server>> /\ r \in Calling
    BY <1>7 DEF StartRequest, Step, Calling, serverVars
  <2>2. Calling' = Calling \ {r}
    <3>1. At(r, "received").phase = "received"
      BY <1>1 DEF At, RequestsInv, RequestType
    <3> QED
      BY <1>1, <2>1, <3>1, CallingMoves
  <2>3. Cardinality(Calling \ {r}) = Cardinality(Calling) - 1
    BY <2>1, CountedSets DEF Calling
  <2>4. Cardinality(OpenConnections) \in Nat /\ Cardinality(Calling) \in Nat
    BY CountedSets DEF OpenConnections, Calling
  <2>5. OpenConnections' = OpenConnections
    BY <2>1 DEF OpenConnections
  <2> QED
    BY <1>1, <2>1, <2>2, <2>3, <2>4, <2>5 DEF ConnectionsInv
<1>8. ASSUME NEW r \in Requests, Handle(r) PROVE ConnectionsInv'
  <2>1. Calling' = Calling
    BY <1>1, <1>8, HandleIsQuiet, CallingStays
  <2> QED
    BY <1>3, <1>8, <2>1 DEF Handle, serverVars
<1>9. ASSUME NEW r \in Requests, KeepRecord(r) PROVE ConnectionsInv'
  <2>1. Calling' = Calling
    BY <1>1, <1>9, PushIsQuiet, CallingStays DEF KeepRecord
  <2> QED
    BY <1>3, <1>9, <2>1 DEF KeepRecord, serverVars
<1>10. ASSUME NEW r \in Requests, PanicInLog(r) \/ ClientLeaves(r) \/ CloseIdle(r) \/ KillConnection(r)
       PROVE  ConnectionsInv'
  <2>1. \E phases : EndTask(r, phases)
    BY <1>10 DEF PanicInLog, ClientLeaves, CloseIdle, KillConnection, DropConnection
  <2> QED
    BY <2>1, EndTaskCounts
<1>11. CASE WaitForShutdown \/ Quit \/ NotifyWaiters \/ Complete \/ TakeSnapshot
  BY <1>3, <1>4, <1>11 DEF WaitForShutdown, Quit, NotifyWaiters, Complete, TakeSnapshot, serverVars
<1>12. CASE Drain
  <2>1. server' = "waiting" => OpenConnections = {}
    BY <1>12 DEF Drain, OpenConnections
  <2>2. server' = "stopped" => OpenConnections = {}
    BY <1>12 DEF Drain, ConnectionsInv
  <2> QED
    BY <1>2, <1>4, <1>12, <2>1, <2>2 DEF Drain
<1>13. CASE KillServer
  BY <1>2, <1>4, <1>13 DEF KillServer
<1>14. CASE UNCHANGED vars
  BY <1>3, <1>4, <1>14 DEF vars, serverVars
<1> QED
  BY <1>5, <1>6, <1>7, <1>8, <1>9, <1>10, <1>11, <1>12, <1>13, <1>14 DEF ProxyNext

LEMMA ConnectionsAlways == ProxySpec => []ConnectionsInv
<1>1. ProxyInit => ConnectionsInv
  <2> SUFFICES ASSUME ProxyInit PROVE ConnectionsInv
    OBVIOUS
  <2>1. OpenConnections = {} /\ Calling = {}
    BY DEF ProxyInit, OpenConnections, Calling, Fresh
  <2>2. Cardinality({}) = 0
    BY FS_EmptySet
  <2> QED
    BY <2>1, <2>2, RequestsInvInit DEF ProxyInit, ConnectionsInv
<1> QED
  BY <1>1, ConnectionsInvStep, PTL DEF ProxySpec

\* The counter of ShutdownManager is the number of guards that live, through
\* clones and drops at whatever point.
THEOREM ConnectionsAlwaysCounted == ProxySpec => []ConnectionsCounted
<1>1. ConnectionsInv => ConnectionsCounted
  BY DEF ConnectionsInv, ConnectionsCounted, OpenConnections, Calling
<1> QED
  BY <1>1, ConnectionsAlways, PTL

\* When axum has drained, wait_for_connections has nobody left to wait for.
THEOREM DrainedAlwaysEmpty == ProxySpec => []DrainedMeansNobodyLeft
<1>1. ConnectionsInv => DrainedMeansNobodyLeft
  <2> SUFFICES ASSUME ConnectionsInv, server \in {"waiting", "stopped"} PROVE active_connections = 0
    BY DEF DrainedMeansNobodyLeft
  <2>1. OpenConnections = {} /\ Calling = {}
    BY DEF ConnectionsInv
  <2> QED
    BY <2>1, FS_EmptySet DEF ConnectionsInv
<1> QED
  BY <1>1, ConnectionsAlways, PTL

-----------------------------------------------------------------------------
(* The aggregates.                                                          *)

Accumulator == [ total : Nat, success_2xx : Nat, client_error_4xx : Nat,
                 server_error_5xx : Nat, timeouts : Nat ]

TimedOutOn(b) == CountedOn(b, {504}) \cup {r \in CountedOn(b, Nat) : requests[r].timed_out}

AggregatesInv ==
    /\ RequestsInv
    /\ aggregates \in [Backends -> Accumulator]
    /\ AggregatesCountAnswers

\* A request that counts as it did is among the same.
LEMMA CountedStays ==
    ASSUME RequestsInv, UNCHANGED requests \/ \E r \in Requests : KeptStep(r), NEW b, NEW statuses
    PROVE  CountedOn(b, statuses)' = CountedOn(b, statuses) /\ TimedOutOn(b)' = TimedOutOn(b)
<1>1. CASE UNCHANGED requests
  BY <1>1 DEF CountedOn, TimedOutOn, Counted
<1>2. CASE \E r \in Requests : KeptStep(r)
  <2>1. PICK r \in Requests, to \in RequestType :
            Kept(requests[r], to) /\ requests' = [requests EXCEPT ![r] = to]
    BY <1>2 DEF KeptStep
  <2>2. requests'[r] = to /\ \A x \in Requests \ {r} : requests'[x] = requests[x]
    BY <2>1 DEF RequestsInv
  <2>3. \A x \in Requests :
            /\ Counted(x)' <=> Counted(x)
            /\ Counted(x) => /\ requests'[x].backend = requests[x].backend
                             /\ requests'[x].status = requests[x].status
                             /\ requests'[x].timed_out = requests[x].timed_out
    BY <2>1, <2>2 DEF Kept, IsCounted, Counted
  <2>4. \A c, s : CountedOn(c, s)' = CountedOn(c, s)
    BY <2>3 DEF CountedOn
  <2>5. TimedOutOn(b)' = TimedOutOn(b)
    BY <2>3, <2>4 DEF TimedOutOn, CountedOn
  <2> QED
    BY <2>4, <2>5
<1> QED
  BY <1>1, <1>2

\* A request that is counted joins those of its backend and its status.
LEMMA CountedGrows ==
    ASSUME RequestsInv, NEW r \in Requests, Step(r, "counting", At(r, "pushing")), NEW b, NEW statuses
    PROVE  /\ CountedOn(b, statuses)' =
                 IF requests[r].backend = b /\ requests[r].status \in statuses
                 THEN CountedOn(b, statuses) \cup {r} ELSE CountedOn(b, statuses)
           /\ TimedOutOn(b)' =
                 IF requests[r].backend = b /\ (requests[r].timed_out \/ requests[r].status = 504)
                 THEN TimedOutOn(b) \cup {r} ELSE TimedOutOn(b)
           /\ r \notin CountedOn(b, statuses) /\ r \notin TimedOutOn(b)
<1>1. requests[r] \in RequestType /\ requests[r].phase = "counting" /\ requests[r].status \in Nat
  BY DEF RequestsInv, RequestType, Step
<1>2. /\ requests'[r] = At(r, "pushing")
      /\ \A x \in Requests \ {r} : requests'[x] = requests[x]
  BY DEF RequestsInv, Step
<1>3. /\ requests'[r].phase = "pushing"
      /\ requests'[r].backend = requests[r].backend
      /\ requests'[r].status = requests[r].status
      /\ requests'[r].timed_out = requests[r].timed_out
  BY <1>1, <1>2 DEF At, RequestType
<1>4. ~Counted(r) /\ Counted(r)' /\ \A x \in Requests \ {r} : Counted(x)' <=> Counted(x)
  BY <1>1, <1>2, <1>3 DEF Counted
<1>5. \A c, s : CountedOn(c, s)' =
                    IF requests[r].backend = c /\ requests[r].status \in s
                    THEN CountedOn(c, s) \cup {r} ELSE CountedOn(c, s)
  BY <1>2, <1>3, <1>4 DEF CountedOn
<1>6. TimedOutOn(b)' =
          IF requests[r].backend = b /\ (requests[r].timed_out \/ requests[r].status = 504)
          THEN TimedOutOn(b) \cup {r} ELSE TimedOutOn(b)
  BY <1>1, <1>2, <1>3, <1>4 DEF TimedOutOn, CountedOn
<1> QED
  BY <1>4, <1>5, <1>6 DEF CountedOn, TimedOutOn

\* One more element is one more.
LEMMA Grows ==
    ASSUME NEW S, S \subseteq Requests, NEW r \in Requests, r \notin S, NEW condition \in BOOLEAN,
           NEW T, T = IF condition THEN S \cup {r} ELSE S
    PROVE  Cardinality(T) = Cardinality(S) + OneIf(condition)
BY CountedSets DEF OneIf

\* What the invariant says of one backend.
LEMMA AggregatesOf ==
    ASSUME AggregatesInv, NEW b \in Backends
    PROVE  /\ aggregates[b].total = Cardinality(CountedOn(b, Nat))
           /\ aggregates[b].success_2xx = Cardinality(CountedOn(b, 200 .. 299))
           /\ aggregates[b].client_error_4xx = Cardinality(CountedOn(b, 400 .. 499))
           /\ aggregates[b].server_error_5xx = Cardinality(CountedOn(b, 500 .. 599))
           /\ aggregates[b].timeouts = Cardinality(TimedOutOn(b))
BY DEF AggregatesInv, AggregatesCountAnswers, TimedOutOn

LEMMA CountingCounts ==
    ASSUME AggregatesInv, NEW r \in Requests, CountingStep(r)
    PROVE  AggregatesCountAnswers' /\ aggregates' \in [Backends -> Accumulator]
<1> DEFINE q == requests[r]
           rec == RecordOf(r)
<1>1. /\ q \in RequestType /\ Step(r, "counting", At(r, "pushing"))
      /\ aggregates' = [aggregates EXCEPT ![rec.backend] = Accumulated(@, rec)]
      /\ rec.backend = q.backend /\ rec.status = q.status /\ rec.timed_out = q.timed_out
  BY DEF AggregatesInv, RequestsInv, CountingStep, UpdateAggregates, RecordOf
<1>2. q.backend \in Backends /\ q.status \in Nat /\ q.timed_out \in BOOLEAN
  BY <1>1 DEF RequestType
<1>3. aggregates' \in [Backends -> Accumulator]
  <2>1. \A acc \in Accumulator : Accumulated(acc, rec) \in Accumulator
    BY DEF Accumulator, Accumulated, OneIf
  <2> QED
    BY <1>1, <1>2, <2>1 DEF AggregatesInv
<1>4. ASSUME NEW b \in Backends
      PROVE  /\ aggregates'[b].total = Cardinality(CountedOn(b, Nat)')
             /\ aggregates'[b].success_2xx = Cardinality(CountedOn(b, 200 .. 299)')
             /\ aggregates'[b].client_error_4xx = Cardinality(CountedOn(b, 400 .. 499)')
             /\ aggregates'[b].server_error_5xx = Cardinality(CountedOn(b, 500 .. 599)')
             /\ aggregates'[b].timeouts = Cardinality(TimedOutOn(b)')
  <2>1. /\ aggregates[b].total = Cardinality(CountedOn(b, Nat))
        /\ aggregates[b].success_2xx = Cardinality(CountedOn(b, 200 .. 299))
        /\ aggregates[b].client_error_4xx = Cardinality(CountedOn(b, 400 .. 499))
        /\ aggregates[b].server_error_5xx = Cardinality(CountedOn(b, 500 .. 599))
        /\ aggregates[b].timeouts = Cardinality(TimedOutOn(b))
    BY AggregatesOf
  <2>2. CASE q.backend # b
    <3>1. aggregates'[b] = aggregates[b]
      BY <1>1, <1>2, <2>2 DEF AggregatesInv
    <3>2. /\ \A statuses : CountedOn(b, statuses)' = CountedOn(b, statuses)
          /\ TimedOutOn(b)' = TimedOutOn(b)
      BY <1>1, <2>2, CountedGrows DEF AggregatesInv
    <3> QED
      BY <2>1, <3>1, <3>2
  <2>3. CASE q.backend = b
    <3>1. aggregates'[b] = Accumulated(aggregates[b], rec)
      BY <1>1, <1>2, <2>3 DEF AggregatesInv
    <3>2. ASSUME NEW statuses
          PROVE  Cardinality(CountedOn(b, statuses)') =
                     Cardinality(CountedOn(b, statuses)) + OneIf(q.status \in statuses)
      <4>1. /\ CountedOn(b, statuses)' = IF q.status \in statuses THEN CountedOn(b, statuses) \cup {r}
                                                                  ELSE CountedOn(b, statuses)
            /\ r \notin CountedOn(b, statuses)
        BY <1>1, <2>3, CountedGrows DEF AggregatesInv
      <4>2. CountedOn(b, statuses) \subseteq Requests /\ (q.status \in statuses) \in BOOLEAN
        BY DEF CountedOn
      <4> HIDE DEF q
      <4> QED
        BY <4>1, <4>2, Grows
    <3>3. Cardinality(TimedOutOn(b)') =
              Cardinality(TimedOutOn(b)) + OneIf(q.timed_out \/ q.status = 504)
      <4>1. /\ TimedOutOn(b)' = IF q.timed_out \/ q.status = 504 THEN TimedOutOn(b) \cup {r}
                                                                 ELSE TimedOutOn(b)
            /\ r \notin TimedOutOn(b)
        BY <1>1, <2>3, CountedGrows DEF AggregatesInv
      <4>2. TimedOutOn(b) \subseteq Requests
        BY DEF TimedOutOn, CountedOn
      <4> QED
        BY <4>1, <4>2, Grows
    <3>4. OneIf(q.status \in Nat) = 1
      BY <1>2 DEF OneIf
    <3>5. /\ aggregates'[b].total = aggregates[b].total + 1
          /\ aggregates'[b].success_2xx = aggregates[b].success_2xx + OneIf(q.status \in 200 .. 299)
          /\ aggregates'[b].client_error_4xx = aggregates[b].client_error_4xx + OneIf(q.status \in 400 .. 499)
          /\ aggregates'[b].server_error_5xx = aggregates[b].server_error_5xx + OneIf(q.status \in 500 .. 599)
          /\ aggregates'[b].timeouts = aggregates[b].timeouts + OneIf(q.timed_out \/ q.status = 504)
      <4> DEFINE acc == aggregates[b]
      <4>1. aggregates'[b] = Accumulated(acc, rec)
        BY <3>1
      <4>2. rec.status = q.status /\ rec.timed_out = q.timed_out
        BY <1>1
      <4> HIDE DEF acc, rec, q
      <4>3. /\ aggregates'[b].total = acc.total + 1
            /\ aggregates'[b].success_2xx = acc.success_2xx + OneIf(q.status \in 200 .. 299)
            /\ aggregates'[b].client_error_4xx = acc.client_error_4xx + OneIf(q.status \in 400 .. 499)
            /\ aggregates'[b].server_error_5xx = acc.server_error_5xx + OneIf(q.status \in 500 .. 599)
            /\ aggregates'[b].timeouts = acc.timeouts + OneIf(q.timed_out \/ q.status = 504)
        BY <4>1, <4>2 DEF Accumulated
      <4> QED
        BY <4>3 DEF acc
    <3>6. ASSUME NEW statuses, NEW old, NEW new,
                 old = Cardinality(CountedOn(b, statuses)), new = old + OneIf(q.status \in statuses)
          PROVE  new = Cardinality(CountedOn(b, statuses)')
      <4> HIDE DEF q
      <4> QED
        BY <3>2, <3>6
    <3>7. aggregates'[b].total = Cardinality(CountedOn(b, Nat)')
      BY <2>1, <3>2, <3>4, <3>5
    <3>8. aggregates'[b].success_2xx = Cardinality(CountedOn(b, 200 .. 299)')
      <4>1. PICK statuses : statuses = 200 .. 299
        OBVIOUS
      <4>2. aggregates[b].success_2xx = Cardinality(CountedOn(b, statuses))
        BY <2>1, <4>1
      <4>3. aggregates'[b].success_2xx = aggregates[b].success_2xx + OneIf(q.status \in statuses)
        BY <3>5, <4>1
      <4> HIDE DEF q
      <4>4. aggregates'[b].success_2xx = Cardinality(CountedOn(b, statuses)')
        BY <3>6, <4>2, <4>3
      <4> QED
        BY <4>1, <4>4
    <3>9. aggregates'[b].client_error_4xx = Cardinality(CountedOn(b, 400 .. 499)')
      <4>1. PICK statuses : statuses = 400 .. 499
        OBVIOUS
      <4>2. aggregates[b].client_error_4xx = Cardinality(CountedOn(b, statuses))
        BY <2>1, <4>1
      <4>3. aggregates'[b].client_error_4xx = aggregates[b].client_error_4xx + OneIf(q.status \in statuses)
        BY <3>5, <4>1
      <4> HIDE DEF q
      <4>4. aggregates'[b].client_error_4xx = Cardinality(CountedOn(b, statuses)')
        BY <3>6, <4>2, <4>3
      <4> QED
        BY <4>1, <4>4
    <3>10. aggregates'[b].server_error_5xx = Cardinality(CountedOn(b, 500 .. 599)')
      <4>1. PICK statuses : statuses = 500 .. 599
        OBVIOUS
      <4>2. aggregates[b].server_error_5xx = Cardinality(CountedOn(b, statuses))
        BY <2>1, <4>1
      <4>3. aggregates'[b].server_error_5xx = aggregates[b].server_error_5xx + OneIf(q.status \in statuses)
        BY <3>5, <4>1
      <4> HIDE DEF q
      <4>4. aggregates'[b].server_error_5xx = Cardinality(CountedOn(b, statuses)')
        BY <3>6, <4>2, <4>3
      <4> QED
        BY <4>1, <4>4
    <3>11. aggregates'[b].timeouts = Cardinality(TimedOutOn(b)')
      BY <2>1, <3>3, <3>5
    <3> QED
      BY <3>7, <3>8, <3>9, <3>10, <3>11
  <2> QED
    BY <2>2, <2>3
<1>5. AggregatesCountAnswers'
  BY <1>4 DEF AggregatesCountAnswers, TimedOutOn
<1> QED
  BY <1>3, <1>5

LEMMA AggregatesInvStep ==
    ASSUME AggregatesInv, [ProxyNext]_vars
    PROVE  AggregatesInv'
<1>1. RequestsInv /\ RequestsInv'
  BY RequestsInvStep DEF AggregatesInv
<1>2. ASSUME UNCHANGED aggregates, UNCHANGED requests \/ \E r \in Requests : KeptStep(r)
      PROVE  AggregatesInv'
  <2>1. \A b, statuses : CountedOn(b, statuses)' = CountedOn(b, statuses)
    BY <1>1, <1>2, CountedStays
  <2>2. \A b : TimedOutOn(b)' = TimedOutOn(b)
    BY <1>1, <1>2, CountedStays
  <2>3. AggregatesCountAnswers'
    BY <1>2, <2>1, <2>2 DEF AggregatesInv, AggregatesCountAnswers, TimedOutOn
  <2> QED
    BY <1>1, <1>2, <2>3 DEF AggregatesInv
<1>3. ASSUME NEW r \in Requests, CountingStep(r) PROVE AggregatesInv'
  BY <1>1, <1>3, CountingCounts DEF AggregatesInv
<1> QED
  BY <1>1, <1>2, <1>3, Moves

LEMMA AggregatesAlways == ProxySpec => []AggregatesInv
<1>1. ProxyInit => AggregatesInv
  <2> SUFFICES ASSUME ProxyInit PROVE AggregatesInv
    OBVIOUS
  <2>1. aggregates = [b \in Backends |-> Nothing] /\ Nothing \in Accumulator
    BY DEF ProxyInit, HubInit, Nothing, Accumulator
  <2>2. \A b, statuses : CountedOn(b, statuses) = {}
    BY DEF ProxyInit, CountedOn, Counted, Fresh
  <2>3. \A b \in Backends : CountedOn(b, {504}) \cup {r \in CountedOn(b, Nat) : requests[r].timed_out} = {}
    BY <2>2
  <2>4. AggregatesCountAnswers
    BY <2>1, <2>2, <2>3, FS_EmptySet DEF AggregatesCountAnswers, Nothing
  <2> QED
    BY <2>1, <2>4, RequestsInvInit DEF AggregatesInv
<1> QED
  BY <1>1, AggregatesInvStep, PTL DEF ProxySpec

\* The aggregates of the hub are exactly the answers: however many requests are
\* finished by whichever stage, in whatever order, each counts once.
THEOREM AggregatesAlwaysCountAnswers == ProxySpec => []AggregatesCountAnswers
<1>1. AggregatesInv => AggregatesCountAnswers
  BY DEF AggregatesInv
<1> QED
  BY <1>1, AggregatesAlways, PTL

-----------------------------------------------------------------------------
(* The ring and the snapshot, and the types.                                *)

\* A request whose record is in the ring, or was.
Pushed(r) == Counted(r) /\ requests[r].phase # "pushing"

\* Records tell of different requests, each of which has been counted.
Faithful(records) ==
    /\ \A i \in DOMAIN records :
           Pushed(records[i].id) /\ records[i].backend = requests[records[i].id].backend
    /\ \A i, j \in DOMAIN records : records[i].id = records[j].id => i = j

RingInv ==
    /\ ring \in Seq(Record) /\ Len(ring) <= Capacity /\ Faithful(ring)
    /\ snapshot \in [taking : BOOLEAN, recent : Seq(Record)] /\ Faithful(snapshot.recent)

\* Different counted requests are no more than are counted.
LEMMA FaithfulIsCounted ==
    ASSUME AggregatesInv, NEW records \in Seq(Record), Faithful(records)
    PROVE  AllCounted(records)
<1> SUFFICES ASSUME NEW b \in Backends
             PROVE  Cardinality(Of(records, b)) <= aggregates[b].total
  BY DEF AllCounted
<1> DEFINE ids == [i \in Of(records, b) |-> records[i].id]
<1>1. \A i \in DOMAIN records : records[i] \in Record
  BY LenProperties
<1>2. \A i \in Of(records, b) : records[i].id \in CountedOn(b, Nat)
  <2> SUFFICES ASSUME NEW i \in Of(records, b) PROVE records[i].id \in CountedOn(b, Nat)
    OBVIOUS
  <2>1. i \in DOMAIN records /\ records[i].backend = b
    BY DEF Of
  <2>2. records[i].id \in Requests
    BY <1>1, <2>1 DEF Record
  <2>3. requests[records[i].id].status \in Nat
    BY <2>2 DEF AggregatesInv, RequestsInv, RequestType
  <2> QED
    BY <2>1, <2>2, <2>3 DEF Faithful, Pushed, CountedOn
<1>3. ids \in Injection(Of(records, b), CountedOn(b, Nat))
  <2>1. ids \in [Of(records, b) -> CountedOn(b, Nat)]
    BY <1>2
  <2>2. \A i, j \in Of(records, b) : ids[i] = ids[j] => i = j
    BY DEF Faithful, Of
  <2> QED
    BY <2>1, <2>2 DEF Injection, IsInjective
<1>4. IsFiniteSet(CountedOn(b, Nat))
  BY CountedSets DEF CountedOn
<1>5. Cardinality(Of(records, b)) <= Cardinality(CountedOn(b, Nat))
  BY <1>3, <1>4, FS_Injection
<1> QED
  <2>1. aggregates[b].total = Cardinality(CountedOn(b, Nat))
    BY AggregatesOf
  <2> QED
    BY <1>5, <2>1

\* What was pushed stays so, with its backend.
LEMMA PushedStays ==
    ASSUME RequestsInv, [ProxyNext]_vars, NEW x \in Requests, Pushed(x)
    PROVE  Pushed(x)' /\ requests'[x].backend = requests[x].backend
<1>1. CASE UNCHANGED requests
  BY <1>1 DEF Pushed, Counted
<1>2. ASSUME NEW r \in Requests, KeptStep(r)
      PROVE  Pushed(x)' /\ requests'[x].backend = requests[x].backend
  <2>1. PICK to \in RequestType : Kept(requests[r], to) /\ requests' = [requests EXCEPT ![r] = to]
    BY <1>2 DEF KeptStep
  <2>2. requests'[x] = IF x = r THEN to ELSE requests[x]
    BY <2>1 DEF RequestsInv
  <2> QED
    BY <2>1, <2>2 DEF Kept, IsCounted, Pushed, Counted
<1>3. ASSUME NEW r \in Requests, CountingStep(r)
      PROVE  Pushed(x)' /\ requests'[x].backend = requests[x].backend
  <2>1. requests[r].phase = "counting" /\ requests' = [requests EXCEPT ![r] = At(r, "pushing")]
    BY <1>3 DEF CountingStep, Step
  <2>2. x # r
    BY <2>1 DEF Pushed, Counted
  <2>3. requests'[x] = requests[x]
    BY <2>1, <2>2 DEF RequestsInv
  <2> QED
    BY <2>3 DEF Pushed, Counted
<1> QED
  BY <1>1, <1>2, <1>3, Moves

LEMMA FaithfulStays ==
    ASSUME RequestsInv, [ProxyNext]_vars, NEW records \in Seq(Record), Faithful(records)
    PROVE  Faithful(records)'
<1>1. \A i \in DOMAIN records : records[i].id \in Requests
  <2>1. \A i \in DOMAIN records : records[i] \in Record
    BY LenProperties
  <2> QED
    BY <2>1 DEF Record
<1>2. \A i \in DOMAIN records :
          Pushed(records[i].id)' /\ records[i].backend = requests'[records[i].id].backend
  BY <1>1, PushedStays DEF Faithful
<1> QED
  BY <1>2 DEF Faithful

\* The ring and the snapshot change in two ways.
LEMMA RingMoves ==
    ASSUME [ProxyNext]_vars
    PROVE  \/ UNCHANGED <<ring, snapshot>>
           \/ Snapshot
           \/ \E r \in Requests : Step(r, "pushing", At(r, requests[r].after)) /\ Push(RecordOf(r))
<1>1. ASSUME NEW r \in Requests, Accept(r) \/ CallService(r) \/ StartRequest(r) \/ Handle(r)
      PROVE  UNCHANGED <<ring, snapshot>>
  BY <1>1 DEF Accept, CallService, StartRequest, Handle, hubVars
<1>2. ASSUME NEW r \in Requests, PanicInLog(r) \/ ClientLeaves(r) \/ CloseIdle(r) \/ KillConnection(r)
      PROVE  UNCHANGED <<ring, snapshot>>
  <2>1. PICK phases : EndTask(r, phases)
    BY <1>2 DEF PanicInLog, ClientLeaves, CloseIdle, KillConnection, DropConnection
  <2> QED
    BY <2>1 DEF EndTask, hubVars
<1>3. CASE WaitForShutdown \/ Drain \/ Quit \/ NotifyWaiters \/ KillServer \/ Complete \/ UNCHANGED vars
  BY <1>3 DEF WaitForShutdown, Drain, Quit, NotifyWaiters, KillServer, Complete, hubVars, vars
<1>4. ASSUME NEW r \in Requests, KeepRecord(r)
      PROVE  \/ UNCHANGED <<ring, snapshot>>
             \/ Step(r, "pushing", At(r, requests[r].after)) /\ Push(RecordOf(r))
  BY <1>4 DEF KeepRecord, UpdateAggregates
<1> QED
  BY <1>1, <1>2, <1>3, <1>4 DEF ProxyNext, TakeSnapshot

\* A record pushed is of a request that had none in the ring.
LEMMA PushIsFaithful ==
    ASSUME RequestsInv, RingInv, [ProxyNext]_vars, NEW r \in Requests,
           Step(r, "pushing", At(r, requests[r].after)), Push(RecordOf(r))
    PROVE  ring' \in Seq(Record) /\ Len(ring') <= Capacity /\ Faithful(ring)'
<1> DEFINE kept == IF Len(ring) = Capacity THEN Tail(ring) ELSE ring
           rec == RecordOf(r)
<1>1. requests[r] \in RequestType /\ RequestInv(requests[r]) /\ requests[r].phase = "pushing"
  BY DEF RequestsInv, Step
<1>2. rec \in Record
  BY <1>1 DEF RecordOf, Record, RequestType
<1>3. kept \in Seq(Record) /\ Len(kept) < Capacity /\ Faithful(kept)
  <2>1. CASE Len(ring) = Capacity
    <3>1. ring # <<>>
      BY <2>1, CapacityAssumption, EmptySeq
    <3>2. /\ Tail(ring) \in Seq(Record) /\ Len(Tail(ring)) = Len(ring) - 1
          /\ \A i \in 1 .. Len(Tail(ring)) : Tail(ring)[i] = ring[i + 1]
      BY <3>1, HeadTailProperties DEF RingInv
    <3>3. Len(ring) \in Nat /\ DOMAIN ring = 1 .. Len(ring) /\ DOMAIN Tail(ring) = 1 .. Len(Tail(ring))
      BY <3>2, LenProperties DEF RingInv
    <3>4. \A i \in DOMAIN Tail(ring) : i \in Nat /\ i + 1 \in DOMAIN ring /\ Tail(ring)[i] = ring[i + 1]
      BY <3>2, <3>3
    <3>5. \A i, j \in DOMAIN Tail(ring) : i + 1 = j + 1 => i = j
      BY <3>4
    <3>6. Faithful(Tail(ring))
      BY <3>4, <3>5 DEF Faithful, RingInv
    <3> QED
      BY <2>1, <3>2, <3>3, <3>6, CapacityAssumption
  <2>2. CASE Len(ring) # Capacity
    BY <2>2, CapacityAssumption, LenProperties DEF RingInv
  <2> QED
    BY <2>1, <2>2
<1>4. PICK left \in Seq(Record) : left = kept
  BY <1>3
<1>5. ring' = Append(left, rec) /\ Len(left) < Capacity /\ Faithful(left)
  BY <1>3, <1>4 DEF Push
<1> HIDE DEF kept, rec
<1>6. /\ ring' \in Seq(Record) /\ Len(ring') = Len(left) + 1 /\ Len(left) \in Nat
      /\ DOMAIN ring' = 1 .. Len(left) + 1 /\ DOMAIN left = 1 .. Len(left)
      /\ \A i \in DOMAIN left : ring'[i] = left[i]
      /\ ring'[Len(left) + 1] = rec
  BY <1>2, <1>5, <1>5, AppendProperties, LenProperties
<1>7. \A i \in DOMAIN left :
          /\ Pushed(left[i].id)' /\ left[i].backend = requests'[left[i].id].backend
          /\ left[i].id # r
  <2>1. Faithful(left)'
    BY <1>5, FaithfulStays
  <2>2. ~Pushed(r)
    BY <1>1 DEF Pushed
  <2>3. \A i \in DOMAIN left : left[i].id # r
    BY <1>5, <2>2 DEF Faithful
  <2> QED
    BY <2>1, <2>3 DEF Faithful
<1>8. Pushed(r)' /\ rec.id = r /\ rec.backend = requests'[r].backend
  <2>1. requests'[r] = At(r, requests[r].after)
    BY DEF RequestsInv, Step
  <2>2. requests[r].after \in {"failing", "answered"} /\ requests[r].finalized
    BY <1>1 DEF RequestInv, RequestType, Finishing
  <2> QED
    BY <1>1, <2>1, <2>2 DEF Pushed, Counted, At, RequestType, RecordOf, rec
<1>9. Faithful(ring)'
  <2>1. PICK next : next = ring'
    OBVIOUS
  <2>2. ASSUME NEW i \in DOMAIN next
        PROVE  Pushed(next[i].id)' /\ next[i].backend = requests'[next[i].id].backend
    <3>1. CASE i \in DOMAIN left
      <4>1. next[i] = left[i]
        BY <1>6, <2>1, <3>1
      <4> QED
        BY <1>7, <3>1, <4>1
    <3>2. CASE i \notin DOMAIN left
      <4>1. next[i].id = r /\ next[i].backend = rec.backend
        BY <1>6, <1>8, <2>1, <2>2, <3>2
      <4> QED
        BY <1>8, <4>1
    <3> QED
      BY <3>1, <3>2
  <2>3. \A i, j \in DOMAIN next : next[i].id = next[j].id => i = j
    <3>1. \A i \in DOMAIN next : i \in DOMAIN left \/ i = Len(left) + 1
      BY <1>6, <2>1
    <3> QED
      BY <1>5, <1>6, <1>7, <1>8, <2>1, <3>1 DEF Faithful
  <2> QED
    BY <2>1, <2>2, <2>3 DEF Faithful
<1> QED
  BY <1>5, <1>6, <1>9, CapacityAssumption

LEMMA RingInvStep ==
    ASSUME RequestsInv, RingInv, [ProxyNext]_vars
    PROVE  RingInv'
<1>1. PICK old : old = ring
  OBVIOUS
<1>2. PICK read : read = snapshot.recent
  OBVIOUS
<1>3. /\ old \in Seq(Record) /\ Faithful(old) /\ Faithful(old)'
      /\ read \in Seq(Record) /\ Faithful(read) /\ Faithful(read)'
  BY <1>1, <1>2, FaithfulStays DEF RingInv
<1>4. CASE UNCHANGED <<ring, snapshot>>
  <2>1. ring' = old /\ snapshot' = snapshot /\ snapshot'.recent = read
    BY <1>1, <1>2, <1>4
  <2>2. Faithful(ring)'
    BY <1>3, <2>1 DEF Faithful
  <2>3. Faithful(snapshot.recent)'
    BY <1>3, <2>1 DEF Faithful
  <2> QED
    BY <1>4, <2>2, <2>3 DEF RingInv
<1>5. CASE Snapshot
  <2>1. ring' = old
    BY <1>1, <1>5 DEF Snapshot, BeginSnapshot, EndSnapshot
  <2>2. Faithful(ring)' /\ ring' \in Seq(Record) /\ Len(ring') <= Capacity
    BY <1>1, <1>3, <2>1 DEF RingInv, Faithful
  <2>3. PICK recent : recent = snapshot'.recent
    OBVIOUS
  <2>4. snapshot' \in [taking : BOOLEAN, recent : Seq(Record)] /\ recent \in {old, <<>>}
    <3>1. /\ [taking |-> TRUE, recent |-> old] \in [taking : BOOLEAN, recent : Seq(Record)]
          /\ [taking |-> FALSE, recent |-> <<>>] \in [taking : BOOLEAN, recent : Seq(Record)]
      BY <1>3, EmptySeq
    <3>2. CASE BeginSnapshot
      BY <1>1, <2>3, <3>1, <3>2 DEF BeginSnapshot
    <3>3. CASE EndSnapshot
      BY <2>3, <3>1, <3>3 DEF EndSnapshot
    <3> QED
      BY <1>5, <3>2, <3>3 DEF Snapshot
  <2>5. Faithful(recent)'
    <3>1. CASE recent = old
      BY <1>3, <3>1
    <3>2. CASE recent = <<>>
      <4>1. DOMAIN recent = {}
        BY <3>2
      <4> QED
        BY <4>1 DEF Faithful
    <3> QED
      BY <2>4, <3>1, <3>2
  <2>6. Faithful(snapshot.recent)'
    BY <2>3, <2>5 DEF Faithful
  <2> QED
    BY <2>2, <2>4, <2>6 DEF RingInv
<1>6. ASSUME NEW r \in Requests, Step(r, "pushing", At(r, requests[r].after)), Push(RecordOf(r))
      PROVE  RingInv'
  <2>1. ring' \in Seq(Record) /\ Len(ring') <= Capacity /\ Faithful(ring)'
    BY <1>6, PushIsFaithful
  <2>2. snapshot' = snapshot /\ snapshot'.recent = read
    BY <1>2, <1>6 DEF Push
  <2> QED
    BY <1>3, <2>1, <2>2 DEF RingInv, Faithful
<1> QED
  BY <1>4, <1>5, <1>6, RingMoves

\* All of it.
ProxyInv == AggregatesInv /\ ConnectionsInv /\ RingInv

FlagsType ==
    /\ shutdown \in BOOLEAN
    /\ waiter \in {"starting", "subscribing", "waiting", "done"}
    /\ server \in {"serving", "draining", "waiting", "stopped", "killed"}
    /\ quit \in {"running", "notifying", "killing", "complete"}

LEMMA FlagsStep ==
    ASSUME FlagsType, [ProxyNext]_vars
    PROVE  FlagsType'
<1>1. ASSUME UNCHANGED serverVars PROVE FlagsType'
  BY <1>1 DEF serverVars, FlagsType
<1>2. ASSUME NEW r \in Requests,
             \/ Accept(r) \/ CallService(r) \/ StartRequest(r) \/ Handle(r) \/ KeepRecord(r)
             \/ PanicInLog(r) \/ ClientLeaves(r) \/ CloseIdle(r) \/ KillConnection(r)
      PROVE  FlagsType'
  BY <1>1, <1>2 DEF Accept, CallService, StartRequest, Handle, KeepRecord, PanicInLog, ClientLeaves,
                    CloseIdle, KillConnection, DropConnection, EndTask
<1>3. CASE WaitForShutdown \/ Drain \/ Quit \/ NotifyWaiters \/ KillServer \/ Complete
  BY <1>3 DEF WaitForShutdown, Drain, Quit, NotifyWaiters, KillServer, Complete, FlagsType
<1>4. CASE TakeSnapshot \/ UNCHANGED vars
  BY <1>1, <1>4 DEF TakeSnapshot, vars
<1> QED
  BY <1>2, <1>3, <1>4 DEF ProxyNext

LEMMA ProxyAlways == ProxySpec => []ProxyInv /\ []FlagsType
<1>1. ProxyInit => RingInv /\ FlagsType
  <2> SUFFICES ASSUME ProxyInit PROVE RingInv /\ FlagsType
    OBVIOUS
  <2>1. ring = <<>> /\ snapshot = [taking |-> FALSE, recent |-> <<>>]
    BY DEF ProxyInit, HubInit
  <2>2. Faithful(<<>>)
    BY DEF Faithful
  <2>3. RingInv
    BY <2>1, <2>2, EmptySeq, CapacityAssumption DEF RingInv
  <2> QED
    BY <2>3 DEF ProxyInit, FlagsType
<1>2. RequestsInv /\ RingInv /\ [ProxyNext]_vars => RingInv'
  BY RingInvStep
<1>3. FlagsType /\ [ProxyNext]_vars => FlagsType'
  BY FlagsStep
<1>4. ProxySpec => []RingInv /\ []FlagsType
  BY <1>1, <1>2, <1>3, RequestsAlways, PTL DEF ProxySpec
<1> QED
  BY <1>4, AggregatesAlways, ConnectionsAlways, PTL DEF ProxyInv

\* Whenever the totals are read, they cover the records read before them.
THEOREM SnapshotAlwaysCountsRecent == ProxySpec => []SnapshotCountsRecent
<1>1. ProxyInv => SnapshotCountsRecent
  BY FaithfulIsCounted DEF ProxyInv, RingInv, SnapshotCountsRecent
<1> QED
  BY <1>1, ProxyAlways, PTL

\* Types: the ring keeps to its capacity and every span to the statuses, the
\* attempts and the backends there are.
THEOREM ProxyTypeCorrect == ProxySpec => []ProxyTypeOK
<1>1. ProxyInv /\ FlagsType => ProxyTypeOK
  <2> SUFFICES ASSUME ProxyInv, FlagsType PROVE ProxyTypeOK
    OBVIOUS
  <2>1. aggregates \in [Backends -> [DOMAIN Nothing -> Nat]]
    <3>1. DOMAIN Nothing = {"total", "success_2xx", "client_error_4xx", "server_error_5xx", "timeouts"}
      BY DEF Nothing
    <3>2. Accumulator \subseteq [DOMAIN Nothing -> Nat]
      BY <3>1 DEF Accumulator
    <3> QED
      BY <3>2 DEF ProxyInv, AggregatesInv
  <2>2. ASSUME NEW r \in Requests
        PROVE  /\ RecordOf(r) \in Record
               /\ requests[r].phase \in Phases
               /\ requests[r].attempt \in 0 .. MaxRetries
               /\ requests[r].phase \in Finishing => requests[r].status # NoStatus
    <3>1. requests[r] \in RequestType /\ RequestInv(requests[r])
      BY DEF ProxyInv, ConnectionsInv, RequestsInv
    <3> QED
      BY <3>1 DEF RecordOf, Record, RequestType, RequestInv
  <2>3. active_connections \in Nat
    <3>1. Cardinality(OpenConnections) \in Nat /\ Cardinality(Calling) \in Nat
      BY CountedSets DEF OpenConnections, Calling
    <3> QED
      BY <3>1 DEF ProxyInv, ConnectionsInv
  <2> QED
    BY <2>1, <2>2, <2>3 DEF ProxyTypeOK, ProxyInv, ConnectionsInv, RingInv, FlagsType, Phases
<1> QED
  BY <1>1, ProxyAlways, PTL
==============================================================================
