----------------------------- MODULE Observability -----------------------------
(***************************************************************************)
(* The observability hub of src/metrics: the aggregates per backend        *)
(* (aggregator.rs), the ring of recent requests (ring.rs) and the snapshot *)
(* that puts them together (hub.rs).  The two stores have a lock each, so  *)
(* finishing a request is two steps and so is taking a snapshot.           *)
(* Latencies, bytes and the analyses of bodies are left out: no counter    *)
(* depends on them.                                                        *)
(***************************************************************************)
EXTENDS BackendNames, Naturals, Sequences, FiniteSets

CONSTANTS
    Requests,   \* the requests that may be served
    Capacity    \* of the ring

ASSUME CapacityAssumption == Capacity \in Nat \ {0}

VARIABLES
    aggregates,     \* BackendAccumulator of every backend
    ring,           \* RequestRingBuffer
    snapshot        \* the snapshot the IPC task is taking

hubVars == <<aggregates, ring, snapshot>>

Record == [id : Requests, backend : Backends, status : Nat, timed_out : BOOLEAN]

Nothing == [total |-> 0, success_2xx |-> 0, client_error_4xx |-> 0,
            server_error_5xx |-> 0, timeouts |-> 0]

HubInit ==
    /\ aggregates = [b \in Backends |-> Nothing]
    /\ ring = <<>>
    /\ snapshot = [taking |-> FALSE, recent |-> <<>>]

OneIf(condition) == IF condition THEN 1 ELSE 0

\* BackendAccumulator::update.
Accumulated(acc, rec) ==
    [ total            |-> acc.total + 1,
      success_2xx      |-> acc.success_2xx + OneIf(rec.status \in 200 .. 299),
      client_error_4xx |-> acc.client_error_4xx + OneIf(rec.status \in 400 .. 499),
      server_error_5xx |-> acc.server_error_5xx + OneIf(rec.status \in 500 .. 599),
      timeouts         |-> acc.timeouts + OneIf(rec.timed_out \/ rec.status = 504) ]

\* The first lock of finish_request.
UpdateAggregates(rec) ==
    /\ aggregates' = [aggregates EXCEPT ![rec.backend] = Accumulated(@, rec)]
    /\ UNCHANGED <<ring, snapshot>>

\* The second: at capacity the oldest record makes room.
Push(rec) ==
    /\ ring' = Append(IF Len(ring) = Capacity THEN Tail(ring) ELSE ring, rec)
    /\ UNCHANGED <<aggregates, snapshot>>

\* snapshot, first lock: the recent records.
BeginSnapshot ==
    /\ ~snapshot.taking
    /\ snapshot' = [taking |-> TRUE, recent |-> ring]
    /\ UNCHANGED <<aggregates, ring>>

\* snapshot, second lock: the totals, and the percentiles of the records read
\* before under the backends the totals know.
EndSnapshot ==
    /\ snapshot.taking
    /\ snapshot' = [taking |-> FALSE, recent |-> <<>>]
    /\ UNCHANGED <<aggregates, ring>>

Snapshot == BeginSnapshot \/ EndSnapshot

-----------------------------------------------------------------------------
Of(records, b) == {i \in DOMAIN records : records[i].backend = b}

\* Every record of a sequence has been counted, each on its own account.
AllCounted(records) == \A b \in Backends : Cardinality(Of(records, b)) <= aggregates[b].total

\* Whenever the totals are read, they cover the records read before them: a
\* status view never shows a recent request that its totals lack, nor latency
\* percentiles of a backend that served nothing.
SnapshotCountsRecent == AllCounted(ring) /\ (snapshot.taking => AllCounted(snapshot.recent))
=============================================================================
