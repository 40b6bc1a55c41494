---------------------------- MODULE ThinkingRegistry ----------------------------
(***************************************************************************)
(* src/proxy/thinking/registry.rs: which thinking blocks may still be sent *)
(* to the current backend.  TransformerRegistry keeps it behind one Mutex, *)
(* so each operation below is one step.                                    *)
(*                                                                         *)
(* A block is identified with its content hash: two different contents are *)
(* taken to have different hashes (fast_hash covers the first and last 256 *)
(* bytes and the length).  Time is what the cleanup compares: whether the  *)
(* block is older than orphan_threshold.                                   *)
(***************************************************************************)
EXTENDS BackendNames, Naturals

CONSTANTS
    Blocks,     \* thinking block contents
    GraceEnds   \* whether orphan_threshold is short enough to be reached

ASSUME GraceEndsAssumption == GraceEnds \in BOOLEAN

VARIABLES
    current_session,
    current_backend,    \* NoName stands for the empty name it starts with
    blocks          \* block to BlockInfo

registryVars == <<current_session, current_backend, blocks>>

BlockInfo == [session : Nat, confirmed : BOOLEAN, aged : BOOLEAN]

Registered(session) == [session |-> session, confirmed |-> FALSE, aged |-> FALSE]

RegistryInit ==
    /\ current_session = 0
    /\ current_backend = NoName
    /\ blocks = [x \in {} |-> Registered(0)]

\* The session after on_backend_switch(b).
SessionAt(b) == IF b = current_backend THEN current_session ELSE current_session + 1

OnBackendSwitch(b) ==
    /\ current_session' = SessionAt(b)
    /\ current_backend' = b
    /\ UNCHANGED blocks

\* register_block for each block of S: a block already held under that session
\* keeps its entry, any other entry is overwritten.
RegisterBlocks(S, session) ==
    /\ blocks' = [x \in DOMAIN blocks \cup S |->
                    IF x \in S /\ ~(x \in DOMAIN blocks /\ blocks[x].session = session)
                    THEN Registered(session)
                    ELSE blocks[x]]
    /\ UNCHANGED <<current_session, current_backend>>

\* The entry of x after confirm_blocks saw the blocks S in a request.
Confirmed(x, S) ==
    [blocks[x] EXCEPT !.confirmed =
        @ \/ (x \in S /\ blocks[x].session = current_session)]

\* Rule 1: an entry of an earlier session goes.
IsOld(x) == blocks[x].session # current_session

\* Rule 2: confirmed once, and the request no longer has it.
IsUnused(x, S) == blocks[x].confirmed /\ x \notin S

\* Mutant of IsOrphan: a block the request has is an orphan too.
OrphanThoughSent(x, S) == ~blocks[x].confirmed /\ blocks[x].aged

\* Rule 3: never confirmed, not in the request, and past the grace period.
IsOrphan(x, S) == ~blocks[x].confirmed /\ x \notin S /\ blocks[x].aged

\* Mutant of Survivors: rule 1 is forgotten.
SurvivorsOfAnySession(S, history) ==
    {x \in DOMAIN blocks :
        history /\ S # {} => ~IsUnused(x, S) /\ ~IsOrphan(x, S)}

\* cleanup_cache, which is cleanup_old_sessions when the request has no history
\* or no thinking block to compare with.
Survivors(S, history) ==
    {x \in DOMAIN blocks :
        /\ ~IsOld(x)
        /\ history /\ S # {} => ~IsUnused(x, S) /\ ~IsOrphan(x, S)}

\* filter_request on a request with the blocks S: confirm, clean up, and keep
\* in the request the blocks that are still held.
FilterRequest(S, history) ==
    /\ blocks' = [x \in Survivors(S, history) |-> Confirmed(x, S)]
    /\ UNCHANGED <<current_session, current_backend>>

Kept(S, history) == S \cap Survivors(S, history)

\* The grace period of an entry runs out.
GraceExpires(x) ==
    /\ GraceEnds
    /\ x \in DOMAIN blocks /\ ~blocks[x].aged
    /\ blocks' = [blocks EXCEPT ![x].aged = TRUE]
    /\ UNCHANGED <<current_session, current_backend>>

-----------------------------------------------------------------------------

RegistryTypeOK ==
    /\ current_session \in Nat
    /\ current_backend \in Option(Backends)
    /\ blocks \in [DOMAIN blocks -> BlockInfo]
    /\ DOMAIN blocks \subseteq Blocks
=============================================================================
