---------------------------- MODULE ThinkingPromise ----------------------------
(***************************************************************************)
(* What README.md:224 promises of thinking blocks, as a system of its own: *)
(* backends sign blocks in their answers, and whatever is sent to a        *)
(* backend holds only blocks it has signed itself.  There are no sessions, *)
(* no registry and no switches here; RequestPipeline shows that they add   *)
(* up to this.                                                             *)
(***************************************************************************)
EXTENDS BackendNames

CONSTANTS Blocks, Requests

VARIABLES
    signer,     \* block to the backend that signed it, NoName for none yet
    exchange    \* request to its backend and the blocks that lie there

promiseVars == <<signer, exchange>>

Exchange(b, S) == [to |-> b, blocks |-> S]

None == Exchange(NoName, {})

PromiseInit ==
    /\ signer = [x \in Blocks |-> NoName]
    /\ exchange = [r \in Requests |-> None]

SignedBy(b) == {x \in Blocks : signer[x] = b}

\* Where r stands next, the other requests standing still.
Becomes(r, e) == exchange' = [exchange EXCEPT ![r] = e]

\* r is sent, with blocks its backend has signed.
Send(r) ==
    /\ exchange[r] = None
    /\ LET sent == exchange'[r]
       IN  /\ sent.to \in Backends
           /\ sent.blocks \subseteq SignedBy(sent.to)
           /\ Becomes(r, Exchange(sent.to, sent.blocks))
    /\ UNCHANGED signer

\* A retry goes to the same backend, with no block that was not there before.
SendAgain(r) ==
    /\ exchange[r] # None
    /\ exchange'[r].blocks \subseteq exchange[r].blocks
    /\ Becomes(r, Exchange(exchange[r].to, exchange'[r].blocks))
    /\ UNCHANGED signer

\* The backend signs blocks that nobody has signed before, or none; its answer
\* goes on or ends.
Answer(r) ==
    /\ exchange[r] # None
    /\ \E S \in SUBSET SignedBy(NoName) :
          signer' = [x \in Blocks |-> IF x \in S THEN exchange[r].to ELSE signer[x]]
    /\ Becomes(r, None) \/ Becomes(r, Exchange(exchange[r].to, {}))

PromiseNext == \E r \in Requests : Send(r) \/ SendAgain(r) \/ Answer(r)

PromiseSpec == PromiseInit /\ [][PromiseNext]_promiseVars
=============================================================================
