--------------------------- MODULE MCRequestPipeline ---------------------------
(***************************************************************************)
(* TLC instances of RequestPipeline: two backends, one or two requests     *)
(* in flight, blocks and request slots interchangeable.                    *)
(***************************************************************************)
EXTENDS RequestPipeline, TLC

Profile(list, default) == [backends |-> list, active |-> default]

\* The instance of the interleaving runs: its configuration does not change.
OneProfile == { Profile(<<"a", "b">>, "a") }

\* One that drops a backend and brings it back.
TwoProfiles == { Profile(<<"a", "b">>, "a"), Profile(<<"b">>, "b") }

Interchangeable == Permutations(Blocks) \cup Permutations(Requests)
=============================================================================
