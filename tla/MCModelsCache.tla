----------------------------- MODULE MCModelsCache -----------------------------
(* ModelsCache for TLC: a profile of two backends, and one that drops one.   *)
EXTENDS ModelsCache, TLC

CONSTANTS h1, h2

MCProfiles == {[backends |-> <<"a", "b">>, active |-> "a"],
               [backends |-> <<"a">>, active |-> "a"]}

\* The requests are alike.
HandlerSymmetry == Permutations(Handlers)

\* The URLs of a backend are alike, so each starts from the first.
MCInit == ModelsInit /\ base_url = [b \in Backends |-> "u"]

MCSpec == MCInit /\ [][ModelsNext]_modelsVars

\* Bound: one backend that moves gives a name two keys.
OneMoves == base_url["b"] = "u"
=============================================================================
