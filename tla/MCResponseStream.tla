--------------------------- MODULE MCResponseStream ---------------------------
(* ResponseStream for TLC: short responses of each wire format, with the data   *)
(* lines cut between characters or inside one, and a model of another name.     *)
EXTENDS ResponseStream

E(kind, index, text) ==
    [kind |-> kind, index |-> index, text |-> text, wide |-> FALSE, model_known |-> FALSE]

Model(kind, w, known) ==
    [kind |-> kind, index |-> 0, text |-> FALSE, wide |-> w, model_known |-> known]

Ping == E("other", 0, FALSE)

\* A block of two deltas, its stop, and what follows.
MCResponses ==
    { <<Ping, Model("message_start", w, known), E("block_start", 0, FALSE),
        E("block_delta", 0, TRUE), E("block_delta", 0, TRUE), E("block_stop", 0, FALSE)>> :
        w, known \in BOOLEAN } \cup
    { <<Model("message_start", FALSE, TRUE), E("redacted", 0, TRUE), E("block_start", 1, TRUE),
        E("block_start", 2, FALSE), E("block_delta", 1, TRUE), E("block_stop", 2, FALSE)>>,
      <<Model("message_start", FALSE, TRUE), E("block_start", 0, TRUE),
        E("block_delta", 0, TRUE), E("block_start", 0, FALSE), E("block_delta", 0, TRUE)>> } \cup
    { <<Model("completion", v, TRUE), Model("completion", w, TRUE), Model("completion", w, known)>> :
        v, w, known \in BOOLEAN }
=============================================================================
