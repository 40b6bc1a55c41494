------------------------------ MODULE MCUiRuntime ------------------------------
(***************************************************************************)
(* UiRuntime on small instances.  Two restarts in flight are enough for    *)
(* one to overtake the readers of the other; the room between loop and     *)
(* bridge is one command, so that it is full as soon as one waits.         *)
(***************************************************************************)
EXTENDS UiRuntime
=============================================================================
