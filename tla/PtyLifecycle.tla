------------------------------ MODULE PtyLifecycle ------------------------------
(***************************************************************************)
(* The reducer of src/ui/pty: what each intent makes of the state of the   *)
(* PTY lifecycle.  Keyboard input is a number, the order it was typed in.  *)
(* Restarting and Ready hold no buffer in the code; it is empty here.      *)
(***************************************************************************)
EXTENDS Naturals, Sequences

LifecyclePhases == {"pending", "attached", "ready", "restarting"}

Lifecycle == [phase : LifecyclePhases, buffer : Seq(Nat)]

Pending    == [phase |-> "pending", buffer |-> <<>>]
Restarting == [phase |-> "restarting", buffer |-> <<>>]

IsReady(s)      == s.phase = "ready"
IsAttached(s)   == s.phase = "attached"
IsRestarting(s) == s.phase = "restarting"
IsBuffering(s)  == s.phase \in {"pending", "attached"}

\* PtyIntent::Attach
Attach(s) == IF IsReady(s) THEN s ELSE [s EXCEPT !.phase = "attached"]

\* PtyIntent::GotOutput, and the buffer it flushes as a side effect.
GotOutput(s) == IF IsAttached(s) THEN [phase |-> "ready", buffer |-> <<>>] ELSE s

\* Mutant of Flushed: the side effect is not emitted.
FlushedNothing(s) == <<>>

Flushed(s) == IF IsAttached(s) THEN s.buffer ELSE <<>>

\* Mutant of BufferInput: the latest input goes out first.
BufferInputFront(s, i) ==
    IF IsBuffering(s) THEN [s EXCEPT !.buffer = <<i>> \o @] ELSE s

\* PtyIntent::BufferInput
BufferInput(s, i) == IF IsBuffering(s) THEN [s EXCEPT !.buffer = Append(@, i)] ELSE s

\* PtyIntent::Detach
Detach(s) == Restarting

\* PtyIntent::SpawnFailed
SpawnFailed(s) == IF IsRestarting(s) THEN Pending ELSE s
=============================================================================
